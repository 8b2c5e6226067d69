------------------------------- MODULE Browser -------------------------------
(***************************************************************************)
(* The on-board browser (system/browser.c): one HTTP client with one       *)
(* connection and one receive buffer, the fetches the window manager's     *)
(* loop makes with it (home page, clicked links, dictionary, stylesheet,   *)
(* pages for boards of the mesh), the document on the screen, and the      *)
(* proxy that serves a fetched page to the mesh in chunks.                 *)
(*                                                                         *)
(* A segment of a body is <<address it came from, url, number>>.  The      *)
(* network loses, repeats and reorders segments and DNS answers.           *)
(***************************************************************************)
EXTENDS Integers, Sequences

CONSTANTS Page,       \* pages links lead to; "home" is one of them
          MeshPage,   \* the pages on boards of the WiFi mesh
          Host,       \* the host of every url ("dict" and stylesheets too)
          Css,        \* the stylesheet a page names, or "none"
          Segs,       \* segments of every url's body
          RXCAP,      \* segments br_page holds (BR_RXCAP)
          HasLength,  \* whether servers send Content-Length
          LateDns,    \* whether a repeated DNS answer may arrive during a later query
          EVENTS      \* bound on clicks and requests

VARIABLES job,   \* the fetch in progress, and what it is for
          conn,  \* br_c: [state, from, url, fin, rst]
          page,  \* br_page: the segments received
          dns,   \* [flight, name]: answers on their way; the cached name
          view,  \* what is shown and what it was built from
          px,    \* the proxy's cache, the wanted url, the last reply
          asked  \* [url, lang, events, first]: what waits for the next poll

brvars == <<job, conn, page, dns, view, px, asked>>

NoDoc == [url |-> "none", body |-> <<>>]
Body(u) == [i \in 1..Segs[u] |-> <<Host[u], u, i>>]

Idle == [for |-> "none", page |-> "none", step |-> "none", url |-> "none",
         try |-> 0, again |-> FALSE, pc |-> "idle", ip |-> "none"]
Closed == [state |-> 0, from |-> "none", url |-> "none", fin |-> FALSE, rst |-> FALSE]

BInit ==
    /\ job = Idle /\ conn = Closed /\ page = <<>>
    /\ dns = [flight |-> {}, name |-> "none"]
    /\ view = [doc |-> NoDoc, html |-> NoDoc, cur |-> "home", css |-> "none", cssurl |-> "none",
               lang |-> "en", dict |-> FALSE, have |-> FALSE]
    /\ px = [url |-> "none", body |-> <<>>, ok |-> FALSE, err |-> FALSE, want |-> "none",
             reply |-> <<>>]
    /\ asked = [url |-> "none", lang |-> "none", events |-> 0, first |-> FALSE]

-----------------------------------------------------------------------------
(* What is on the screen *)

(* br_present_lang: show the kept page again, in the present language.     *)
br_present_lang(v) == IF v.html = NoDoc THEN v ELSE [v EXCEPT !.doc = v.html]

(* br_builtin_mesh: the page made without the network.                     *)
br_builtin_mesh == [url |-> "xinu://mesh", body |-> <<>>]

Fetch(j, step, url) == [j EXCEPT !.step = step, !.url = url, !.try = 1, !.pc = "dns"]

(* browser_fetch_en: the dictionary first, once, except for a mesh board.  *)
browser_fetch_en(for, p, again) ==
    LET j == [Idle EXCEPT !.for = for, !.page = p, !.again = again]
    IN  IF ~view.dict /\ p \notin MeshPage THEN Fetch(j, "dict", "dict") ELSE Fetch(j, "page", p)

(* br_fetch_home after a failed fetch: until a page could be shown once,   *)
(* try a second time and then take the page as it is.                      *)
br_fetch_home_failed ==
    IF job.for # "home" \/ view.have THEN Idle
    ELSE IF ~job.again THEN browser_fetch_en("home", "home", TRUE)
    ELSE Fetch(job, "raw", "home")

(* browser_fetch_en after a page: its stylesheet, unless it is the one     *)
(* loaded last; without one the page is shown at once.                     *)
GotPage ==
    LET v == [view EXCEPT !.html = [url |-> job.page, body |-> page], !.cur = job.page] IN
    IF Css[job.page] \notin {"none", view.cssurl}
    THEN /\ view' = v /\ job' = Fetch(job, "css", Css[job.page])
         /\ UNCHANGED asked
    ELSE /\ view' = br_present_lang(IF Css[job.page] = "none"
                        THEN [v EXCEPT !.css = "none", !.cssurl = "none", !.have = @ \/ job.for = "home"]
                        ELSE [v EXCEPT !.have = @ \/ job.for = "home"])
         /\ job' = Idle
         /\ asked' = [asked EXCEPT !.first = TRUE]

GotCss(ok) ==
    /\ view' = br_present_lang([view EXCEPT !.css = IF ok THEN job.url ELSE "none",
                                            !.cssurl = IF ok THEN job.url ELSE @,
                                            !.have = @ \/ job.for = "home"])
    /\ job' = Idle
    /\ asked' = [asked EXCEPT !.first = TRUE]

(* br_proxy_poll after its fetch: the cache becomes this url's, whole or   *)
(* with the reason there is none.                                          *)
br_proxy_poll(ok) ==
    /\ px' = [px EXCEPT !.url = job.url, !.want = "none", !.ok = ok, !.err = ~ok,
                        !.body = IF ok THEN page ELSE @]
    /\ job' = Idle
    /\ UNCHANGED <<view, asked>>

(* browser_fetch_raw and its caller when a fetch ends: one more try for a  *)
(* body cut short and for a connection that did not open.                  *)
Ended(r) ==
    /\ conn' = Closed
    /\ IF r \in {"cut", "nosyn"} /\ job.try = 1
       THEN job' = [job EXCEPT !.try = 2, !.pc = "dns"] /\ UNCHANGED <<view, px, asked>>
       ELSE \/ job.step = "proxy" /\ br_proxy_poll(r = "ok")
            \/ job.step = "css" /\ GotCss(r = "ok") /\ UNCHANGED px
            \/ /\ job.step \in {"dict", "page", "raw"} /\ r # "ok"
               /\ job' = br_fetch_home_failed /\ UNCHANGED <<view, px, asked>>
            \/ /\ job.step = "dict" /\ r = "ok"
               /\ view' = [view EXCEPT !.dict = TRUE]
               /\ job' = Fetch(job, "page", job.page)
               /\ UNCHANGED <<px, asked>>
            \/ job.step = "page" /\ r = "ok" /\ GotPage /\ UNCHANGED px
            \/ /\ job.step = "raw" /\ r = "ok"
               /\ view' = [view EXCEPT !.doc = [url |-> job.url, body |-> page]]
               /\ job' = Idle
               /\ asked' = [asked EXCEPT !.first = @ \/ job.for = "home"]
               /\ UNCHANGED px

-----------------------------------------------------------------------------
(* One fetch: browser_fetch1 *)

(* browser_handle, UDP: the first address record of any answer from port   *)
(* 53 is taken; neither its id nor its name is compared.                   *)
DnsAnswers == dns.flight \cup {Host[job.url]}

(* br_dns_query: routed through the gateway, sent up to four times.        *)
br_dns_query ==
    /\ job.pc = "dns"
    /\ \/ \E a \in DnsAnswers :
            /\ job' = [job EXCEPT !.pc = "syn", !.ip = a]
            /\ dns' = [flight |-> IF LateDns THEN dns.flight \cup {Host[job.url]} ELSE {},
                       name |-> Host[job.url]]
            /\ UNCHANGED <<conn, page, view, px, asked>>
       \/ /\ dns.name = Host[job.url]              \* no answer: the one of last time
          /\ job' = [job EXCEPT !.pc = "syn", !.ip = dns.name]
          /\ UNCHANGED <<conn, page, dns, view, px, asked>>
       \/ /\ dns.name # Host[job.url]
          /\ Ended("nodns")
          /\ UNCHANGED <<page, dns>>

(* br_http_get: route, then the SYN, sent up to five times; the buffer is  *)
(* emptied only once there is a route.  The request goes out once.         *)
br_http_get ==
    /\ job.pc = "syn"
    /\ \/ Ended("noroute") /\ UNCHANGED page
       \/ \E r \in {"rst", "nosyn"} : Ended(r) /\ page' = <<>>
       \/ /\ conn' = [Closed EXCEPT !.state = 2, !.from = job.ip, !.url = job.url]
          /\ page' = <<>>
          /\ job' = [job EXCEPT !.pc = "get"]
          /\ UNCHANGED <<view, px, asked>>
    /\ UNCHANGED dns

(* Only the segment that continues the stream is taken; earlier and later  *)
(* ones are answered with the same acknowledgement.                        *)
InSequence(i) == i = Len(page) + 1

(* browser_handle, TCP: a data segment, a FIN, a reset.                    *)
browser_handle ==
    /\ job.pc = "get" /\ conn.state = 2
    /\ \/ \E i \in 1..Segs[conn.url] :
            /\ InSequence(i) /\ Len(page) < RXCAP
            /\ page' = Append(page, <<conn.from, conn.url, i>>)
            /\ UNCHANGED conn
       \/ /\ Len(page) = Segs[conn.url]
          /\ conn' = [conn EXCEPT !.state = 3, !.fin = TRUE]
          /\ UNCHANGED page
       \/ conn' = [conn EXCEPT !.state = 0, !.rst = TRUE] /\ UNCHANGED page
    /\ UNCHANGED <<job, dns, view, px, asked>>

(* The end of browser_fetch1: after the FIN, a reset or 15 s the body is   *)
(* held against its Content-Length.                                        *)
CutShort == HasLength /\ Len(page) < Segs[job.url]

browser_fetch1 ==
    /\ job.pc = "get"
    /\ Ended(IF page = <<>> THEN "empty" ELSE IF CutShort THEN "cut" ELSE "ok")
    /\ UNCHANGED <<page, dns>>

-----------------------------------------------------------------------------
(* Requests, and the poll that serves them *)

Asking(a) == asked.events < EVENTS /\ asked' = [a EXCEPT !.events = @ + 1]

(* browser_click: the language button, a link, the line with the url; and  *)
(* browser_request_url, from HTTP and the menu.                            *)
browser_click ==
    /\ \/ Asking([asked EXCEPT !.lang = IF view.lang = "en" THEN "ja" ELSE "en"])
       \/ \E u \in Page \cup {"https", "xinu://mesh"} : Asking([asked EXCEPT !.url = u])
    /\ UNCHANGED <<job, conn, page, dns, view, px>>

(* The shell's browser command and the browser process: browser_fetch      *)
(* shows what it got without keeping it as the page.                       *)
browser_fetch ==
    /\ job.pc = "idle"
    /\ \E u \in Page : job' = Fetch([Idle EXCEPT !.for = "shell"], "raw", u)
    /\ Asking(asked)
    /\ UNCHANGED <<conn, page, dns, view, px>>

(* browser_proxy_request: a chunk of the cached page, the reason there is  *)
(* none, or "wait", noting what is wanted if nothing is yet.               *)
browser_proxy_request ==
    /\ Asking(asked)
    /\ \E u \in Page :
        \/ /\ px.ok /\ u = px.url
           /\ \E off \in 0..Len(px.body) :
                px' = [px EXCEPT !.reply = <<u, off, IF off < Len(px.body) THEN px.body[off + 1] ELSE "end">>]
        \/ /\ ~(px.ok /\ u = px.url) /\ px.err /\ u # px.want /\ u = px.url
           /\ px' = [px EXCEPT !.reply = <<>>]
        \/ /\ u # px.url \/ (~px.ok /\ (~px.err \/ u = px.want))
           /\ px' = [px EXCEPT !.reply = <<>>, !.want = IF @ = "none" THEN u ELSE @,
                               !.err = IF px.want = "none" THEN FALSE ELSE @]
    /\ UNCHANGED <<job, conn, page, dns, view>>

(* browser_poll_pending: the first page until it came once; then a page    *)
(* for the mesh, the language, a followed link (an https one is refused),  *)
(* and about every minute the page on show.                                *)
browser_poll_pending ==
    /\ job.pc = "idle"
    /\ IF ~asked.first
       THEN job' = browser_fetch_en("home", "home", FALSE) /\ UNCHANGED <<view, asked>>
       ELSE IF px.want # "none"
       THEN job' = Fetch([Idle EXCEPT !.for = "proxy"], "proxy", px.want) /\ UNCHANGED <<view, asked>>
       ELSE LET v    == IF asked.lang = "none" THEN view
                        ELSE br_present_lang([view EXCEPT !.lang = asked.lang])
                mesh == [v EXCEPT !.html = br_builtin_mesh, !.doc = br_builtin_mesh,
                                  !.cur = "xinu://mesh", !.css = "none", !.cssurl = "none"]
                home == IF view.have THEN view.cur ELSE "home"
            IN  /\ asked' = [asked EXCEPT !.lang = "none", !.url = "none"]
                /\ CASE asked.url = "xinu://mesh" -> view' = mesh /\ job' = job
                     [] asked.url = "https"       -> view' = v /\ job' = job
                     [] asked.url \in Page        ->
                            view' = v /\ job' = browser_fetch_en("click", asked.url, FALSE)
                     [] OTHER -> \/ view' = v /\ job' = job
                                 \/ IF home = "xinu://mesh" THEN view' = mesh /\ job' = job
                                    ELSE view' = v /\ job' = browser_fetch_en("home", home, FALSE)
    /\ UNCHANGED <<conn, page, dns, px>>

BrNext ==
    \/ br_dns_query \/ br_http_get \/ browser_handle \/ browser_fetch1
    \/ browser_click \/ browser_fetch \/ browser_proxy_request \/ browser_poll_pending

BrSpec == BInit /\ [][BrNext]_brvars

-----------------------------------------------------------------------------
(* Properties *)

(* "Even if an update fails the screen stays as it was" (browser.c): the   *)
(* document shown is always the whole body of the url it was fetched for,  *)
(* from that url's host, in order: no cut body, no rest of an earlier page *)
(* in the shared buffer, no body of another host reaches the screen.       *)
ShowsWholePages ==
    \A d \in {view.doc, view.html} :
        d.url \notin {"none", "xinu://mesh"} => d.body = Body(d.url)

(* A chunk the proxy hands to a board of the mesh is the chunk at that     *)
(* offset of the url asked for, also while the next page is being fetched  *)
(* into the buffer the cache was filled from.                              *)
ProxyServesItsUrl ==
    px.reply # <<>> =>
        LET u == px.reply[1] off == px.reply[2]
        IN  px.reply[3] = IF off < Segs[u] THEN Body(u)[off + 1] ELSE "end"

(* br_cur_url, "the page being shown" (browser.c): links are resolved      *)
(* against it, so it names the document on the screen.                     *)
CurUrlIsShown == view.doc # NoDoc => view.cur = view.doc.url
=============================================================================
