------------------------------- MODULE PdfCache -------------------------------
(***************************************************************************)
(* Requests for PDFs and the PDF cache in Redis over time (handlers/pdf.go *)
(* without the Chrome pool, see Renderer).  A request is validated, looked *)
(* up, rendered if it is not found, and its PDF is stored for the          *)
(* configured lifetime.  Requests for one key overlap, and URLs change.    *)
(*                                                                         *)
(* Time passes in steps of its own.  It does not pass the deadline of a    *)
(* render that prints, as chromedp returns when its context ends.  Nothing *)
(* else is bounded: not the look-up, not the wait for a tab, and neither   *)
(* the release of the tab nor the call to Redis that follow the printing.  *)
(***************************************************************************)
EXTENDS PdfParams

CONSTANTS Worker,      \* goroutines that serve a request
          Form,        \* the fields of the requests received
          None,        \* no PDF
          TTL,         \* cache.pdf_cache_ttl
          Minute,      \* the lifetime that replaces one of 0 and below
          Timeout,     \* pdf.timeout_secs
          MaxTime      \* bound of the model on the time

ASSUME CacheAssumption ==
    /\ Minute \in Nat \ {0} /\ Timeout \in Nat /\ TTL \in Int
    /\ MaxTime \in Nat
    /\ Form \subseteq FormFields
    /\ None \notin Nat

VARIABLES
    now,      \* time
    cache,    \* keys in Redis: PDF, end of its life and (history) its beginning
    stage,    \* where each request is
    request,  \* its parameters
    began,    \* when its render began, 0 when there is none
    pdf       \* what was printed for it or found in the cache

vars == <<now, cache, stage, request, began, pdf>>

\* A PDF, when the page was fetched that it shows, and when it was printed.
PDF == [of : PDFRequestParams, fetched : Nat, printed : Nat]
Entry == [pdf : PDF, stored : Nat, expires : Nat \cup {None}]

TypeOK ==
    /\ now \in Nat
    /\ DOMAIN cache \subseteq Seq(Word \cup Nat \cup {NaN})
    /\ \A k \in DOMAIN cache : cache[k] \in Entry
    /\ stage \in [Worker -> {"idle", "lookup", "tab", "rendering", "releasing",
                          "storing", "answered"}]
    /\ request \in [Worker -> PDFRequestParams \cup {None}]
    /\ began \in [Worker -> Nat]
    /\ pdf \in [Worker -> PDF \cup {None}]

Init ==
    /\ now = 0
    /\ cache = <<>>
    /\ stage = [w \in Worker |-> "idle"]
    /\ request = [w \in Worker |-> None]
    /\ began = [w \in Worker |-> 0]
    /\ pdf = [w \in Worker |-> None]

\* The context of a render is cancelled with its timer.
Stop(w) == began' = [began EXCEPT ![w] = 0]

Move(w, from, to) == stage[w] = from /\ stage' = [stage EXCEPT ![w] = to]

\* rdb.Set, for which a lifetime of 0 is one without end.
Set(k, content, ttl) ==
    cache' = [x \in DOMAIN cache \cup {k} |->
                IF x = k
                THEN [pdf |-> content, stored |-> now,
                      expires |-> IF ttl = 0 THEN None ELSE now + ttl]
                ELSE cache[x]]

\* Redis drops a key when its lifetime is over.
Expire ==
    LET alive == {k \in DOMAIN cache : cache[k].expires = None \/ now' < cache[k].expires}
    IN  cache' = [k \in alive |-> cache[k]]
-----------------------------------------------------------------------------
(* Mutated forms: definitions below with a bug that a change to pdf.go     *)
(* might bring in.  They are not part of the specification.                *)

\* setCachedPDF passes the configured lifetime on as it is.
MutLifetime == TTL
-----------------------------------------------------------------------------
\* setCachedPDF: "If 0, a safe default is applied".
Lifetime == IF TTL <= 0 THEN Minute ELSE TTL

\* A request that is refused leaves nothing behind.
Reject(w, f) ==
    /\ stage[w] = "idle"
    /\ Status(f) # 200
    /\ UNCHANGED vars

Receive(w, f) ==
    /\ Status(f) = 200
    /\ Move(w, "idle", "lookup")
    /\ request' = [request EXCEPT ![w] = Params(f)]
    /\ UNCHANGED <<now, cache, began, pdf>>

\* getCachedPDF
Hit(w) ==
    /\ Move(w, "lookup", "answered")
    /\ Key(request[w]) \in DOMAIN cache
    /\ pdf' = [pdf EXCEPT ![w] = cache[Key(request[w])].pdf]
    /\ UNCHANGED <<now, cache, request, began>>

\* The key is not there, or Redis cannot be read.
Miss(w) ==
    /\ Move(w, "lookup", "tab")
    /\ UNCHANGED <<now, cache, request, began, pdf>>

\* The timeout of the render begins as its page is fetched.
Navigate(w) ==
    /\ Move(w, "tab", "rendering")
    /\ began' = [began EXCEPT ![w] = now]
    /\ UNCHANGED <<now, cache, request, pdf>>

\* PrintToPDF; there is no NaN in the JSON that carries the margin to Chrome.
PrintToPDF(w) ==
    /\ Move(w, "rendering", "releasing")
    /\ request[w].margin # NaN
    /\ pdf' = [pdf EXCEPT ![w] =
                [of |-> request[w], fetched |-> began[w], printed |-> now]]
    /\ Stop(w)
    /\ UNCHANGED <<now, cache, request>>

\* renderPDF returns: the tab is cancelled and its token given back, or the Chrome
\* of the request is shut down and its profile removed.  None of it has a deadline,
\* and for the token it waits for the mutex of the pool, behind a Restart perhaps.
Release(w) ==
    /\ Move(w, "releasing", "storing")
    /\ UNCHANGED <<now, cache, request, began, pdf>>

\* There is no tab, the render fails or takes too long, or the PDF is too large.
Fail(w) ==
    /\ stage[w] \in {"tab", "rendering", "storing"}
    /\ stage' = [stage EXCEPT ![w] = "answered"]
    /\ pdf' = [pdf EXCEPT ![w] = None]
    /\ Stop(w)
    /\ UNCHANGED <<now, cache, request>>

\* The session is interrupted and renderPDF tries again (Renderer: once).
Again(w) ==
    /\ Move(w, "rendering", "tab")
    /\ Stop(w)
    /\ UNCHANGED <<now, cache, request, pdf>>

\* The Set takes effect, be it within the second that its context allows or, as
\* the command may be on its way already, later.
Store(w) ==
    /\ Move(w, "storing", "answered")
    /\ Set(Key(request[w]), pdf[w], Lifetime)
    /\ UNCHANGED <<now, request, began, pdf>>

\* Redis cannot be written, or there is none; the PDF is sent all the same.
StoreFails(w) ==
    /\ Move(w, "storing", "answered")
    /\ UNCHANGED <<now, cache, request, began, pdf>>

Done(w) ==
    /\ Move(w, "answered", "idle")
    /\ request' = [request EXCEPT ![w] = None]
    /\ pdf' = [pdf EXCEPT ![w] = None]
    /\ UNCHANGED <<now, cache, began>>

Tick ==
    /\ now < MaxTime
    /\ \A w \in Worker : stage[w] = "rendering" => now < began[w] + Timeout
    /\ now' = now + 1
    /\ Expire
    /\ UNCHANGED <<stage, request, began, pdf>>

Next ==
    \/ \E w \in Worker :
        \/ \E f \in Form : Reject(w, f) \/ Receive(w, f)
        \/ Hit(w) \/ Miss(w) \/ Navigate(w) \/ PrintToPDF(w) \/ Release(w) \/ Fail(w)
        \/ Again(w) \/ Store(w) \/ StoreFails(w) \/ Done(w)
    \/ Tick

Spec == Init /\ [][Next]_vars
-----------------------------------------------------------------------------
(* Properties *)

\* What took place between printing a PDF and storing it.
Delay(e) == e.stored - e.pdf.printed

\* What the cache holds was fetched less than one lifetime and one render ago,
\* but for the time its own request took from printing to storing it: no
\* wait for a tab, no retry and no other request, not one that it overwrites nor
\* one that found it before, makes it older, and no configured lifetime is endless.
CacheIsFresh ==
    \A k \in DOMAIN cache :
        now < cache[k].pdf.fetched + Timeout + Delay(cache[k]) + Lifetime

\* Whatever else two requests may share a key with, a request is never sent the
\* same text on other paper or with another margin than asked for, but for
\* a hundredth of an inch.
ServedAsAsked ==
    \A w \in Worker :
        (stage[w] = "answered" /\ pdf[w] # None /\ pdf[w].of.text = request[w].text)
            => SameLayout(pdf[w].of, request[w])

\* How wrong a copy can be: its text is the one asked for, but for the name of
\* a format, an orientation or both at the end of one of them.
ServedTextIsClose ==
    \A w \in Worker :
        (stage[w] = "answered" /\ pdf[w] # None) =>
            \E words \in LayoutWords :
                \/ pdf[w].of.text = request[w].text \o words
                \/ request[w].text = pdf[w].of.text \o words

\* "HandleConversion generates a new PDF or serves a cached copy": a copy of
\* what was asked for.  It is not so: text that ends in the name of a
\* format has the key of the text without it that is printed in this format.
CachedCopyIsOfTheRequest ==
    \A w \in Worker :
        (stage[w] = "answered" /\ pdf[w] # None) => pdf[w].of.text = request[w].text
=============================================================================
