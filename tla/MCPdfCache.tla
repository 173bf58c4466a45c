----------------------------- MODULE MCPdfCache -----------------------------
(***************************************************************************)
(* Instances of PdfCache for TLC.                                          *)
(***************************************************************************)
EXTENDS PdfCache, TLC

CONSTANTS A4, Letter, invoice, page, site, diagonal

Words == {A4, Letter, Portrait, Landscape, diagonal, invoice, page, site}
Sizes == [f \in {A4, Letter} |-> IF f = A4 THEN [width |-> 827, height |-> 1169]
                                           ELSE [width |-> 850, height |-> 1100]]
\* A URL may end in what is also the name of a format.
Web == {<<page>>, <<page, A4>>, <<site>>}

HTML == [source |-> "html", text |-> <<invoice>>, format |-> Empty,
         orientation |-> Empty, margin |-> Empty, filenameOK |-> TRUE]

Page == [HTML EXCEPT !.source = "url", !.text = <<page>>]

OnA4 == [Page EXCEPT !.format = A4]

\* Requests of which some share a key and some are refused.
Forms == {
    OnA4,
    [OnA4 EXCEPT !.text = <<site>>],
    [OnA4 EXCEPT !.orientation = Landscape, !.margin = 396],
    [OnA4 EXCEPT !.orientation = Landscape, !.margin = 404],
    [Page EXCEPT !.text = <<page, A4>>],
    [HTML EXCEPT !.margin = NaN],
    [HTML EXCEPT !.margin = 99],
    [HTML EXCEPT !.text = <<>>],
    [Page EXCEPT !.text = <<invoice>>],
    [HTML EXCEPT !.orientation = diagonal]}

\* Two documents.
Documents == {[HTML EXCEPT !.format = A4], [HTML EXCEPT !.text = <<invoice, A4>>]}

WorkerSymmetry == Permutations(Worker)
=============================================================================
