------------------------------ MODULE PdfParams ------------------------------
(***************************************************************************)
(* What the renderer makes of the fields of a request (handlers/pdf.go):   *)
(* the status it answers at once, or the parameters of a PDF; the layout   *)
(* they stand for; and the key of the PDF in the Redis cache.              *)
(*                                                                         *)
(* Text is a sequence of words.  The key is a hash of what is written into *)
(* it one after the other, so that it is modelled as that sequence.  The   *)
(* spelling of a field is what ToUpper or ToLower leaves of it.  Margins   *)
(* are in thousandths of an inch, as sent; a tie is rounded up here, where *)
(* the binary fraction may make it fall either way.                        *)
(***************************************************************************)
EXTENDS Integers, Sequences

CONSTANTS Word,                \* what texts are made of
          PaperSizes,          \* pdf.paper_sizes: [width, height] of a format
          DefaultPaper,        \* pdf.default_paper
          Portrait, Landscape,
          Empty,               \* a field that was not given
          NaN,                 \* the margin NaN, which ParseFloat accepts
          URL,                 \* texts that are HTTP URLs
          MinHTML, MaxHTML     \* ten bytes, and limits.max_html_bytes

Format == DOMAIN PaperSizes
Orientation == {Portrait, Landscape}

\* Formats and orientations are words of their own; Empty and NaN are none.
ASSUME ParamsAssumption ==
    /\ Empty \notin Format \cup Orientation \cup {NaN} \cup Int
    /\ Format \cap Orientation = {}
    /\ NaN \notin Format \cup Orientation \cup Int
    /\ Format \cup Orientation \subseteq Word
    /\ Portrait # Landscape
    /\ URL \subseteq Seq(Word)

\* The fields of a request.  filenameOK says whether the file name passes.
FormFields ==
    [source : {"html", "url"}, text : Seq(Word), format : Word \cup {Empty},
     orientation : Word \cup {Empty}, margin : Int \cup {NaN, Empty}, filenameOK : BOOLEAN]

PDFRequestParams ==
    [source : {"html", "url"}, text : Seq(Word), format : Format \cup {Empty},
     orientation : Orientation \cup {Empty}, margin : Nat \cup {NaN}]
-----------------------------------------------------------------------------
(* Mutated forms: definitions below with a bug that a change to pdf.go     *)
(* might bring in.  They are not part of the specification.                *)

\* The default margin is forgotten.
MutParams(form) ==
    [source |-> form.source, text |-> form.text, format |-> form.format,
     orientation |-> form.orientation, margin |-> form.margin]
-----------------------------------------------------------------------------
(* Validation *)

HTMLStatus(text) ==
    IF Len(text) < MinHTML THEN 400 ELSE IF Len(text) > MaxHTML THEN 413 ELSE 200

URLStatus(text) == IF text \in URL THEN 200 ELSE 400

\* Not (m < 0.1 or m > 2.0), which is what the code asks, is true of NaN.
MarginAccepted(m) == m = NaN \/ m \in 100..2000

FieldsAccepted(form) ==
    /\ form.format \in Format \cup {Empty}
    /\ form.orientation \in Orientation \cup {Empty}
    /\ form.margin = Empty \/ MarginAccepted(form.margin)
    /\ form.filenameOK

PaperKnown(form) == form.format \in Format \/ DefaultPaper \in Format

\* validateAndExtractPDFParams and validateAndExtractURLParams; 200 is no error.
Status(form) ==
    LET content == IF form.source = "html" THEN HTMLStatus(form.text) ELSE URLStatus(form.text)
    IN  IF content # 200 THEN content
        ELSE IF ~FieldsAccepted(form) THEN 400
        ELSE IF ~PaperKnown(form) THEN 500 ELSE 200

Params(form) ==
    [source |-> form.source, text |-> form.text, format |-> form.format,
     orientation |-> form.orientation,
     margin |-> IF form.margin = Empty THEN 400 ELSE form.margin]

Paper(p) ==
    LET size == PaperSizes[IF p.format \in Format THEN p.format ELSE DefaultPaper]
    IN  IF p.orientation = Landscape
        THEN [width |-> size.height, height |-> size.width]
        ELSE size
-----------------------------------------------------------------------------
(* computePDFCacheKey *)

\* strconv.FormatFloat(margin, 'f', 2, 64)
Hundredths(m) == IF m = NaN THEN NaN ELSE (m + 5) \div 10

Given(field) == IF field = Empty THEN <<>> ELSE <<field>>

\* A mutated form of Key, without the orientation.
MutKey(p) == p.text \o (Given(p.format) \o <<Hundredths(p.margin)>>)

\* Another one: the key of a URL is made from the HTML, which is empty.
MutKeyOfURL(p) ==
    (IF p.source = "url" THEN <<>> ELSE p.text)
        \o (Given(p.format) \o Given(p.orientation) \o <<Hundredths(p.margin)>>)

Key(p) == p.text \o (Given(p.format) \o Given(p.orientation) \o <<Hundredths(p.margin)>>)

\* The same paper, and margins that differ by at most a hundredth of an inch.
SameLayout(p, q) ==
    /\ Paper(p) = Paper(q)
    /\ p.margin = q.margin \/ p.margin - q.margin \in -10..10

\* What the names of a format and an orientation look like behind a text.
LayoutWords ==
    {<<>>} \cup {<<x>> : x \in Format \cup Orientation} \cup {<<f, o>> : f \in Format, o \in Orientation}
=============================================================================
