----------------------------- MODULE Attachment -----------------------------
(***************************************************************************)
(* How a label is put into a file and found again, twice: by the attachers *)
(* of internal/attach, which the command line uses, and by their mirror in *)
(* the web client, verify-pwa/src/lib/attach.js and embed.js.              *)
(*                                                                         *)
(* A file is a record:                                                     *)
(*   kind      stands for the formats that formats.yaml treats alike:      *)
(*             markdown; pdf, jpeg, png, hwp and msg as "pdf"; the ZIP     *)
(*             containers as "ooxml"; "rtf" for those without an           *)
(*             implementation; "plaintext" for those kept apart by policy  *)
(*   lines     its text, line by line; CRLF reads as LF throughout         *)
(*   rev       which of the encodings of this text, where the bytes can    *)
(*             change and the text stay (a ZIP packed anew)                *)
(*   comment   the archive comment of a ZIP                                *)
(*   tail      the trailer behind the last byte                            *)
(* A label is the number of the ledger row it was issued with.             *)
(***************************************************************************)
EXTENDS Integers, Sequences, SequencesExt, FiniteSetsExt

NoLabel == 0
Void == -1       \* the zero bytes an unsigned registration is answered with
Foreign == -2    \* an archive comment that is not a label

NoText == << >>

Method(kind) ==
    CASE kind \in {"markdown", "pdf", "rtf"} -> "embedded"
      [] kind = "ooxml"                      -> "container"
      [] kind = "plaintext"                  -> "sidecar"

\* Neither client has an attacher for the formats planned.
Implemented(kind) == kind # "rtf"

-----------------------------------------------------------------------------
(* Lines: a byte order mark may precede one, and then it is another line. *)

Line(is, val) == [bom |-> FALSE, is |-> is, val |-> val]
Fence == Line("fence", 0)
Blank == Line("blank", 0)
Word(w) == Line("word", w)
LabelLine(l) == Line("label", l)

Unmarked(lines) == IF lines = << >> THEN lines ELSE [lines EXCEPT ![1].bom = FALSE]

\* Mutant: newlines at the end are kept.
NormalizeTextKeepingEnd(lines) == Unmarked(lines)

NormalizeText(lines) ==
    SubSeq(Unmarked(lines), 1, Max({0} \union {i \in DOMAIN lines : lines[i].is # "blank"}))

\* Where the section can end that an opening fence begins: not at once.
Closings(lines) == {j \in 3..Len(lines) : lines[j] = Fence}

HasFrontMatter(lines) ==
    /\ lines # << >>
    /\ lines[1] = Fence
    /\ Closings(lines) # {}

FrontMatter(lines) == SubSeq(lines, 2, Min(Closings(lines)) - 1)
After(lines) == SubSeq(lines, Min(Closings(lines)) + 1, Len(lines))

IsLabel(line) == line.is = "label"
IsOther(line) == line.is # "label"

\* Mutant: the section stays when it has become empty.
BodyKeepingSection(lines) ==
    IF ~HasFrontMatter(lines) THEN lines
    ELSE <<Fence>> \o SelectSeq(FrontMatter(lines), IsOther) \o <<Fence>> \o After(lines)

\* stripLM: the body, without the lm_ lines and without a section left empty.
Body(lines) ==
    LET kept == SelectSeq(FrontMatter(lines), IsOther)
    IN  IF ~HasFrontMatter(lines) THEN lines
        ELSE IF kept \in {<< >>, <<Blank>>} THEN After(lines)
        ELSE <<Fence>> \o kept \o <<Fence>> \o After(lines)

\* stripLM: the value of lm_label; one of zero bytes counts as none.
LabelAtHead(lines) ==
    LET labels == SelectSeq(FrontMatter(lines), IsLabel)
    IN  IF ~HasFrontMatter(lines) \/ labels = << >> THEN NoLabel
        ELSE Max({NoLabel, Last(labels).val})

-----------------------------------------------------------------------------
(* What the command line finds: HashTarget, Extract, TextHash *)

\* SplitTrailer: a trailer that announces zero bytes is taken for content.
TailLabel(f) == Max({NoLabel, f.tail})

\* SplitZipComment: bytes behind the comment hide it; zero bytes are a label.
CommentLabel(f) == IF f.tail = NoLabel /\ f.comment # Foreign THEN f.comment ELSE NoLabel

\* The bytes that are hashed, whatever stands for the label taken out.
HashTarget(f) ==
    LET untailed == [f EXCEPT !.tail = IF TailLabel(f) # NoLabel THEN NoLabel ELSE @]
    IN  CASE f.kind = "ooxml"    ->
                [f EXCEPT !.comment = IF CommentLabel(f) # NoLabel THEN NoLabel ELSE @]
          [] f.kind = "markdown" ->
                [untailed EXCEPT !.lines = NormalizeText(Body(f.lines))]
          [] OTHER               -> untailed

Extract(f) ==
    CASE f.kind = "ooxml" -> CommentLabel(f)
      [] f.kind = "markdown" /\ TailLabel(f) = NoLabel -> LabelAtHead(f.lines)
      [] OTHER -> TailLabel(f)

\* Fences and lm_ lines are no text to TextHash, a byte order mark is.
IsText(line) == line.is = "word" \/ line.bom

TextHash(f) ==
    IF f.kind = "rtf" THEN NoText ELSE SelectSeq(f.lines, IsText)

GoRead(f) == [hash |-> HashTarget(f), text |-> TextHash(f), label |-> Extract(f)]

-----------------------------------------------------------------------------
(* What the web client finds: analyzeFile.  Its helpers are written anew in   *)
(* JavaScript, so they are defined anew here.                                 *)

\* extractEmbedded: the last sixteen bytes announce a label of some length.
JsTailLabel(f) == IF f.tail = Void THEN NoLabel ELSE f.tail

\* splitZipComment: the comment ends the file and begins with the prefix.
JsCommentLabel(f) == IF f.tail # NoLabel \/ f.comment = Foreign THEN NoLabel ELSE f.comment

\* normalizeText: /\n+$/ becomes one newline; decoding dropped the mark before.
JsNormalizeText(lines) ==
    SubSeq(Unmarked(lines), 1, SelectLastInSeq(Unmarked(lines), LAMBDA line : line.is # "blank"))

\* stripLM of attach.js: of several labels the last one counts.
JsStripLM(lines) ==
    LET kept == SelectSeq(FrontMatter(lines), IsOther)
        last == SelectLastInSeq(FrontMatter(lines), IsLabel)
        bare == kept = << >> \/ (Len(kept) = 1 /\ kept[1].is = "blank")
    IN  IF ~HasFrontMatter(lines) THEN [body |-> lines, label |-> NoLabel]
        ELSE [body  |-> (IF bare THEN << >> ELSE <<Fence>> \o kept \o <<Fence>>) \o After(lines),
              label |-> IF last = 0 \/ FrontMatter(lines)[last].val = Void THEN NoLabel
                        ELSE FrontMatter(lines)[last].val]

\* What is left when the label is taken out; a legacy trailer goes alone.
JsOriginal(f) ==
    IF f.kind = "markdown"
    THEN IF JsTailLabel(f) # NoLabel THEN [f EXCEPT !.tail = NoLabel]
         ELSE [f EXCEPT !.lines = JsStripLM(Unmarked(@)).body]
    ELSE IF JsCommentLabel(f) # NoLabel THEN [f EXCEPT !.comment = NoLabel]
         ELSE IF JsTailLabel(f) # NoLabel THEN [f EXCEPT !.tail = NoLabel]
         ELSE f

JsExtract(f) ==
    CASE f.kind = "markdown" /\ JsTailLabel(f) = NoLabel -> JsStripLM(Unmarked(f.lines)).label
      [] f.kind # "markdown" /\ JsCommentLabel(f) # NoLabel -> JsCommentLabel(f)
      [] OTHER -> JsTailLabel(f)

\* Mutant: the text is hashed as it stands.
JsHashTargetAsIs(f) == JsOriginal(f)

\* hashBody: SHA-256 of the original, of its normal form if the format has one.
JsHashTarget(f) ==
    IF f.kind = "markdown" THEN [JsOriginal(f) EXCEPT !.lines = JsNormalizeText(@)]
    ELSE JsOriginal(f)

\* textHashOf: spaces go, and so do marks, which JavaScript holds to be spaces;
\* fences stay.
JsText(lines) ==
    LET full == SelectSeq(lines, LAMBDA line : line.is # "blank")
    IN  [i \in DOMAIN full |-> [full[i] EXCEPT !.bom = FALSE]]

JsTextHash(f) ==
    CASE f.kind = "plaintext" -> JsText(f.lines)
      [] f.kind = "markdown" /\ JsTailLabel(f) = NoLabel -> JsText(JsOriginal(f).lines)
      [] OTHER -> NoText

JsRead(f) == [hash |-> JsHashTarget(f), text |-> JsTextHash(f), label |-> JsExtract(f)]

\* extractTextForIdentify: Markdown and plain text without trailer and lm_ lines;
\* the text inside a ZIP or a PDF; nothing of the formats it does not know.
JsIdentifyText(f) ==
    CASE f.kind \in {"markdown", "plaintext"} -> JsStripLM(Unmarked(f.lines)).body
      [] f.kind \in {"ooxml", "pdf"}          -> SelectSeq(f.lines, IsText)
      [] OTHER                                -> NoText

-----------------------------------------------------------------------------
(* Attach *)

MayAttach(f) ==
    CASE f.kind = "markdown" -> LabelAtHead(f.lines) = NoLabel
      [] f.kind = "pdf"      -> TailLabel(f) = NoLabel
      [] f.kind = "ooxml"    -> f.tail = NoLabel /\ f.comment = NoLabel
      [] OTHER               -> FALSE

\* zipAttach: no end of a central directory, or a comment in the way.
JsZipFits(f) == f.tail = NoLabel /\ f.comment = NoLabel

\* Only containers are tried out before the label is asked for.
JsMayAttach(f) ==
    CASE Method(f.kind) = "container" -> JsZipFits(f)
      [] Method(f.kind) = "embedded"  -> Implemented(f.kind)
      [] OTHER                        -> FALSE

\* An opening fence is taken for the head of a section, closed or not.
AtHead(lines, l) ==
    IF lines # << >> /\ lines[1] = Fence
    THEN <<Fence, LabelLine(l)>> \o Tail(lines)
    ELSE <<Fence, LabelLine(l), Fence>> \o lines

Attach(f, l) ==
    CASE f.kind = "markdown" -> [f EXCEPT !.lines = AtHead(@, l)]
      [] f.kind = "pdf"      -> [f EXCEPT !.tail = l]
      [] f.kind = "ooxml"    -> [f EXCEPT !.comment = l]

\* mdAttach, after decoding
JsAtHead(lines, l) ==
    IF lines # << >> /\ lines[1] = Fence
    THEN <<Fence, LabelLine(l)>> \o Tail(lines)
    ELSE <<Fence, LabelLine(l), Fence>> \o lines

\* embedLabel: behind whatever is there, even another trailer.
JsEmbedLabel(f, l) == [f EXCEPT !.tail = l]

\* buildEmbedded
JsAttach(f, l) ==
    CASE f.kind = "markdown"           -> [f EXCEPT !.lines = JsAtHead(Unmarked(@), l)]
      [] Method(f.kind) = "container"  -> [f EXCEPT !.comment = l]
      [] OTHER                         -> JsEmbedLabel(f, l)
=============================================================================
