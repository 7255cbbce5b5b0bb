---------------------------- MODULE DocumentText ----------------------------
(***************************************************************************)
(* What one indexing attempt makes of a stored file: the text of its pages *)
(* (src/server/integrations/document-extraction), the chunks the text is   *)
(* cut into (document-chunker.ts) and the vectors they are stored with.    *)
(*                                                                         *)
(* Whether the attempt still owns its document is DocumentIndexing's; here *)
(* nobody interferes.  A text is a sequence of UTF-16 units, of which six  *)
(* kinds differ for the code: a letter, a mark that ends a sentence (with  *)
(* the quotes and brackets that close it), a blank, a line feed, and the   *)
(* first and the second half of a character that takes a pair of units.    *)
(* Offsets count the units before a place, as in the code.                 *)
(***************************************************************************)
EXTENDS Integers, Sequences, FiniteSetsExt
LOCAL INSTANCE SequencesExt

CONSTANTS
  MaxPrimary,   \* units a chunk adds at most, 2700
  Overlap,      \* units it repeats at most, 300
  MaxChunks,    \* chunks of a document, 1000
  MaxPages,     \* pages of a PDF, 500
  MaxChars,     \* units of a document, two million
  MaxRaw        \* bound: units of a file or page before it is normalised

ASSUME TextAssumption ==
  /\ MaxPrimary \in Nat /\ MaxPrimary >= 2 /\ Overlap \in Nat \ {0}
  /\ MaxChunks \in Nat \ {0} /\ MaxPages \in Nat \ {0} /\ MaxChars \in Nat /\ MaxRaw \in Nat

VARIABLES
  attempt,   \* the stage of processClaim, and the code it fails with
  pdf,       \* the loaded PDF: its handle and number of pages
  units,     \* the text units extracted: a page number, 0 for a source text, and a text
  chunks,    \* the drafts: unit, first and last offset
  cursor     \* the chunker's place: unit and primaryStart

textVars == <<attempt, pdf, units, chunks, cursor>>

Kinds == {"letter", "stop", "blank", "newline", "high", "low"}
White(c) == c \in {"blank", "newline"}

(* Texts before they are normalised; both halves of a pair, or neither.     *)
Paired(raw) ==
  /\ \A i \in DOMAIN raw : raw[i] = "high" => i < Len(raw) /\ raw[i + 1] = "low"
  /\ \A i \in DOMAIN raw : raw[i] = "low" => i > 1 /\ raw[i - 1] = "high"

RawTexts == {raw \in UNION {[1 .. n -> Kinds] : n \in 0 .. MaxRaw} : Paired(raw)}

Trimmed(raw) ==
  LET inked == {i \in DOMAIN raw : ~White(raw[i])}
  IN  IF inked = {} THEN << >> ELSE SubSeq(raw, Min(inked), Max(inked))

(* A source text keeps its inner white space.                               *)
SourceTexts == {Trimmed(raw) : raw \in RawTexts}

(* In a page white space with two line feeds or more ends a paragraph and   *)
(* becomes two of them, all other becomes one blank.                        *)
RunOf(raw, i) == {j \in DOMAIN raw : \A k \in Min({i, j}) .. Max({i, j}) : White(raw[k])}

EndsParagraph(raw, i) ==
  \E j, k \in RunOf(raw, i) : j # k /\ raw[j] = "newline" /\ raw[k] = "newline"

Stays(raw, i) ==
  \/ ~White(raw[i])
  \/ i = Min(RunOf(raw, i))
  \/ EndsParagraph(raw, i) /\ i = Min(RunOf(raw, i)) + 1

Mark(raw, i) ==
  IF ~White(raw[i]) THEN raw[i] ELSE IF EndsParagraph(raw, i) THEN "newline" ELSE "blank"

Collapsed(raw) ==
  LET kept == {i \in DOMAIN raw : Stays(raw, i)}
      At(n) == CHOOSE i \in kept : Cardinality({j \in kept : j < i}) = n - 1
  IN  [n \in 1 .. Cardinality(kept) |-> Mark(raw, At(n))]

PageTexts == {Trimmed(Collapsed(raw)) : raw \in RawTexts}

CharacterCount == FoldLeft(LAMBDA sum, unit : sum + Len(unit.text), 0, units)
-----------------------------------------------------------------------------
(* Where the text may be cut.                                               *)

Splits(text, offset) ==
  0 < offset /\ offset < Len(text) /\ text[offset] = "high" /\ text[offset + 1] = "low"

(* Mutant of SafeEnd: a chunk ends wherever its size says.                  *)
SafeEndAnywhere(text, proposed, minimum) == proposed

SafeEnd(text, proposed, minimum) ==
  IF proposed > minimum /\ Splits(text, proposed) THEN proposed - 1 ELSE proposed

SafeStart(text, proposed) == IF Splits(text, proposed) THEN proposed + 1 ELSE proposed

(* The ends of the matches of the three patterns between two offsets; only  *)
(* the last one counts.                                                     *)
ParagraphEnds(text, start, end) ==
  {e \in start + 1 .. end : text[e] = "newline" /\
     \E j \in start + 1 .. e - 1 : text[j] = "newline" /\ \A k \in j .. e : White(text[k])}

SentenceEnds(text, start, end) ==
  {e \in start + 1 .. end : White(text[e]) /\
     \E j \in start + 1 .. e - 1 : text[j] = "stop" /\ \A k \in j + 1 .. e : White(text[k])}

WhiteEnds(text, start, end) == {e \in start + 1 .. end : White(text[e])}

PrimaryEnd(text, start) ==
  LET end == SafeEnd(text, start + MaxPrimary, start) IN
    IF Len(text) - start <= MaxPrimary THEN Len(text)
    ELSE IF ParagraphEnds(text, start, end) # {} THEN Max(ParagraphEnds(text, start, end))
    ELSE IF SentenceEnds(text, start, end) # {} THEN Max(SentenceEnds(text, start, end))
    ELSE IF WhiteEnds(text, start, end) # {} THEN Max(WhiteEnds(text, start, end))
    ELSE end

ChunkStart(text, start) == SafeStart(text, IF start > Overlap THEN start - Overlap ELSE 0)
-----------------------------------------------------------------------------
NoPdf == [handle |-> "none", pages |-> 0]
Beginning == [unit |-> 1, start |-> 0]
Stage(stage) == attempt' = [attempt EXCEPT !.stage = stage]
FailWith(code) == attempt' = [stage |-> "failed", failure |-> code]
Closing(code) == attempt' = [stage |-> "closing", failure |-> code]

SourceUnavailable ==
  /\ attempt.stage = "reading" /\ FailWith("document_source_unavailable")
  /\ UNCHANGED <<pdf, units, chunks, cursor>>

(* Text and markdown are one unit without a page number; a text that is     *)
(* empty after all is left to the chunker.                                  *)
ExtractSource ==
  /\ attempt.stage = "reading"
  /\ \/ FailWith("document_invalid_utf8") /\ UNCHANGED units
     \/ \E text \in SourceTexts :
          IF Len(text) > MaxChars
          THEN FailWith("document_text_limit_exceeded") /\ UNCHANGED units
          ELSE Stage("chunking") /\ units' = <<[page |-> 0, text |-> text]>>
  /\ UNCHANGED <<pdf, chunks, cursor>>

(* A PDF is loaded, or the parser says why not; the handle must be given    *)
(* back once there is one.                                                  *)
PdfErrors == {"document_pdf_password_protected", "document_pdf_invalid", "document_pdf_extraction_failed"}

OpenPdf ==
  /\ attempt.stage = "reading"
  /\ \/ \E code \in PdfErrors : FailWith(code) /\ UNCHANGED pdf
     \/ \E code \in PdfErrors :
          Closing(code) /\ pdf' = [NoPdf EXCEPT !.handle = "open"]
     \/ \E pages \in 0 .. MaxPages + 1 :
          /\ pdf' = [handle |-> "open", pages |-> pages]
          /\ IF pages > MaxPages THEN Closing("document_pdf_page_limit_exceeded") ELSE Stage("paging")
  /\ UNCHANGED <<units, chunks, cursor>>

ReadPage ==
  /\ attempt.stage = "paging" /\ Len(units) < pdf.pages
  /\ \/ \E code \in PdfErrors : Closing(code) /\ UNCHANGED units
     \/ \E text \in PageTexts :
          IF CharacterCount + Len(text) > MaxChars
          THEN Closing("document_text_limit_exceeded") /\ UNCHANGED units
          ELSE UNCHANGED attempt /\ units' = Append(units, [page |-> Len(units) + 1, text |-> text])
  /\ UNCHANGED <<pdf, chunks, cursor>>

PagesRead ==
  /\ attempt.stage = "paging" /\ Len(units) = pdf.pages
  /\ IF \A n \in DOMAIN units : units[n].text = << >>
     THEN Closing("document_no_extractable_text") ELSE Closing("none")
  /\ UNCHANGED <<pdf, units, chunks, cursor>>

(* The handle is destroyed in any case; that it cannot be fails an attempt  *)
(* that has not failed before.                                              *)
ClosePdf ==
  /\ attempt.stage = "closing"
  /\ \E destroyed \in BOOLEAN :
       LET failure == IF attempt.failure = "none" /\ ~destroyed
                      THEN "document_pdf_extraction_failed" ELSE attempt.failure
       IN  attempt' = [stage |-> IF failure = "none" THEN "chunking" ELSE "failed", failure |-> failure]
  /\ pdf' = [pdf EXCEPT !.handle = "closed"]
  /\ UNCHANGED <<units, chunks, cursor>>

(* One turn of the chunker's loop: the chunk ends at the best place in      *)
(* reach, and begins a little before the last one ended.                    *)
NextChunk ==
  /\ attempt.stage = "chunking" /\ cursor.unit <= Len(units)
  /\ cursor.start < Len(units[cursor.unit].text)
  /\ LET text == units[cursor.unit].text
         end == PrimaryEnd(text, cursor.start)
     IN  /\ chunks' = Append(chunks, [unit |-> cursor.unit, from |-> ChunkStart(text, cursor.start), to |-> end])
         /\ cursor' = [cursor EXCEPT !.start = end]
  /\ IF Len(chunks) + 1 > MaxChunks THEN FailWith("document_chunk_limit_exceeded") ELSE UNCHANGED attempt
  /\ UNCHANGED <<pdf, units>>

NextUnit ==
  /\ attempt.stage = "chunking" /\ cursor.unit <= Len(units)
  /\ cursor.start >= Len(units[cursor.unit].text)
  /\ cursor' = [unit |-> cursor.unit + 1, start |-> 0]
  /\ UNCHANGED <<attempt, pdf, units, chunks>>

ChunksMade ==
  /\ attempt.stage = "chunking" /\ cursor.unit > Len(units)
  /\ IF chunks = << >> THEN FailWith("document_no_indexable_text") ELSE Stage("embedding")
  /\ UNCHANGED <<pdf, units, chunks, cursor>>

(* One vector per chunk, in the order of the chunks, or no index at all.    *)
EmbeddingErrors ==
  {"document_embedding_unconfigured", "document_embedding_unavailable",
   "document_embedding_rejected", "document_embedding_invalid_response"}

EmbedChunks ==
  /\ attempt.stage = "embedding"
  /\ Stage("indexed") \/ \E code \in EmbeddingErrors : FailWith(code)
  /\ UNCHANGED <<pdf, units, chunks, cursor>>

TextInit ==
  /\ attempt = [stage |-> "reading", failure |-> "none"]
  /\ pdf = NoPdf /\ units = << >> /\ chunks = << >> /\ cursor = Beginning

TextNext ==
  \/ SourceUnavailable
  \/ ExtractSource
  \/ OpenPdf
  \/ ReadPage
  \/ PagesRead
  \/ ClosePdf
  \/ NextChunk
  \/ NextUnit
  \/ ChunksMade
  \/ EmbedChunks

TextSpec == TextInit /\ [][TextNext]_textVars
-----------------------------------------------------------------------------
Inside(c, n, offset) == c.unit = n /\ c.from < offset /\ offset <= c.to

(* Chunks are never empty or too large, and no end of one falls between the *)
(* halves of a pair, however the sizes, the overlap, the preferred places   *)
(* and the pairs meet; once all are made no unit of the text is in none.    *)
ChunksCoverText ==
  /\ \A n \in DOMAIN chunks :
       LET c == chunks[n] IN
         /\ c.from < c.to /\ c.to - c.from <= MaxPrimary + Overlap
         /\ ~Splits(units[c.unit].text, c.from) /\ ~Splits(units[c.unit].text, c.to)
  /\ attempt.stage \in {"embedding", "indexed"} =>
       \A n \in DOMAIN units : \A offset \in DOMAIN units[n].text :
         \E m \in DOMAIN chunks : Inside(chunks[m], n, offset)
=============================================================================
