------------------------------ MODULE Chunking ------------------------------
(***************************************************************************)
(* How a text is cut into chunks (app/services/ingestion.py):              *)
(* _split_into_units and _hard_split, then the loop of chunk_text that     *)
(* packs units into chunks.  One action is one turn of a loop.             *)
(*                                                                         *)
(* A text is a sequence of characters of four kinds: the capital or digit  *)
(* "x", the sentence end ".", the blank " " and the line break "\n".  They *)
(* are all the two regular expressions and split() tell apart, except that *)
(* a small letter is never glued to a sentence.                            *)
(***************************************************************************)
EXTENDS Integers, Sequences, SequencesExt

CONSTANTS
    Texts,      \* the texts to cut
    Settings    \* pairs <<chunk_size, chunk_overlap>>

Char == {"x", ".", " ", "\n"}

ASSUME ChunkingAssumption ==
    /\ Texts \subseteq Seq(Char)
    /\ Settings \subseteq (Nat \ {0}) \X Nat

VARIABLES
    text, chunk_size, overlap,   \* the arguments
    phase,
    sentences,  \* what _split_into_units has still to take
    start,      \* _hard_split: where the next piece starts
    units,
    merged,     \* how many units the loop of chunk_text has taken
    current,    \* the chunk being filled
    chunks,     \* the texts of the chunks; a chunk's index is its place, less one
    place       \* the chunk each merged unit was put in; not in the code

vars == <<text, chunk_size, overlap, phase, sentences, start, units, merged, current,
          chunks, place>>

-----------------------------------------------------------------------------
(***************************************************************************)
(* Strings.                                                                *)
(***************************************************************************)

(* str.strip                                                               *)
Strip(s) ==
    LET inked == {i \in DOMAIN s : s[i] # " "}
    IN  IF inked = {} THEN <<>> ELSE SubSeq(s, Min(inked), Max(inked))

(* s without the places of cut, in pieces.                                 *)
SplitAt(s, cut) ==
    LET pieces[i \in 0 .. Len(s)] ==
            IF i = 0 THEN << <<>> >>
            ELSE LET done == pieces[i - 1]
                 IN  IF i \in cut THEN Append(done, <<>>)
                     ELSE Front(done) \o <<Append(Last(done), s[i])>>
    IN  pieces[Len(s)]

(* text.splitlines()                                                       *)
Lines(s) == SplitAt(s, {i \in DOMAIN s : s[i] = "\n"})

(* _GLUED_SENTENCE_RE.sub(" ", line)                                       *)
Deglue(line) ==
    LET glued == {i \in 2 .. Len(line) : line[i] = "x" /\ line[i - 1] = "."}
    IN  FlattenSeq([i \in DOMAIN line |-> IF i \in glued THEN <<" ", line[i]>>
                                          ELSE <<line[i]>>])

(* " ".join(s.split())                                                     *)
Normalize(s) ==
    LET spare == {i \in 2 .. Len(s) : s[i] = " " /\ s[i - 1] = " "}
    IN  Strip(FlattenSeq([i \in DOMAIN s |-> IF i \in spare THEN <<>> ELSE <<s[i]>>]))

(* _SENTENCE_SPLIT_RE.split(s)                                             *)
Sentences(s) == SplitAt(s, {i \in 2 .. Len(s) : s[i] = " " /\ s[i - 1] = "."})

(* if not sentence: continue                                               *)
NotEmpty(ss) ==
    FlattenSeq([k \in DOMAIN ss |-> IF ss[k] = <<>> THEN <<>> ELSE <<ss[k]>>])

(* The sentences the loops of _split_into_units go through.                *)
AllSentences(s) ==
    LET lines == Lines(s)
    IN  FlattenSeq([k \in DOMAIN lines |-> NotEmpty(Sentences(Normalize(Deglue(lines[k]))))])

-----------------------------------------------------------------------------

Phases == {"check", "split", "merge", "done", "refused"}

TypeOK ==
    /\ text \in Seq(Char)
    /\ <<chunk_size, overlap>> \in Settings
    /\ phase \in Phases
    /\ sentences \in Seq(Seq(Char))
    /\ start \in Nat
    /\ units \in Seq(Seq(Char))
    /\ merged \in 0 .. Len(units)
    /\ current \in Seq(Char)
    /\ chunks \in Seq(Seq(Char))
    /\ place \in Seq(Nat)

Init ==
    /\ text \in Texts
    /\ \E p \in Settings : chunk_size = p[1] /\ overlap = p[2]
    /\ phase = "check"
    /\ sentences = AllSentences(text)
    /\ start = 0 /\ units = <<>>
    /\ merged = 0 /\ current = <<>> /\ chunks = <<>> /\ place = <<>>

(* chunk_text raises ValueError for an overlap that is too large.          *)
CheckOverlap ==
    /\ phase = "check"
    /\ phase' = IF overlap >= chunk_size THEN "refused" ELSE "split"
    /\ UNCHANGED <<text, chunk_size, overlap, sentences, start, units, merged, current, chunks, place>>

(* _split_into_units: a sentence that fits is a unit.                      *)
TakeSentence ==
    /\ phase = "split" /\ sentences # <<>>
    /\ Len(Head(sentences)) <= chunk_size
    /\ units' = Append(units, Head(sentences))
    /\ sentences' = Tail(sentences)
    /\ UNCHANGED <<text, chunk_size, overlap, phase, start, merged, current, chunks, place>>

(* Mutated forms of HardSplit: the pieces leave a gap; the loop does not   *)
(* stop at the end of the sentence; the overlap is taken off the start.    *)
HardSplitGap ==
    /\ phase = "split" /\ sentences # <<>>
    /\ Len(Head(sentences)) > chunk_size
    /\ LET end == Min({start + chunk_size, Len(Head(sentences))})
       IN  /\ units' = Append(units, SubSeq(Head(sentences), start + 1, end))
           /\ IF end = Len(Head(sentences))
              THEN start' = 0 /\ sentences' = Tail(sentences)
              ELSE start' = end - overlap + 1 /\ UNCHANGED sentences
    /\ UNCHANGED <<text, chunk_size, overlap, phase, merged, current, chunks, place>>

HardSplitForever ==
    /\ phase = "split" /\ sentences # <<>>
    /\ Len(Head(sentences)) > chunk_size
    /\ IF start >= Len(Head(sentences))
       THEN start' = 0 /\ sentences' = Tail(sentences)
       ELSE /\ start' = Min({start + chunk_size, Len(Head(sentences))}) - overlap
            /\ UNCHANGED sentences
    /\ UNCHANGED <<text, chunk_size, overlap, phase, units, merged, current, chunks, place>>

HardSplitBack ==
    /\ phase = "split" /\ sentences # <<>>
    /\ Len(Head(sentences)) > chunk_size
    /\ LET end == Min({start + chunk_size, Len(Head(sentences))})
       IN  /\ units' = Append(units, SubSeq(Head(sentences), start + 1, end))
           /\ IF end = Len(Head(sentences))
              THEN start' = 0 /\ sentences' = Tail(sentences)
              ELSE start' = start - overlap /\ UNCHANGED sentences
    /\ UNCHANGED <<text, chunk_size, overlap, phase, merged, current, chunks, place>>

(* _hard_split: one piece of a sentence that does not fit.                 *)
HardSplit ==
    /\ phase = "split" /\ sentences # <<>>
    /\ Len(Head(sentences)) > chunk_size
    /\ LET end == Min({start + chunk_size, Len(Head(sentences))})
       IN  /\ units' = Append(units, SubSeq(Head(sentences), start + 1, end))
           /\ IF end = Len(Head(sentences))
              THEN start' = 0 /\ sentences' = Tail(sentences)
              ELSE start' = end - overlap /\ UNCHANGED sentences
    /\ UNCHANGED <<text, chunk_size, overlap, phase, merged, current, chunks, place>>

SplitDone ==
    /\ phase = "split" /\ sentences = <<>>
    /\ phase' = "merge"
    /\ UNCHANGED <<text, chunk_size, overlap, sentences, start, units, merged, current, chunks, place>>

Unit == units[merged + 1]

(* current and the next unit in one chunk.                                 *)
Candidate == IF current = <<>> THEN Unit ELSE Strip(current \o <<" ">> \o Unit)

(* The unit that is too much for current, behind the tail of current.      *)
Carried ==
    LET tail == SubSeq(current, Max({1, Len(current) - overlap + 1}), Len(current))
    IN  IF tail = <<>> THEN Unit ELSE Strip(tail \o <<" ">> \o Unit)

(* Mutated form of NextCurrent: it may be longer than a chunk.             *)
NextCurrentUnchecked == Carried

NextCurrent == IF Len(Carried) > chunk_size THEN Unit ELSE Carried

(* The loop of chunk_text: the unit still fits, or it begins a new chunk.  *)
MergeUnit ==
    /\ phase = "merge" /\ merged < Len(units)
    /\ merged' = merged + 1
    /\ IF Len(Candidate) <= chunk_size
       THEN current' = Candidate /\ UNCHANGED chunks
       ELSE chunks' = Append(chunks, current) /\ current' = NextCurrent
    /\ place' = Append(place, Len(chunks') + 1)
    /\ UNCHANGED <<text, chunk_size, overlap, phase, sentences, start, units>>

(* Mutated forms of Finish: the last chunk is added always, or never.      *)
FinishAlways ==
    /\ phase = "merge" /\ merged = Len(units)
    /\ chunks' = Append(chunks, current)
    /\ phase' = "done"
    /\ UNCHANGED <<text, chunk_size, overlap, sentences, start, units, merged, current, place>>

FinishNever ==
    /\ phase = "merge" /\ merged = Len(units)
    /\ phase' = "done"
    /\ UNCHANGED <<text, chunk_size, overlap, sentences, start, units, merged, current, chunks, place>>

Finish ==
    /\ phase = "merge" /\ merged = Len(units)
    /\ chunks' = IF current # <<>> THEN Append(chunks, current) ELSE chunks
    /\ phase' = "done"
    /\ UNCHANGED <<text, chunk_size, overlap, sentences, start, units, merged, current, place>>

Next == CheckOverlap \/ TakeSentence \/ HardSplit \/ SplitDone \/ MergeUnit \/ Finish

Spec     == Init /\ [][Next]_vars
FairSpec == Spec /\ WF_vars(Next)

-----------------------------------------------------------------------------
(***************************************************************************)
(* Properties.                                                             *)
(***************************************************************************)

(* No chunk is longer than chunk_size, whatever the sentences and however  *)
(* much overlap is carried: the embedding model truncates what is longer   *)
(* (ingestion.py chunk_text).                                              *)
ChunksFit == \A k \in DOMAIN chunks : Len(chunks[k]) <= chunk_size

(* No chunk is blank, also when a piece of a long sentence begins or ends  *)
(* with a blank that is stripped later (ingestion.py chunk_text).          *)
NoBlankChunk == \A k \in DOMAIN chunks : Strip(chunks[k]) # <<>>

Within(s, t) == \E i \in 0 .. Len(t) - Len(s) : SubSeq(t, i + 1, i + Len(s)) = s

(* Every unit is found whole in a chunk, and the chunks follow the order   *)
(* of the units: a sentence that fits a chunk is never cut, and carrying   *)
(* the overlap or dropping it loses nothing (ingestion.py chunk_text).     *)
UnitsKept ==
    phase = "done" =>
        /\ \A i \in DOMAIN units :
              place[i] \in DOMAIN chunks /\ Within(Strip(units[i]), chunks[place[i]])
        /\ \A i, j \in DOMAIN units : i < j => place[i] <= place[j]

(* The reference of _hard_split: windows of chunk_size, each overlap       *)
(* characters before the end of the last, up to the end of the sentence.   *)
Windows(s) ==
    LET step  == chunk_size - overlap
        count == 1 + ((Len(s) - chunk_size) + step - 1) \div step
    IN  [k \in 1 .. count |->
            SubSeq(s, (k - 1) * step + 1, Min({(k - 1) * step + chunk_size, Len(s)}))]

(* The units are the sentences of the text, the long ones in windows that  *)
(* leave no gap (ingestion.py _split_into_units, _hard_split).             *)
UnitsMeetReference ==
    phase = "done" =>
        LET whole == AllSentences(text)
        IN  units = FlattenSeq([k \in DOMAIN whole |->
                        IF Len(whole[k]) <= chunk_size THEN <<whole[k]>>
                        ELSE Windows(whole[k])])

(* Cutting ends for every text and every setting it accepts: each turn of  *)
(* _hard_split makes progress (ingestion.py, under the fairness of a loop  *)
(* that runs).                                                             *)
ChunkingEnds == <>(phase \in {"done", "refused"})
=============================================================================
