-------------------------------- MODULE Scrubber --------------------------------
(***************************************************************************)
(* What SecretScrubber.scrub does with the matches its detectors return    *)
(* (pipeline/secret_scrubber.py).  A text is a sequence; the original one  *)
(* is <<1, ..., n>>, so that a cell of the output tells where it comes     *)
(* from, and a cell of a placeholder is the negated number of the secret's *)
(* type.  A match is a half-open interval, counted from 0 as in the code.  *)
(* The detectors are any function from texts to sequences of matches.      *)
(***************************************************************************)
EXTENDS Integers, Sequences, SequencesExt

CONSTANT PlaceholderLen     \* len("[REDACTED_...]")

Original(n) == [i \in 1..n |-> i]

\* Faulty Sorted: the matches are taken in the order of the detectors.
Found(matches) == matches

\* matches.sort(key=start_index), which is stable.
Sorted(matches) ==
  LET before(i, j) == \/ matches[i].start < matches[j].start
                      \/ matches[i].start = matches[j].start /\ i < j
      order == SetToSortSeq(DOMAIN matches, before)
  IN  [i \in DOMAIN order |-> matches[order[i]]]

StartsIn(m, k) == k.start <= m.start /\ m.start < k.end

\* _deduplicate_matches
Deduplicate(matches) ==
  LET keep(kept, m) ==
        IF \E k \in Range(kept) : StartsIn(m, k) THEN kept ELSE Append(kept, m)
  IN  FoldLeft(keep, <<>>, Sorted(matches))

\* ljust: the placeholder is padded to the length of what it replaces.
Placeholder(m) ==
  [i \in 1..Max({PlaceholderLen, m.end - m.start}) |-> -m.type]

Replace(text, m) ==
  SubSeq(text, 1, m.start) \o Placeholder(m) \o SubSeq(text, m.end + 1, Len(text))

\* Faulty Redact: from the first match on, by the indices of the original.
RedactForwards(text, kept) == FoldLeft(Replace, text, kept)

\* _redact_content, backwards so that the indices stay right.
Redact(text, kept) == FoldRight(LAMBDA m, t : Replace(t, m), kept, text)

-----------------------------------------------------------------------------
\* What the two helpers are to compute, with no sorting and no order.

\* Kept matches do not overlap, and a match is dropped only if it starts in one.
IsDeduplication(kept, matches) ==
  /\ Range(kept) \subseteq Range(matches)
  /\ \A i, j \in DOMAIN kept : i < j => kept[i].end <= kept[j].start
  /\ \A m \in Range(matches) : \E k \in Range(kept) : StartsIn(m, k)

\* All kept matches replaced at once.
Redacted(n, kept) ==
  LET at(p) == {m \in Range(kept) : m.start < p /\ p <= m.end}
      cell(p) == IF at(p) = {} THEN <<p>>
                 ELSE LET m == CHOOSE m \in at(p) : TRUE
                      IN  IF m.start + 1 = p THEN Placeholder(m) ELSE <<>>
  IN  FlattenSeq([p \in 1..n |-> cell(p)])
=================================================================================
