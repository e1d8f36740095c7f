----------------------------- MODULE ScriptMeaning -----------------------------
(***************************************************************************)
(* What a script of ExecuteVMEDSL means, by its structure: the text of a   *)
(* loop is written out as often as it is to run, and what is left is done  *)
(* from the first line to the last.  VmeScript jumps instead.              *)
(***************************************************************************)
EXTENDS VmeScript, SequencesExt

Is(s, i, word) == Command(s[i]) = word

(* Loops open after line i.                                                *)
Open(s, i) == Cardinality({j \in 1 .. i : Is(s, j, "BL")})
              - Cardinality({j \in 1 .. i : Is(s, j, "EL")})

Aborts(s, i) == \/ Is(s, i, "EL") /\ Open(s, i) < 0
                \/ Is(s, i, "1") /\ s[i].number = NoNumber

(* Nothing from line Cut on is done.                                       *)
Cut(s) ==
  LET ends == {i \in DOMAIN s : Aborts(s, i) \/ Is(s, i, "0")}
  IN  IF ends = {} THEN Len(s) + 1 ELSE Min(ends)

(* The lines that a script does, loops written out.  A loop without an end *)
(* is none.                                                                *)
Unrolled(s) ==
  LET Ends(i, hi) == {j \in i + 1 .. hi : Open(s, j) < Open(s, i)}
      U[lo \in 1 .. Len(s) + 1, hi \in 0 .. Len(s)] ==
        IF lo > hi THEN <<>>
        ELSE IF Is(s, lo, "BL") /\ Ends(lo, hi) # {}
        THEN LET end == Min(Ends(lo, hi))
             IN  FlattenSeq([k \in 1 .. Max({1, Times(s[lo])}) |-> U[lo + 1, end - 1]])
                   \o U[end + 1, hi]
        ELSE <<lo>> \o U[lo + 1, hi]
  IN  U[1, Cut(s) - 1]

Repetitions(s, n) ==
  IF n > 0 /\ Cut(s) <= Len(s) /\ Aborts(s, Cut(s)) THEN 1 ELSE n

(* The calls of these lines, done one after the other.                     *)
Does(s, state, i) ==
  IF Command(s[i]) \notin Effects THEN state
  ELSE LET where == IF TakesSlot(s[i].word) THEN NumberOr(s[i], state.slot) ELSE state.slot
           reps  == IF s[i].word = "COMP" THEN Unsigned(NumberOr(s[i], state.reps))
                    ELSE state.reps
       IN  [slot  |-> IF s[i].word = "SET_SLOT" THEN where ELSE state.slot,
            reps  |-> reps,
            calls |-> state.calls \o CallsOf(s[i].word, where, reps, i)]

Meaning(s, n, first) ==
  LET lines == FlattenSeq([k \in 1 .. Repetitions(s, n) |-> Unrolled(s)])
      Step(state, i) == Does(s, state, i)
  IN  FoldLeft(Step, [slot |-> first, reps |-> 0, calls |-> <<>>], lines)

(* While it runs a script has made the first of the calls it means, and    *)
(* once it has ended it has made them all, in their order and each with    *)
(* its slot and its repetitions: an inner loop runs anew in every round of *)
(* the outer one, an end of run ends its repetition only, a stray EL ends  *)
(* the whole run, and a COMP without a count has that of the last COMP.    *)
RunsAsWritten ==
  LET meant == Meaning(script, repeatNumber, firstSlot)
  IN  /\ IsPrefix(calls, meant.calls)
      /\ phase = "returned" => calls = meant.calls

================================================================================
