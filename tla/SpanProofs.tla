------------------------------ MODULE SpanProofs ------------------------------
(* Theorems about the runs of flat inline marks: what code is given when its  *)
(* marks are inferred, that inferring once is enough, and that each call of   *)
(* groupSpans opens the widest mark around items that all carry it. They hold *)
(* for any number of items with any marks.                                    *)
EXTENDS SpanRuns, Numbers

(* The items of a run, as both converters build them. *)
AllMarks == {"strong", "em", "strike"}
IsItem(item) ==
    /\ item = [key \in DOMAIN item |-> item[key]] /\ {"spans", "code", "break", "v"} \subseteq DOMAIN item
    /\ item.spans \subseteq AllMarks /\ ~(item.code /\ item.break)
IsItems(items) ==
    /\ Len(items) \in Nat /\ items = [k \in 1..Len(items) |-> items[k]]
    /\ \A k \in 1..Len(items) : IsItem(items[k])

\* Items that differ at most in their marks.
Alike(a, b) == DOMAIN a = DOMAIN b /\ \A key \in DOMAIN a : key # "spans" => a[key] = b[key]

LEMMA Given ==
    ASSUME NEW item, IsItem(item), NEW marks \in SUBSET AllMarks, NEW new, new = WithMarks(item, marks)
    PROVE  IsItem(new) /\ Alike(item, new) /\ new.spans = item.spans \cup marks
           /\ new.code = item.code /\ new.break = item.break /\ new.v = item.v
<1>1. new = [key \in DOMAIN item |-> IF key = "spans" THEN item.spans \cup marks ELSE item[key]]
  BY DEF WithMarks, IsItem
<1>2. DOMAIN new = DOMAIN item /\ new = [key \in DOMAIN new |-> new[key]]
  BY <1>1
<1>3. new.spans = item.spans \cup marks /\ \A key \in DOMAIN item : key # "spans" => new[key] = item[key]
  BY <1>1 DEF IsItem
<1>4. new.code = item.code /\ new.break = item.break /\ new.v = item.v
  BY <1>3 DEF IsItem
<1>5. QED
  BY <1>2, <1>3, <1>4 DEF IsItem, Alike

\* Marks given twice are the marks of both given once; no marks change nothing.
LEMMA GivenTwice ==
    ASSUME NEW item, IsItem(item), NEW a \in SUBSET AllMarks, NEW b \in SUBSET AllMarks
    PROVE  WithMarks(WithMarks(item, a), b) = WithMarks(item, a \cup b) /\ WithMarks(item, {}) = item
<1>1. WithMarks(item, a) = [key \in DOMAIN item |-> IF key = "spans" THEN item.spans \cup a ELSE item[key]]
      /\ WithMarks(item, a \cup b) = [key \in DOMAIN item |-> IF key = "spans" THEN item.spans \cup (a \cup b) ELSE item[key]]
      /\ WithMarks(item, {}) = [key \in DOMAIN item |-> IF key = "spans" THEN item.spans \cup {} ELSE item[key]]
  BY DEF WithMarks, IsItem
<1> DEFINE once == WithMarks(item, a)
<1>2. DOMAIN once = DOMAIN item /\ once.spans = item.spans \cup a
      /\ \A key \in DOMAIN item : key # "spans" => once[key] = item[key]
  BY <1>1 DEF IsItem
<1>3. WithMarks(once, b) = [key \in DOMAIN once |-> IF key = "spans" THEN once.spans \cup b ELSE once[key]]
  BY <1>1 DEF WithMarks
<1> HIDE DEF once
<1>4. WithMarks(once, b) = [key \in DOMAIN item |-> IF key = "spans" THEN item.spans \cup (a \cup b) ELSE item[key]]
  BY <1>2, <1>3
<1>5. WithMarks(item, {}) = [key \in DOMAIN item |-> item[key]]
  BY <1>1
<1>6. QED
  BY <1>1, <1>4, <1>5 DEF once, IsItem

\* Marks set at some positions.
Sets(items, new, positions, marks) ==
    /\ IsItems(new) /\ Len(new) = Len(items)
    /\ \A k \in 1..Len(items) : /\ Alike(items[k], new[k])
                                /\ k \in positions => new[k] = WithMarks(items[k], marks)
                                /\ k \in positions => new[k].spans = items[k].spans \cup marks
                                /\ k \notin positions => new[k] = items[k]
LEMMA SetOf ==
    ASSUME NEW items, IsItems(items), NEW positions, NEW marks \in SUBSET AllMarks,
           NEW new, new = SetMarks(items, positions, marks)
    PROVE  Sets(items, new, positions, marks)
<1> DEFINE N == Len(items)
           set == [k \in 1..N |-> IF k \in positions THEN WithMarks(items[k], marks) ELSE items[k]]
           S == {set[k] : k \in 1..N}
<1>1. N \in Nat /\ DOMAIN items = 1..N /\ \A k \in 1..N : IsItem(items[k])
  BY DEF IsItems
<1>2. new = set \o <<>>
  BY <1>1 DEF SetMarks
<1>3. set \in Seq(S) /\ Len(set) = N
  <2>1. set \in [1..N -> S]
    OBVIOUS
  <2> HIDE DEF set, S, N
  <2>2. QED
    BY <1>1, <2>1
<1>4. new = set
  <2> HIDE DEF set, S, N
  <2>1. QED
    BY <1>2, <1>3
<1>5. ASSUME NEW k \in 1..N
      PROVE  /\ IsItem(new[k]) /\ Alike(items[k], new[k])
             /\ k \in positions => new[k] = WithMarks(items[k], marks)
             /\ k \in positions => new[k].spans = items[k].spans \cup marks
             /\ k \notin positions => new[k] = items[k]
  <2>1. IsItem(items[k])
    BY <1>1
  <2>2. CASE k \in positions
    <3>1. new[k] = WithMarks(items[k], marks)
      BY <1>4, <2>2
    <3>2. QED
      BY <2>1, <2>2, <3>1, Given
  <2>3. CASE k \notin positions
    <3>1. new[k] = items[k]
      BY <1>4, <2>3
    <3>2. QED
      BY <2>1, <2>3, <3>1 DEF Alike
  <2>4. QED
    BY <2>2, <2>3
<1>6. Len(new) = N /\ new = [k \in 1..N |-> new[k]]
  BY <1>3, <1>4
<1>7. QED
  BY <1>1, <1>5, <1>6 DEF IsItems, Sets

\* A run ends at the first position that is not of it.
LEMMA RunEndOf ==
    ASSUME NEW items, Len(items) \in Nat, NEW start \in 1..(Len(items) + 1), NEW run \in SUBSET (1..Len(items)),
           NEW end, end = RunEnd(items, start, run)
    PROVE  /\ end \in start..(Len(items) + 1) /\ end \notin run
           /\ \A k \in start..(end - 1) : k \in run
<1> DEFINE out == (start..(Len(items) + 1)) \ run
<1>1. out \in SUBSET Nat
  OBVIOUS
<1>2. Len(items) + 1 \in out
  OBVIOUS
<1>3. end = Min(out)
  BY DEF RunEnd
<1> HIDE DEF out
<1>4. end \in out /\ \A k \in out : end <= k
  BY <1>1, <1>2, <1>3, Least
<1>5. end \in start..(Len(items) + 1) /\ end \notin run
  BY <1>4 DEF out
<1>6. ASSUME NEW k \in start..(end - 1)
      PROVE  k \in run
  <2>1. k \in start..(Len(items) + 1) /\ ~(end <= k)
    BY <1>5
  <2>2. k \notin out
    BY <1>4, <2>1
  <2>3. QED
    BY <2>1, <2>2 DEF out
<1>7. QED
  BY <1>5, <1>6

------------------------------------------------------------------------------
(* What is opened. *)

\* A call of groupSpans opens a mark that is not open yet, around the item and all that
\* follow and carry it with the open ones; no other mark of the item reaches further.
\* So the call inside has fewer marks left to open and is handed only items that carry
\* the open ones, and the loop moves on.
THEOREM WidestIsOpened ==
    ASSUME NEW items, IsItems(items), NEW idx \in 1..Len(items), NEW open,
           open \subseteq items[idx].spans, open # items[idx].spans,
           NEW widest, widest = WidestSpan(items, idx, open)
    PROVE  /\ widest.mark \in items[idx].spans \ open /\ widest.end \in (idx + 1)..(Len(items) + 1)
           /\ \A k \in idx..(widest.end - 1) : KeepsOpen(items[k], open \cup {widest.mark})
           /\ widest.end <= Len(items) => ~KeepsOpen(items[widest.end], open \cup {widest.mark})
           /\ \A mark \in items[idx].spans \ open : \A end \in (idx + 1)..(Len(items) + 1) :
                  (\A k \in idx..(end - 1) : KeepsOpen(items[k], open \cup {mark})) => end <= widest.end
<1> DEFINE N == Len(items)
           unopened == items[idx].spans \ open
           End(mark) == SpanEnd(items, idx, mark, open)
           furthest == {n \in DOMAIN SpanMarks : /\ SpanMarks[n] \in unopened
                                                 /\ \A other \in unopened : End(other) <= End(SpanMarks[n])}
<1>1. N \in Nat /\ DOMAIN items = 1..N /\ idx \in Nat /\ idx <= N /\ IsItem(items[idx])
  BY DEF IsItems
<1>2. unopened \subseteq AllMarks /\ unopened # {}
  BY <1>1 DEF IsItem
<1>3. DOMAIN SpanMarks = 1..3 /\ SpanMarks[1] = "strong" /\ SpanMarks[2] = "em" /\ SpanMarks[3] = "strike"
  BY DEF SpanMarks
<1>4. ASSUME NEW mark \in unopened
      PROVE  /\ End(mark) \in (idx + 1)..(N + 1)
             /\ \A k \in idx..(End(mark) - 1) : KeepsOpen(items[k], open \cup {mark})
             /\ End(mark) <= N => ~KeepsOpen(items[End(mark)], open \cup {mark})
  <2> DEFINE end == End(mark)
             run == {k \in 1..N : mark \in items[k].spans /\ KeepsOpen(items[k], open)}
  <2>1. end = RunEnd(items, idx + 1, run)
    BY <1>1 DEF SpanEnd
  <2>2. run \in SUBSET (1..N) /\ idx + 1 \in 1..(N + 1)
    BY <1>1
  <2> HIDE DEF run, end
  <2>3. end \in (idx + 1)..(N + 1) /\ end \notin run /\ \A k \in (idx + 1)..(end - 1) : k \in run
    BY <1>1, <2>1, <2>2, RunEndOf
  <2>4. ASSUME NEW k \in idx..(end - 1)
        PROVE  KeepsOpen(items[k], open \cup {mark})
    <3>1. CASE k = idx
      BY <3>1 DEF KeepsOpen
    <3>2. CASE k # idx
      <4>1. k \in run
        BY <1>1, <2>3, <3>2
      <4>2. QED
        BY <4>1 DEF run, KeepsOpen
    <3>3. QED
      BY <3>1, <3>2
  <2>5. end <= N => ~KeepsOpen(items[end], open \cup {mark})
    <3>1. ASSUME end <= N
          PROVE  end \in 1..N
      BY <1>1, <2>3, <3>1
    <3>2. QED
      BY <2>3, <3>1 DEF run, KeepsOpen
  <2>6. QED
    BY <2>3, <2>4, <2>5 DEF end
<1> HIDE DEF End
<1>5. PICK best \in unopened : \A other \in unopened : End(other) <= End(best)
  <2> DEFINE ends == {End(mark) : mark \in unopened}
  <2>1. ends \in SUBSET (0..(N + 1)) /\ ends # {} /\ N + 1 \in Nat
    <3>1. ASSUME NEW mark \in unopened
          PROVE  End(mark) \in 0..(N + 1)
      <4> DEFINE end == End(mark)
      <4>1. end \in (idx + 1)..(N + 1)
        BY <1>4
      <4> HIDE DEF end
      <4>2. end \in 0..(N + 1)
        BY <1>1, <4>1
      <4>3. QED
        BY <4>2 DEF end
    <3>2. QED
      BY <1>1, <1>2, <3>1
  <2>2. Max(ends) \in ends /\ \A e \in ends : e <= Max(ends)
    <3> HIDE DEF ends
    <3>1. QED
      BY <2>1, Greatest
  <2>3. QED
    BY <2>2
<1>6. furthest \in SUBSET Nat /\ furthest # {}
  <2>1. \E n \in 1..3 : SpanMarks[n] = best
    BY <1>2, <1>3 DEF AllMarks
  <2>2. QED
    BY <1>3, <1>5, <2>1
<1>7. Min(furthest) \in furthest
  <2> HIDE DEF furthest
  <2>1. QED
    BY <1>6, Least
<1>8. widest.mark = SpanMarks[Min(furthest)] /\ widest.end = End(widest.mark)
  BY DEF WidestSpan, End
<1>9. widest.mark \in unopened /\ \A other \in unopened : End(other) <= widest.end
  BY <1>7, <1>8
<1>10. ASSUME NEW mark \in unopened, NEW end \in (idx + 1)..(N + 1),
              \A k \in idx..(end - 1) : KeepsOpen(items[k], open \cup {mark})
       PROVE  end <= widest.end
  <2>1. End(mark) \in (idx + 1)..(N + 1) /\ End(mark) <= widest.end /\ widest.end \in Nat
    <3>1. End(mark) \in (idx + 1)..(N + 1) /\ End(mark) <= widest.end
      BY <1>4, <1>9
    <3>2. widest.end \in (idx + 1)..(N + 1)
      BY <1>4, <1>8, <1>9
    <3> DEFINE reach == widest.end
    <3> HIDE DEF reach
    <3>3. reach \in Nat
      BY <1>1, <3>2 DEF reach
    <3>4. QED
      BY <3>1, <3>3 DEF reach
  <2>2. end <= End(mark)
    <3>1. SUFFICES ASSUME End(mark) < end
                   PROVE  FALSE
      BY <1>1, <2>1
    <3>2. End(mark) <= N /\ End(mark) \in idx..(end - 1)
      BY <1>1, <2>1, <3>1
    <3>3. QED
      BY <1>4, <1>10, <3>2
  <2>3. QED
    BY <1>1, <2>1, <2>2
<1>11. QED
  BY <1>4, <1>8, <1>9, <1>10

------------------------------------------------------------------------------
(* What is inferred. *)

\* One step of an inference: an item that is no code hands its marks to a run of
\* unmarked items next to it.
Hands(items, new, i, run) ==
    /\ Marked(items[i]) /\ ~items[i].code /\ run \subseteq 1..Len(items)
    /\ \A k \in run : ~Marked(items[k]) /\ ~items[k].break
    /\ Sets(items, new, run, items[i].spans)
LEMMA StepBefore ==
    ASSUME NEW items, IsItems(items), NEW i \in 1..Len(items), NEW new, new = BeforeItem(items, i)
    PROVE  \/ new = items /\ ~(~items[i].code /\ Marked(items[i]) /\ OpensOnSpace(items[i]) /\ BareCode(items, i - 1))
           \/ \E start \in 1..(i - 1) : /\ Hands(items, new, i, start..(i - 1))
                                        /\ \A k \in start..(i - 1) : items[k].code
<1> DEFINE N == Len(items)
           infers == ~items[i].code /\ Marked(items[i]) /\ OpensOnSpace(items[i]) /\ BareCode(items, i - 1)
<1>1. N \in Nat /\ DOMAIN items = 1..N /\ \A k \in 1..N : IsItem(items[k])
  BY DEF IsItems
<1>2. CASE ~infers
  BY <1>2 DEF BeforeItem
<1>3. CASE infers
  <2> DEFINE stops == {s \in 1..(i - 1) : ~BareCode(items, s - 1)}
             start == Max(stops)
  <2>1. i - 1 \in 1..N
    BY <1>1, <1>3 DEF BareCode
  <2>2. 1 \in stops
    BY <1>1, <2>1 DEF BareCode
  <2>3. start \in stops /\ \A s \in stops : s <= start
    <3>1. stops \in SUBSET (0..(i - 1)) /\ i - 1 \in Nat
      BY <2>1
    <3> HIDE DEF stops
    <3>2. QED
      BY <2>2, <3>1, Greatest
  <2>4. new = SetMarks(items, start..(i - 1), items[i].spans)
    BY <1>3 DEF BeforeItem, CodeRunStart
  <2> HIDE DEF start
  <2>5. start \in 1..(i - 1)
    BY <2>3
  <2>6. ASSUME NEW k \in start..(i - 1)
        PROVE  BareCode(items, k)
    <3>1. CASE k = i - 1
      BY <1>3, <3>1
    <3>2. CASE k # i - 1
      <4>1. k + 1 \in 1..(i - 1) /\ ~(k + 1 <= start) /\ (k + 1) - 1 = k
        BY <2>1, <2>5, <3>2
      <4>2. k + 1 \notin stops
        BY <2>3, <4>1
      <4>3. BareCode(items, (k + 1) - 1)
        BY <4>1, <4>2
      <4>4. QED
        BY <4>1, <4>3
    <3>3. QED
      BY <3>1, <3>2
  <2>7. Sets(items, new, start..(i - 1), items[i].spans)
    <3>1. items[i].spans \in SUBSET AllMarks
      BY <1>1 DEF IsItem
    <3>2. QED
      BY <2>4, <3>1, SetOf
  <2>8. \A k \in start..(i - 1) : k \in 1..N /\ items[k].code /\ ~Marked(items[k]) /\ ~items[k].break
    BY <1>1, <2>6 DEF BareCode, IsItem
  <2>9. Hands(items, new, i, start..(i - 1))
    BY <1>3, <2>7, <2>8 DEF Hands
  <2>10. QED
    BY <2>5, <2>8, <2>9
<1>4. QED
  BY <1>2, <1>3

LEMMA StepAfter ==
    ASSUME NEW items, IsItems(items), NEW lax \in BOOLEAN, NEW i \in 1..Len(items),
           NEW new, new = AfterItem(items, lax, i)
    PROVE  \/ new = items /\ ~(~items[i].code /\ Marked(items[i]) /\ BareCode(items, i + 1))
           \/ \E end \in (i + 1)..Len(items) : /\ Hands(items, new, i, (i + 1)..end)
                                               /\ \A k \in (i + 1)..end : lax \/ items[k].code
<1> DEFINE N == Len(items)
           infers == ~items[i].code /\ Marked(items[i]) /\ BareCode(items, i + 1)
<1>1. N \in Nat /\ DOMAIN items = 1..N /\ \A k \in 1..N : IsItem(items[k])
  BY DEF IsItems
<1>2. CASE ~infers
  BY <1>2 DEF AfterItem
<1>3. CASE infers
  <2> DEFINE run == IF lax THEN {k \in 1..N : ~Marked(items[k]) /\ ~items[k].break} ELSE {k \in 1..N : BareCode(items, k)}
             stop == RunEnd(items, i + 1, run)
  <2>1. i + 1 \in 1..N
    BY <1>1, <1>3 DEF BareCode
  <2>2. run \in SUBSET (1..N) /\ i + 1 \in run
    BY <1>1, <1>3, <2>1 DEF BareCode, IsItem
  <2>3. new = SetMarks(items, (i + 1)..(stop - 1), items[i].spans)
    <3>1. stop = IF lax THEN UnmarkedRunEnd(items, i + 1) ELSE CodeRunEnd(items, i + 1)
      BY <1>1 DEF UnmarkedRunEnd, CodeRunEnd
    <3> HIDE DEF stop
    <3>2. QED
      BY <1>3, <3>1 DEF AfterItem
  <2>4. \A k \in run : ~Marked(items[k]) /\ ~items[k].break /\ (lax \/ items[k].code)
    BY <1>1 DEF BareCode, IsItem
  <2> HIDE DEF run
  <2>5. stop \in (i + 1)..(N + 1) /\ stop \notin run /\ \A k \in (i + 1)..(stop - 1) : k \in run
    BY <1>1, <2>1, <2>2, RunEndOf
  <2> HIDE DEF stop
  <2>6. stop - 1 \in (i + 1)..N
    BY <1>1, <2>2, <2>5
  <2>7. Sets(items, new, (i + 1)..(stop - 1), items[i].spans)
    <3>1. items[i].spans \in SUBSET AllMarks
      BY <1>1 DEF IsItem
    <3>2. QED
      BY <2>3, <3>1, SetOf
  <2>8. Hands(items, new, i, (i + 1)..(stop - 1))
    <3>1. (i + 1)..(stop - 1) \subseteq 1..Len(items)
      BY <2>2, <2>5
    <3>2. QED
      BY <1>3, <2>4, <2>5, <2>7, <3>1 DEF Hands
  <2>9. \A k \in (i + 1)..(stop - 1) : lax \/ items[k].code
    BY <2>4, <2>5
  <2>10. QED
    BY <2>6, <2>8, <2>9
<1>4. QED
  BY <1>2, <1>3

\* The items that one inference after the other can lead to.
GivenMarks(items) == UNION {{WithMarks(items[k], marks) : marks \in SUBSET AllMarks} : k \in 1..Len(items)}
Outcomes(items) == [1..Len(items) -> GivenMarks(items)]
LEMMA OutcomesAreItems ==
    ASSUME NEW items, IsItems(items)
    PROVE  items \in Outcomes(items) /\ \A acc \in Outcomes(items) : IsItems(acc) /\ Len(acc) = Len(items)
<1> DEFINE N == Len(items)
           given == GivenMarks(items)
<1>1. N \in Nat /\ items = [k \in 1..N |-> items[k]] /\ \A k \in 1..N : IsItem(items[k])
  BY DEF IsItems
<1>2. \A k \in 1..N : items[k] \in given
  <2>1. ASSUME NEW k \in 1..N
        PROVE  items[k] \in given
    <3>1. WithMarks(items[k], {}) = items[k]
      BY <1>1, GivenTwice
    <3>2. {} \in SUBSET AllMarks
      OBVIOUS
    <3>3. WithMarks(items[k], {}) \in given
      BY <3>2 DEF GivenMarks
    <3>4. QED
      BY <3>1, <3>3
  <2>2. QED
    BY <2>1
<1>3. \A item \in given : IsItem(item)
  BY <1>1, Given DEF GivenMarks
<1> HIDE DEF given
<1>4. items \in [1..N -> given]
  <2> HIDE DEF N
  <2>1. QED
    BY <1>1, <1>2
<1>5. ASSUME NEW acc \in [1..N -> given]
      PROVE  IsItems(acc) /\ Len(acc) = N
  <2>1. \A k \in 1..N : IsItem(acc[k])
    BY <1>3
  <2>2. Len(acc) = N /\ acc = [k \in 1..N |-> acc[k]]
    <3> HIDE DEF N
    <3>1. QED
      BY <1>1
  <2>3. QED
    BY <1>1, <2>1, <2>2 DEF IsItems
<1>6. QED
  BY <1>4, <1>5 DEF Outcomes, given

LEMMA HandsStays ==
    ASSUME NEW items, IsItems(items), NEW acc \in Outcomes(items), NEW i \in 1..Len(items), NEW run,
           NEW new, Hands(acc, new, i, run)
    PROVE  new \in Outcomes(items)
<1> DEFINE N == Len(items)
           given == GivenMarks(items)
<1>1. IsItems(acc) /\ Len(acc) = N /\ N \in Nat /\ \A k \in 1..N : IsItem(items[k])
  BY OutcomesAreItems DEF IsItems
<1>2. /\ IsItems(new) /\ Len(new) = N
      /\ \A k \in 1..N : /\ k \in run => new[k] = WithMarks(acc[k], acc[i].spans)
                         /\ k \notin run => new[k] = acc[k]
  BY <1>1 DEF Hands, Sets
<1>3. acc[i].spans \in SUBSET AllMarks
  BY <1>1 DEF IsItems, IsItem
<1>4. ASSUME NEW k \in 1..N
      PROVE  new[k] \in given
  <2>1. acc[k] \in given
    BY DEF Outcomes
  <2>2. PICK l \in 1..N, marks \in SUBSET AllMarks : acc[k] = WithMarks(items[l], marks)
    BY <2>1 DEF GivenMarks
  <2>3. WithMarks(acc[k], acc[i].spans) = WithMarks(items[l], marks \cup acc[i].spans)
    BY <1>1, <1>3, <2>2, GivenTwice
  <2>4. marks \cup acc[i].spans \in SUBSET AllMarks
    BY <1>3
  <2>5. WithMarks(acc[k], acc[i].spans) \in given
    <3> DEFINE both == marks \cup acc[i].spans
               here == {WithMarks(items[l], m) : m \in SUBSET AllMarks}
    <3>1. WithMarks(items[l], both) \in here
      BY <2>4
    <3> HIDE DEF both
    <3>2. here \subseteq given
      BY DEF GivenMarks
    <3> HIDE DEF here, given
    <3>3. QED
      BY <2>3, <3>1, <3>2 DEF both
  <2> HIDE DEF given
  <2>6. QED
    BY <1>2, <2>1, <2>5
<1>5. new = [k \in 1..N |-> new[k]]
  BY <1>2 DEF IsItems
<1> HIDE DEF given
<1>6. new \in [1..N -> given]
  BY <1>4, <1>5
<1>7. QED
  BY <1>6 DEF Outcomes, given

\* Each pass goes over the items from first to last.
LEMMA PassBefore ==
    ASSUME NEW items, IsItems(items)
    PROVE  \E f \in [0..Len(items) -> Outcomes(items)] :
               /\ f[0] = items /\ InferBeforeCode(items) = f[Len(items)]
               /\ \A n \in 1..Len(items) : f[n] = BeforeItem(f[n - 1], n)
<1> DEFINE N == Len(items)
           S == Outcomes(items)
           step == [x \in S \X (1..N) |-> BeforeItem(x[1], x[2])]
<1>1. N \in Nat /\ items \in S
  BY OutcomesAreItems DEF IsItems
<1>2. ASSUME NEW acc \in S, NEW n \in 1..N
      PROVE  BeforeItem(acc, n) \in S
  <2> DEFINE new == BeforeItem(acc, n)
  <2>1. IsItems(acc) /\ n \in 1..Len(acc)
    BY OutcomesAreItems
  <2>2. new = acc \/ \E run : Hands(acc, new, n, run)
    BY <2>1, StepBefore
  <2> HIDE DEF new
  <2>3. new \in S
    BY <2>2, HandsStays
  <2>4. QED
    BY <2>3 DEF new
<1>3. step \in [S \X (1..N) -> S]
  BY <1>2
<1> HIDE DEF step, S, N
<1>4. PICK f : f = [n \in 0..N |-> IF n = 0 THEN items ELSE step[<<f[n - 1], n>>]]
  <2>1. \E f : Steps(f, items, N, step)
    BY <1>1, <1>3, StepByStep
  <2>2. QED
    BY <2>1 DEF Steps
<1>5. \A n \in 0..N : f[n] \in S
  <2> DEFINE holds == {n \in 0..N : f[n] \in S}
  <2>1. 0 \in holds
    BY <1>1, <1>4
  <2>2. \A n \in 1..N : n - 1 \in holds => n \in holds
    BY <1>1, <1>3, <1>4
  <2> HIDE DEF holds
  <2>3. \A n \in 0..N : n \in holds
    BY <1>1, <2>1, <2>2, AllSteps
  <2>4. QED
    BY <2>3 DEF holds
<1>6. f = [n \in 0..N |-> IF n = 0 THEN items ELSE BeforeItem(f[n - 1], n)]
  <2>1. ASSUME NEW n \in 0..N
        PROVE  f[n] = IF n = 0 THEN items ELSE BeforeItem(f[n - 1], n)
    <3>1. CASE n = 0
      BY <1>4, <3>1
    <3>2. CASE n # 0
      <4>1. n \in 1..N /\ n - 1 \in 0..N /\ f[n - 1] \in S
        BY <1>1, <1>5, <3>2
      <4>2. step[<<f[n - 1], n>>] = BeforeItem(f[n - 1], n)
        BY <4>1 DEF step
      <4>3. QED
        BY <1>4, <3>2, <4>2
    <3>3. QED
      BY <3>1, <3>2
  <2>2. f = [n \in 0..N |-> f[n]]
    BY <1>4
  <2>3. QED
    BY <2>1, <2>2
<1> DEFINE g[n \in 0..N] == IF n = 0 THEN items ELSE BeforeItem(g[n - 1], n)
<1>7. g = [n \in 0..N |-> IF n = 0 THEN items ELSE BeforeItem(g[n - 1], n)]
  BY <1>6 DEF g
<1>8. InferBeforeCode(items) = g[N]
  BY DEF InferBeforeCode, N
<1> HIDE DEF g
<1>9. g \in [0..N -> S]
  <2> DEFINE holds == {n \in 0..N : g[n] \in S}
  <2>1. 0 \in holds
    BY <1>1, <1>7
  <2>2. ASSUME NEW n \in 1..N, n - 1 \in holds
        PROVE  n \in holds
    <3>1. g[n] = BeforeItem(g[n - 1], n) /\ g[n - 1] \in S /\ n \in 0..N
      BY <1>1, <1>7, <2>2
    <3>2. QED
      BY <1>2, <3>1
  <2> HIDE DEF holds
  <2>3. \A n \in 0..N : n \in holds
    BY <1>1, <2>1, <2>2, AllSteps
  <2>4. QED
    BY <1>7, <2>3 DEF holds
<1>10. g[0] = items /\ \A n \in 1..N : g[n] = BeforeItem(g[n - 1], n)
  BY <1>1, <1>7
<1>11. QED
  BY <1>8, <1>9, <1>10 DEF S, N

LEMMA PassAfter ==
    ASSUME NEW items, IsItems(items), NEW lax \in BOOLEAN
    PROVE  \E f \in [0..Len(items) -> Outcomes(items)] :
               /\ f[0] = items /\ InferAfterCode(items, lax) = f[Len(items)]
               /\ \A n \in 1..Len(items) : f[n] = AfterItem(f[n - 1], lax, n)
<1> DEFINE N == Len(items)
           S == Outcomes(items)
           step == [x \in S \X (1..N) |-> AfterItem(x[1], lax, x[2])]
<1>1. N \in Nat /\ items \in S
  BY OutcomesAreItems DEF IsItems
<1>2. ASSUME NEW acc \in S, NEW n \in 1..N
      PROVE  AfterItem(acc, lax, n) \in S
  <2> DEFINE new == AfterItem(acc, lax, n)
  <2>1. IsItems(acc) /\ n \in 1..Len(acc)
    BY OutcomesAreItems
  <2>2. new = acc \/ \E run : Hands(acc, new, n, run)
    BY <2>1, StepAfter
  <2> HIDE DEF new
  <2>3. new \in S
    BY <2>2, HandsStays
  <2>4. QED
    BY <2>3 DEF new
<1>3. step \in [S \X (1..N) -> S]
  BY <1>2
<1> HIDE DEF step, S, N
<1>4. PICK f : f = [n \in 0..N |-> IF n = 0 THEN items ELSE step[<<f[n - 1], n>>]]
  <2>1. \E f : Steps(f, items, N, step)
    BY <1>1, <1>3, StepByStep
  <2>2. QED
    BY <2>1 DEF Steps
<1>5. \A n \in 0..N : f[n] \in S
  <2> DEFINE holds == {n \in 0..N : f[n] \in S}
  <2>1. 0 \in holds
    BY <1>1, <1>4
  <2>2. \A n \in 1..N : n - 1 \in holds => n \in holds
    BY <1>1, <1>3, <1>4
  <2> HIDE DEF holds
  <2>3. \A n \in 0..N : n \in holds
    BY <1>1, <2>1, <2>2, AllSteps
  <2>4. QED
    BY <2>3 DEF holds
<1>6. f = [n \in 0..N |-> IF n = 0 THEN items ELSE AfterItem(f[n - 1], lax, n)]
  <2>1. ASSUME NEW n \in 0..N
        PROVE  f[n] = IF n = 0 THEN items ELSE AfterItem(f[n - 1], lax, n)
    <3>1. CASE n = 0
      BY <1>4, <3>1
    <3>2. CASE n # 0
      <4>1. n \in 1..N /\ n - 1 \in 0..N /\ f[n - 1] \in S
        BY <1>1, <1>5, <3>2
      <4>2. step[<<f[n - 1], n>>] = AfterItem(f[n - 1], lax, n)
        BY <4>1 DEF step
      <4>3. QED
        BY <1>4, <3>2, <4>2
    <3>3. QED
      BY <3>1, <3>2
  <2>2. f = [n \in 0..N |-> f[n]]
    BY <1>4
  <2>3. QED
    BY <2>1, <2>2
<1> DEFINE g[n \in 0..N] == IF n = 0 THEN items ELSE AfterItem(g[n - 1], lax, n)
<1>7. g = [n \in 0..N |-> IF n = 0 THEN items ELSE AfterItem(g[n - 1], lax, n)]
  BY <1>6 DEF g
<1>8. InferAfterCode(items, lax) = g[N]
  BY DEF InferAfterCode, N
<1> HIDE DEF g
<1>9. g \in [0..N -> S]
  <2> DEFINE holds == {n \in 0..N : g[n] \in S}
  <2>1. 0 \in holds
    BY <1>1, <1>7
  <2>2. ASSUME NEW n \in 1..N, n - 1 \in holds
        PROVE  n \in holds
    <3>1. g[n] = AfterItem(g[n - 1], lax, n) /\ g[n - 1] \in S /\ n \in 0..N
      BY <1>1, <1>7, <2>2
    <3>2. QED
      BY <1>2, <3>1
  <2> HIDE DEF holds
  <2>3. \A n \in 0..N : n \in holds
    BY <1>1, <2>1, <2>2, AllSteps
  <2>4. QED
    BY <1>7, <2>3 DEF holds
<1>10. g[0] = items /\ \A n \in 1..N : g[n] = AfterItem(g[n - 1], lax, n)
  BY <1>1, <1>7
<1>11. QED
  BY <1>8, <1>9, <1>10 DEF S, N

\* Item i has the marks of item j, which is no code: what lies between them, i included,
\* carried no marks and is no break; all of it is code, unless the marks come from before
\* i in an inference over text (lax).
Stretch(i, j) == i..(j - 1) \cup (j + 1)..i
From(items, i, j, lax) ==
    /\ Marked(items[j]) /\ ~items[j].code
    /\ \A k \in Stretch(i, j) : /\ ~Marked(items[k]) /\ ~items[k].break
                                /\ j > i \/ ~lax => items[k].code
Gained(items, acc, i, lax) ==
    \/ acc[i].spans = items[i].spans
    \/ \E j \in 1..Len(items) : From(items, i, j, lax) /\ acc[i].spans = items[j].spans
Inferred(items, acc, lax) ==
    /\ IsItems(acc) /\ Len(acc) = Len(items)
    /\ \A i \in 1..Len(items) : Alike(items[i], acc[i]) /\ Gained(items, acc, i, lax)

LEMMA AlikeItems ==
    ASSUME NEW a, IsItem(a), NEW b, Alike(a, b)
    PROVE  b.code = a.code /\ b.break = a.break /\ b.v = a.v
BY DEF Alike, IsItem

\* No marks are lost.
LEMMA StillUnmarked ==
    ASSUME NEW items, IsItems(items), NEW lax \in BOOLEAN, NEW acc, Inferred(items, acc, lax),
           NEW k \in 1..Len(items), ~Marked(acc[k])
    PROVE  ~Marked(items[k]) /\ acc[k].code = items[k].code /\ acc[k].break = items[k].break
<1>1. Alike(items[k], acc[k]) /\ Gained(items, acc, k, lax) /\ IsItem(items[k])
  BY DEF Inferred, IsItems
<1>2. acc[k].spans = items[k].spans
  BY <1>1 DEF Gained, From, Marked
<1>3. QED
  BY <1>1, <1>2, AlikeItems DEF Marked

\* The marks of an item that is no code are its own or come from before it.
LEMMA WhoseMarks ==
    ASSUME NEW items, IsItems(items), NEW lax \in BOOLEAN, NEW acc, Inferred(items, acc, lax),
           NEW n \in 1..Len(items), ~acc[n].code
    PROVE  /\ ~items[n].code
           /\ \/ acc[n].spans = items[n].spans
              \/ lax /\ \E j \in 1..(n - 1) : From(items, n, j, lax) /\ acc[n].spans = items[j].spans
<1>1. Alike(items[n], acc[n]) /\ Gained(items, acc, n, lax) /\ IsItem(items[n])
  BY DEF Inferred, IsItems
<1>2. ~items[n].code
  BY <1>1, AlikeItems
<1>3. ASSUME NEW j \in 1..Len(items), From(items, n, j, lax), acc[n].spans = items[j].spans, j # n
      PROVE  lax /\ j \in 1..(n - 1)
  <2>1. n \in Stretch(n, j)
    BY <1>3 DEF Stretch
  <2>2. j > n \/ ~lax => items[n].code
    BY <1>3, <2>1 DEF From
  <2>3. ~(j > n) /\ lax
    BY <1>2, <2>2
  <2>4. QED
    BY <1>3, <2>3
<1>4. QED
  BY <1>1, <1>2, <1>3 DEF Gained

LEMMA Handed ==
    ASSUME NEW items, IsItems(items), NEW lax \in BOOLEAN, NEW acc, Inferred(items, acc, lax),
           NEW n \in 1..Len(items), NEW run, NEW new, Hands(acc, new, n, run),
           NEW j \in 1..Len(items), acc[n].spans = items[j].spans,
           \A k \in run : From(items, k, j, lax)
    PROVE  Inferred(items, new, lax)
<1>1. IsItems(new) /\ Len(new) = Len(items)
  BY DEF Hands, Sets, Inferred
<1>2. ASSUME NEW i \in 1..Len(items)
      PROVE  Alike(items[i], new[i]) /\ Gained(items, new, i, lax)
  <2>1. Alike(items[i], acc[i]) /\ Gained(items, acc, i, lax)
    BY DEF Inferred
  <2>2. /\ Alike(acc[i], new[i])
        /\ i \notin run => new[i] = acc[i]
        /\ i \in run => new[i].spans = acc[i].spans \cup acc[n].spans /\ ~Marked(acc[i])
    BY DEF Hands, Sets, Inferred
  <2>3. Alike(items[i], new[i])
    BY <2>1, <2>2 DEF Alike
  <2>4. CASE i \in run
    <3>1. new[i].spans = items[j].spans
      BY <2>2, <2>4 DEF Marked
    <3>2. QED
      BY <2>3, <2>4, <3>1 DEF Gained
  <2>5. CASE i \notin run
    BY <2>1, <2>2, <2>3, <2>5 DEF Gained
  <2>6. QED
    BY <2>4, <2>5
<1>3. QED
  BY <1>1, <1>2 DEF Inferred

\* A step of the first pass: code takes the marks of what follows it.
LEMMA HandedBack ==
    ASSUME NEW items, IsItems(items), NEW acc, Inferred(items, acc, FALSE),
           NEW n \in 1..Len(items), NEW new, new = BeforeItem(acc, n)
    PROVE  Inferred(items, new, FALSE)
<1>1. IsItems(acc) /\ Len(acc) = Len(items) /\ Len(items) \in Nat
  BY DEF Inferred, IsItems
<1>2. CASE new = acc
  BY <1>2
<1>3. ASSUME NEW start \in 1..(n - 1), Hands(acc, new, n, start..(n - 1)), \A k \in start..(n - 1) : acc[k].code
      PROVE  Inferred(items, new, FALSE)
  <2>1. acc[n].spans = items[n].spans /\ Marked(items[n]) /\ ~items[n].code
    <3>1. ~acc[n].code /\ Marked(acc[n])
      BY <1>3 DEF Hands
    <3>2. acc[n].spans = items[n].spans /\ ~items[n].code
      BY <3>1, WhoseMarks
    <3>3. QED
      BY <3>1, <3>2 DEF Marked
  <2>2. ASSUME NEW k \in start..(n - 1)
        PROVE  k \in 1..Len(items) /\ ~Marked(items[k]) /\ ~items[k].break /\ items[k].code
    <3>1. k \in 1..Len(items) /\ ~Marked(acc[k]) /\ ~acc[k].break /\ acc[k].code
      BY <1>1, <1>3 DEF Hands
    <3>2. ~Marked(items[k]) /\ acc[k].code = items[k].code /\ acc[k].break = items[k].break
      BY <3>1, StillUnmarked
    <3>3. QED
      BY <3>1, <3>2
  <2>3. ASSUME NEW k \in start..(n - 1)
        PROVE  From(items, k, n, FALSE)
    <3>1. \A l \in Stretch(k, n) : l \in start..(n - 1)
      BY DEF Stretch
    <3>2. QED
      BY <2>1, <2>2, <3>1 DEF From
  <2>4. QED
    BY <1>3, <2>1, <2>3, Handed
<1>4. QED
  BY <1>1, <1>2, <1>3, StepBefore

\* A step of the second pass: what follows takes the marks of what precedes it.
LEMMA HandedOn ==
    ASSUME NEW items, IsItems(items), NEW lax \in BOOLEAN, NEW acc, Inferred(items, acc, lax),
           NEW n \in 1..Len(items), NEW new, new = AfterItem(acc, lax, n)
    PROVE  Inferred(items, new, lax)
<1>1. IsItems(acc) /\ Len(acc) = Len(items) /\ Len(items) \in Nat
  BY DEF Inferred, IsItems
<1>2. CASE new = acc
  BY <1>2
<1>3. ASSUME NEW end \in (n + 1)..Len(acc), Hands(acc, new, n, (n + 1)..end),
             \A k \in (n + 1)..end : lax \/ acc[k].code
      PROVE  Inferred(items, new, lax)
  <2>1. ~acc[n].code /\ Marked(acc[n])
    BY <1>3 DEF Hands
  <2>2. ASSUME NEW k \in (n + 1)..end
        PROVE  k \in 1..Len(items) /\ ~Marked(items[k]) /\ ~items[k].break /\ (~lax => items[k].code)
    <3>1. k \in 1..Len(items) /\ ~Marked(acc[k]) /\ ~acc[k].break /\ (lax \/ acc[k].code)
      BY <1>1, <1>3 DEF Hands
    <3>2. ~Marked(items[k]) /\ acc[k].code = items[k].code /\ acc[k].break = items[k].break
      BY <3>1, StillUnmarked
    <3>3. QED
      BY <3>1, <3>2
  <2>3. PICK j \in 1..n : /\ acc[n].spans = items[j].spans /\ ~items[j].code
                          /\ \A l \in (j + 1)..n : ~Marked(items[l]) /\ ~items[l].break /\ (~lax => items[l].code)
    <3>1. CASE acc[n].spans = items[n].spans
      BY <2>1, <3>1, WhoseMarks
    <3>2. ASSUME NEW j \in 1..(n - 1), From(items, n, j, lax), acc[n].spans = items[j].spans
          PROVE  /\ j \in 1..n /\ ~items[j].code
                 /\ \A l \in (j + 1)..n : ~Marked(items[l]) /\ ~items[l].break /\ (~lax => items[l].code)
      <4>1. j \in 1..n /\ ~items[j].code
        BY <3>2 DEF From
      <4>2. ASSUME NEW l \in (j + 1)..n
            PROVE  ~Marked(items[l]) /\ ~items[l].break /\ (~lax => items[l].code)
        <5>1. l \in Stretch(n, j)
          BY DEF Stretch
        <5>2. ~Marked(items[l]) /\ ~items[l].break /\ (j > n \/ ~lax => items[l].code)
          BY <3>2, <5>1 DEF From
        <5>3. QED
          BY <5>2
      <4>3. QED
        BY <4>1, <4>2
    <3>3. QED
      BY <2>1, <3>1, <3>2, WhoseMarks
  <2>4. Marked(items[j]) /\ ~items[j].code
    BY <2>1, <2>3 DEF Marked
  <2>5. ASSUME NEW k \in (n + 1)..end
        PROVE  From(items, k, j, lax)
    <3>1. ASSUME NEW l \in Stretch(k, j)
          PROVE  l \in (j + 1)..n \/ l \in (n + 1)..end
      BY DEF Stretch
    <3>2. ~(j > k)
      OBVIOUS
    <3>3. QED
      BY <2>2, <2>3, <2>4, <3>1, <3>2 DEF From
  <2>6. QED
    BY <1>1, <1>3, <2>3, <2>5, Handed
<1>4. QED
  BY <1>1, <1>2, <1>3, StepAfter

LEMMA FirstPass ==
    ASSUME NEW items, IsItems(items)
    PROVE  Inferred(items, InferBeforeCode(items), FALSE)
<1> DEFINE N == Len(items)
<1>1. PICK f \in [0..N -> Outcomes(items)] :
          /\ f[0] = items /\ InferBeforeCode(items) = f[N]
          /\ \A n \in 1..N : f[n] = BeforeItem(f[n - 1], n)
  BY PassBefore
<1> DEFINE holds == {n \in 0..N : Inferred(items, f[n], FALSE)}
<1>2. N \in Nat /\ 0 \in holds
  BY <1>1 DEF Inferred, IsItems, Gained, Alike
<1>3. \A n \in 1..N : n - 1 \in holds => n \in holds
  <2>1. ASSUME NEW n \in 1..N, n - 1 \in holds
        PROVE  n \in holds
    <3>1. Inferred(items, f[n - 1], FALSE) /\ n \in 0..N
      BY <2>1
    <3>2. f[n] = BeforeItem(f[n - 1], n)
      BY <1>1
    <3>3. Inferred(items, f[n], FALSE)
      BY <3>1, <3>2, HandedBack
    <3>4. QED
      BY <3>1, <3>3
  <2>2. QED
    BY <2>1
<1>4. N \in holds
  <2> HIDE DEF holds, N
  <2>1. \A n \in 0..N : n \in holds
    BY <1>2, <1>3, AllSteps
  <2>2. QED
    BY <1>2, <2>1
<1>5. QED
  BY <1>1, <1>4

\* Items keep their marks, or had none and take those of a neighbour: of the next item
\* that is no code, with nothing but unmarked code between them, or, where the inference
\* runs over text (lax) and the marks come from before, unmarked text too. Nothing is
\* taken across a break, a marked item or the end of the run, no two sources are mixed,
\* and nothing but the marks changes.
THEOREM MarksComeFromNeighbours ==
    ASSUME NEW items, IsItems(items), NEW lax \in BOOLEAN, NEW new, new = InferAcrossCode(items, lax)
    PROVE  /\ IsItems(new) /\ Len(new) = Len(items)
           /\ \A i \in 1..Len(items) :
                  /\ Alike(items[i], new[i])
                  /\ \/ new[i].spans = items[i].spans
                     \/ \E j \in 1..Len(items) : From(items, i, j, lax) /\ new[i].spans = items[j].spans
<1> DEFINE N == Len(items)
           first == InferBeforeCode(items)
<1>1. Inferred(items, first, FALSE)
  BY FirstPass
<1>2. Inferred(items, first, lax)
  <2>1. \A i, j \in 1..N : From(items, i, j, FALSE) => From(items, i, j, lax)
    BY DEF From
  <2>2. \A i \in 1..N : Gained(items, first, i, FALSE) => Gained(items, first, i, lax)
    BY <2>1 DEF Gained
  <2>3. QED
    BY <1>1, <2>2 DEF Inferred
<1>3. new = InferAfterCode(first, lax) /\ IsItems(first) /\ Len(first) = N
  BY <1>1 DEF InferAcrossCode, Inferred
<1> HIDE DEF first
<1>4. PICK f \in [0..N -> Outcomes(first)] :
          /\ f[0] = first /\ InferAfterCode(first, lax) = f[N]
          /\ \A n \in 1..N : f[n] = AfterItem(f[n - 1], lax, n)
  BY <1>3, PassAfter
<1> DEFINE holds == {n \in 0..N : Inferred(items, f[n], lax)}
<1>5. N \in Nat /\ 0 \in holds
  BY <1>2, <1>4 DEF IsItems
<1>6. \A n \in 1..N : n - 1 \in holds => n \in holds
  <2>1. ASSUME NEW n \in 1..N, n - 1 \in holds
        PROVE  n \in holds
    <3>1. Inferred(items, f[n - 1], lax) /\ f[n] = AfterItem(f[n - 1], lax, n) /\ n \in 0..N
      BY <1>4, <2>1
    <3>2. Inferred(items, f[n], lax)
      BY <3>1, HandedOn
    <3>3. QED
      BY <3>1, <3>2
  <2>2. QED
    BY <2>1
<1>7. N \in holds
  <2> HIDE DEF holds, N
  <2>1. \A n \in 0..N : n \in holds
    BY <1>5, <1>6, AllSteps
  <2>2. QED
    BY <1>5, <2>1
<1>8. Inferred(items, new, lax)
  BY <1>3, <1>4, <1>7
<1>9. QED
  BY <1>8 DEF Inferred, Gained
\* What each pass looks for: unmarked code right before an item that opens on a space,
\* right after any item.
Behind(items, i) == ~items[i].code /\ Marked(items[i]) /\ OpensOnSpace(items[i]) /\ BareCode(items, i - 1)
Ahead(items, i) == ~items[i].code /\ Marked(items[i]) /\ BareCode(items, i + 1)
NoneBehind(items, n) == \A i \in 1..n : ~Behind(items, i)
NoneAhead(items, n) == \A i \in 1..n : ~Ahead(items, i)

\* A step of either pass leaves no code bare that was not.
LEMMA BareBefore ==
    ASSUME NEW items, IsItems(items), NEW i, NEW run, NEW new, Hands(items, new, i, run)
    PROVE  /\ \A k \in 1..Len(items) : k \notin run => new[k] = items[k]
           /\ \A k : BareCode(new, k) => k \notin run /\ BareCode(items, k)
<1>1. DOMAIN items = 1..Len(items) /\ DOMAIN new = 1..Len(items)
  BY DEF Hands, Sets, IsItems
<1>2. \A k \in 1..Len(items) : /\ k \notin run => new[k] = items[k]
                               /\ k \in run => new[k].spans = items[k].spans \cup items[i].spans
  BY DEF Hands, Sets
<1>3. ASSUME NEW k, BareCode(new, k)
      PROVE  k \notin run /\ BareCode(items, k)
  <2>1. k \in 1..Len(items) /\ new[k].code /\ new[k].spans = {}
    BY <1>1, <1>3 DEF BareCode, Marked
  <2>2. k \notin run
    BY <1>2, <2>1 DEF Hands, Marked
  <2>3. new[k] = items[k]
    BY <1>2, <2>1, <2>2
  <2>4. QED
    BY <1>1, <2>1, <2>2, <2>3 DEF BareCode, Marked
<1>4. QED
  BY <1>2, <1>3

LEMMA SettledBehind ==
    ASSUME NEW acc, IsItems(acc), NEW n \in 1..Len(acc), NoneBehind(acc, n - 1),
           NEW new, new = BeforeItem(acc, n)
    PROVE  NoneBehind(new, n)
<1>1. Len(acc) \in Nat
  BY DEF IsItems
<1>2. CASE new = acc /\ ~Behind(acc, n)
  BY <1>1, <1>2 DEF NoneBehind
<1>3. ASSUME NEW start \in 1..(n - 1), Hands(acc, new, n, start..(n - 1)), \A k \in start..(n - 1) : acc[k].code
      PROVE  NoneBehind(new, n)
  <2> DEFINE run == start..(n - 1)
  <2>1. Hands(acc, new, n, run) /\ n - 1 \in run
    BY <1>1, <1>3
  <2>2. \A k \in run : acc[k].code
    BY <1>3
  <2>3. \A k \in run : new[k].code
    <3>1. \A k \in run : k \in 1..Len(acc) /\ IsItem(acc[k]) /\ Alike(acc[k], new[k])
      BY <1>3 DEF Hands, Sets, IsItems
    <3>2. QED
      BY <2>2, <3>1, AlikeItems
  <2> HIDE DEF run
  <2>4. ASSUME NEW i \in 1..n, Behind(new, i)
        PROVE  FALSE
    <3>1. ~new[i].code /\ BareCode(new, i - 1)
      BY <2>4 DEF Behind
    <3>2. i \notin run /\ i - 1 \notin run /\ BareCode(acc, i - 1)
      BY <2>1, <2>3, <3>1, BareBefore
    <3>3. new[i] = acc[i]
      BY <1>1, <2>1, <3>2, BareBefore
    <3>4. Behind(acc, i)
      BY <2>4, <3>2, <3>3 DEF Behind
    <3>5. i # n
      BY <2>1, <3>2
    <3>6. i \in 1..(n - 1)
      BY <1>1, <3>5
    <3>7. QED
      BY <3>4, <3>6 DEF NoneBehind
  <2>5. QED
    BY <2>4 DEF NoneBehind
<1>4. QED
  BY <1>2, <1>3, StepBefore DEF Behind

LEMMA SettledAhead ==
    ASSUME NEW acc, IsItems(acc), NEW lax \in BOOLEAN, NEW n \in 1..Len(acc),
           NoneBehind(acc, Len(acc)), NoneAhead(acc, n - 1), NEW new, new = AfterItem(acc, lax, n)
    PROVE  NoneBehind(new, Len(acc)) /\ NoneAhead(new, n)
<1>1. Len(acc) \in Nat
  BY DEF IsItems
<1>2. CASE new = acc /\ ~Ahead(acc, n)
  BY <1>1, <1>2 DEF NoneAhead
<1>3. ASSUME NEW end \in (n + 1)..Len(acc), Hands(acc, new, n, (n + 1)..end)
      PROVE  NoneBehind(new, Len(acc)) /\ NoneAhead(new, n)
  <2> DEFINE run == (n + 1)..end
  <2>1. Hands(acc, new, n, run) /\ Marked(acc[n])
    BY <1>3 DEF Hands
  <2>2. n + 1 \in run /\ \A i \in 1..n : i \notin run
    BY <1>1, <1>3
  <2>3. \A i \in run : i - 1 \in run \/ i - 1 = n
    BY <1>1, <1>3
  <2> HIDE DEF run
  <2>4. ASSUME NEW i \in 1..Len(acc), Behind(new, i)
        PROVE  FALSE
    <3>1. i - 1 \notin run /\ BareCode(acc, i - 1)
      BY <2>1, <2>4, BareBefore DEF Behind
    <3>2. i - 1 # n
      BY <2>1, <3>1 DEF BareCode
    <3>3. i \notin run
      BY <2>3, <3>1, <3>2
    <3>4. new[i] = acc[i]
      BY <2>1, <3>3, BareBefore
    <3>5. Behind(acc, i)
      BY <2>4, <3>1, <3>4 DEF Behind
    <3>6. QED
      BY <3>5 DEF NoneBehind
  <2>5. ASSUME NEW i \in 1..n, Ahead(new, i)
        PROVE  FALSE
    <3>1. i + 1 \notin run /\ BareCode(acc, i + 1)
      BY <2>1, <2>5, BareBefore DEF Ahead
    <3>2. new[i] = acc[i]
      <4>1. i \in 1..Len(acc) /\ i \notin run
        BY <1>1, <2>2
      <4>2. QED
        BY <2>1, <4>1, BareBefore
    <3>3. Ahead(acc, i)
      BY <2>5, <3>1, <3>2 DEF Ahead
    <3>4. i # n
      BY <2>2, <3>1
    <3>5. i \in 1..(n - 1)
      BY <1>1, <3>4
    <3>6. QED
      BY <3>3, <3>5 DEF NoneAhead
  <2>6. QED
    BY <2>4, <2>5 DEF NoneBehind, NoneAhead
<1>4. QED
  BY <1>2, <1>3, StepAfter DEF Ahead

LEMMA NothingLeftBehind ==
    ASSUME NEW items, IsItems(items), NEW first, first = InferBeforeCode(items)
    PROVE  IsItems(first) /\ Len(first) = Len(items) /\ NoneBehind(first, Len(items))
<1> DEFINE N == Len(items)
<1>1. PICK f \in [0..N -> Outcomes(items)] :
          /\ f[0] = items /\ InferBeforeCode(items) = f[N]
          /\ \A n \in 1..N : f[n] = BeforeItem(f[n - 1], n)
  BY PassBefore
<1> DEFINE holds == {n \in 0..N : NoneBehind(f[n], n)}
<1>2. N \in Nat /\ \A n \in 0..N : IsItems(f[n]) /\ Len(f[n]) = N
  BY OutcomesAreItems DEF IsItems
<1>3. 0 \in holds
  BY <1>2 DEF NoneBehind
<1>4. \A n \in 1..N : n - 1 \in holds => n \in holds
  <2>1. ASSUME NEW n \in 1..N, n - 1 \in holds
        PROVE  n \in holds
    <3>1. NoneBehind(f[n - 1], n - 1) /\ n - 1 \in 0..N /\ n \in 0..N
      BY <2>1
    <3>2. f[n] = BeforeItem(f[n - 1], n) /\ IsItems(f[n - 1]) /\ n \in 1..Len(f[n - 1])
      BY <1>1, <1>2, <3>1
    <3>3. NoneBehind(f[n], n)
      BY <3>1, <3>2, SettledBehind
    <3>4. QED
      BY <3>1, <3>3
  <2>2. QED
    BY <2>1
<1>5. N \in holds
  <2> HIDE DEF holds, N
  <2>1. \A n \in 0..N : n \in holds
    BY <1>2, <1>3, <1>4, AllSteps
  <2>2. QED
    BY <1>2, <2>1
<1>6. QED
  BY <1>1, <1>2, <1>5

LEMMA NothingLeftAhead ==
    ASSUME NEW items, IsItems(items), NoneBehind(items, Len(items)), NEW lax \in BOOLEAN,
           NEW new, new = InferAfterCode(items, lax)
    PROVE  IsItems(new) /\ Len(new) = Len(items) /\ NoneBehind(new, Len(items)) /\ NoneAhead(new, Len(items))
<1> DEFINE N == Len(items)
<1>1. PICK f \in [0..N -> Outcomes(items)] :
          /\ f[0] = items /\ InferAfterCode(items, lax) = f[N]
          /\ \A n \in 1..N : f[n] = AfterItem(f[n - 1], lax, n)
  BY PassAfter
<1> DEFINE holds == {n \in 0..N : NoneBehind(f[n], N) /\ NoneAhead(f[n], n)}
<1>2. N \in Nat /\ \A n \in 0..N : IsItems(f[n]) /\ Len(f[n]) = N
  BY OutcomesAreItems DEF IsItems
<1>3. 0 \in holds
  BY <1>1, <1>2 DEF NoneAhead
<1>4. \A n \in 1..N : n - 1 \in holds => n \in holds
  <2>1. ASSUME NEW n \in 1..N, n - 1 \in holds
        PROVE  n \in holds
    <3>1. NoneBehind(f[n - 1], N) /\ NoneAhead(f[n - 1], n - 1) /\ n - 1 \in 0..N /\ n \in 0..N
      BY <2>1
    <3>2. f[n] = AfterItem(f[n - 1], lax, n) /\ IsItems(f[n - 1]) /\ Len(f[n - 1]) = N
      BY <1>1, <1>2, <3>1
    <3>3. NoneBehind(f[n], N) /\ NoneAhead(f[n], n)
      BY <3>1, <3>2, SettledAhead
    <3>4. QED
      BY <3>1, <3>3
  <2>2. QED
    BY <2>1
<1>5. N \in holds
  <2> HIDE DEF holds, N
  <2>1. \A n \in 0..N : n \in holds
    BY <1>2, <1>3, <1>4, AllSteps
  <2>2. QED
    BY <1>2, <2>1
<1>6. QED
  BY <1>1, <1>2, <1>5

\* A pass that finds nothing changes nothing.
LEMMA IdleBefore ==
    ASSUME NEW items, IsItems(items), NoneBehind(items, Len(items))
    PROVE  InferBeforeCode(items) = items
<1> DEFINE N == Len(items)
<1>1. PICK f \in [0..N -> Outcomes(items)] :
          /\ f[0] = items /\ InferBeforeCode(items) = f[N]
          /\ \A n \in 1..N : f[n] = BeforeItem(f[n - 1], n)
  BY PassBefore
<1> DEFINE holds == {n \in 0..N : f[n] = items}
<1>2. N \in Nat /\ 0 \in holds
  BY <1>1 DEF IsItems
<1>3. \A n \in 1..N : n - 1 \in holds => n \in holds
  <2>1. ASSUME NEW n \in 1..N, n - 1 \in holds
        PROVE  n \in holds
    <3>1. f[n - 1] = items /\ n \in 0..N
      BY <2>1
    <3>2. f[n] = BeforeItem(items, n)
      BY <1>1, <3>1
    <3>3. ~Behind(items, n)
      BY DEF NoneBehind
    <3>4. BeforeItem(items, n) = items
      BY <3>3 DEF BeforeItem, Behind
    <3>5. QED
      BY <3>1, <3>2, <3>4
  <2>2. QED
    BY <2>1
<1>4. N \in holds
  <2> HIDE DEF holds, N
  <2>1. \A n \in 0..N : n \in holds
    BY <1>2, <1>3, AllSteps
  <2>2. QED
    BY <1>2, <2>1
<1>5. QED
  BY <1>1, <1>4

LEMMA IdleAfter ==
    ASSUME NEW items, IsItems(items), NoneAhead(items, Len(items)), NEW lax \in BOOLEAN
    PROVE  InferAfterCode(items, lax) = items
<1> DEFINE N == Len(items)
<1>1. PICK f \in [0..N -> Outcomes(items)] :
          /\ f[0] = items /\ InferAfterCode(items, lax) = f[N]
          /\ \A n \in 1..N : f[n] = AfterItem(f[n - 1], lax, n)
  BY PassAfter
<1> DEFINE holds == {n \in 0..N : f[n] = items}
<1>2. N \in Nat /\ 0 \in holds
  BY <1>1 DEF IsItems
<1>3. \A n \in 1..N : n - 1 \in holds => n \in holds
  <2>1. ASSUME NEW n \in 1..N, n - 1 \in holds
        PROVE  n \in holds
    <3>1. f[n - 1] = items /\ n \in 0..N
      BY <2>1
    <3>2. f[n] = AfterItem(items, lax, n)
      BY <1>1, <3>1
    <3>3. ~Ahead(items, n)
      BY DEF NoneAhead
    <3>4. AfterItem(items, lax, n) = items
      BY <3>3 DEF AfterItem, Ahead
    <3>5. QED
      BY <3>1, <3>2, <3>4
  <2>2. QED
    BY <2>1
<1>4. N \in holds
  <2> HIDE DEF holds, N
  <2>1. \A n \in 0..N : n \in holds
    BY <1>2, <1>3, AllSteps
  <2>2. QED
    BY <1>2, <2>1
<1>5. QED
  BY <1>1, <1>4

\* Inferring once is enough: what InferAcrossCode returns it returns again, over text or
\* not, so marks do not creep along a line each time a document is converted.
THEOREM InferenceSettles ==
    ASSUME NEW items, IsItems(items), NEW lax \in BOOLEAN, NEW again \in BOOLEAN
    PROVE  InferAcrossCode(InferAcrossCode(items, lax), again) = InferAcrossCode(items, lax)
<1> DEFINE first == InferBeforeCode(items)
           new == InferAcrossCode(items, lax)
<1>1. IsItems(first) /\ Len(first) = Len(items) /\ NoneBehind(first, Len(items))
  BY NothingLeftBehind
<1>2. new = InferAfterCode(first, lax)
  BY DEF InferAcrossCode
<1> HIDE DEF first, new
<1>3. IsItems(new) /\ Len(new) = Len(first) /\ NoneBehind(new, Len(new)) /\ NoneAhead(new, Len(new))
  BY <1>1, <1>2, NothingLeftAhead
<1>4. InferBeforeCode(new) = new /\ InferAfterCode(new, again) = new
  BY <1>3, IdleBefore, IdleAfter
<1>5. InferAcrossCode(new, again) = new
  BY <1>4 DEF InferAcrossCode
<1>6. QED
  BY <1>5 DEF new
===============================================================================
