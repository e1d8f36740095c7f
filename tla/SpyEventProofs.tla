---------------------------- MODULE SpyEventProofs ----------------------------
(***************************************************************************)
(* Proofs about the events that readDDU hands to its caller: how the       *)
(* driver's flag for missing packets, the reader's memory of it and the    *)
(* length it reports cover every way of losing a part of an event.         *)
(***************************************************************************)
EXTENDS SpyDaqProofs, FiniteSetTheorems, WellFoundedInduction

(***************************************************************************)
(* The total of a sequence of sizes.                                       *)
(***************************************************************************)
Sums(sizes, sum, n) ==
  sum = [k \in 0 .. n |-> IF k = 0 THEN 0 ELSE sum[k - 1] + sizes[k]]

(* A set of numbers that is not empty has a least one.                     *)
LEMMA LeastNumber ==
  ASSUME NEW T \in SUBSET Nat, T # {}
  PROVE  \E n \in T : \A m \in T : n <= m
<1>1. PICK n \in T : \A m \in T : ~ (<<m, n>> \in OpToRel(<, Nat))
  BY NatLessThanWellFounded, WFMin
<1>2. n \in Nat /\ \A m \in T : m \in Nat
  OBVIOUS
<1>3. \A m \in T : m < n => <<m, n>> \in OpToRel(<, Nat)
  BY <1>2 DEF OpToRel
<1>4. \A m \in T : ~ (m < n)
  BY <1>1, <1>3
<1> QED
  BY <1>2, <1>4

(* The partial sums exist.                                                 *)
LEMMA SumsExist ==
  ASSUME NEW sizes, NEW n \in Nat
  PROVE  \E sum : Sums(sizes, sum, n)
<1> DEFINE T == {m \in Nat : ~ \E sum : Sums(sizes, sum, m)}
<1>1. CASE T = {}
  BY <1>1
<1>2. CASE T # {}
  <2>1. PICK m \in T : \A l \in T : m <= l
    BY <1>2, LeastNumber
  <2>2. CASE m = 0
    <3>1. Sums(sizes, [k \in 0 .. 0 |-> 0], 0)
      BY DEF Sums
    <3> QED
      BY <2>1, <2>2, <3>1
  <2>3. CASE m # 0
    <3>1. m \in Nat /\ m - 1 \in Nat /\ m - 1 \notin T
      BY <2>1, <2>3
    <3>2. PICK f : Sums(sizes, f, m - 1)
      BY <3>1
    <3> DEFINE g == [k \in 0 .. m |-> IF k = m THEN f[m - 1] + sizes[m] ELSE f[k]]
    <3>3. f = [k \in 0 .. m - 1 |-> IF k = 0 THEN 0 ELSE f[k - 1] + sizes[k]]
      BY <3>2 DEF Sums
    <3>4. \A k \in 0 .. m : g[k] = IF k = 0 THEN 0 ELSE g[k - 1] + sizes[k]
      <4>1. ASSUME NEW k \in 0 .. m, k = 0 PROVE g[k] = 0
        BY <3>1, <3>3, <4>1, <2>3
      <4>2. ASSUME NEW k \in 0 .. m, k # 0, k # m PROVE g[k] = g[k - 1] + sizes[k]
        <5>1. k \in 0 .. m - 1 /\ k - 1 \in 0 .. m /\ k - 1 # m
          BY <3>1, <4>2
        <5>2. g[k] = f[k] /\ g[k - 1] = f[k - 1]
          BY <5>1, <4>2
        <5> QED
          BY <3>3, <5>1, <5>2, <4>2
      <4>3. ASSUME NEW k \in 0 .. m, k # 0, k = m PROVE g[k] = g[k - 1] + sizes[k]
        <5>1. k - 1 \in 0 .. m /\ k - 1 # m
          BY <3>1, <4>3
        <5> QED
          BY <5>1, <4>3
      <4> QED
        BY <4>1, <4>2, <4>3
    <3>5. g = [k \in 0 .. m |-> IF k = 0 THEN 0 ELSE g[k - 1] + sizes[k]]
      BY <3>4
    <3>6. Sums(sizes, g, m)
      BY <3>5 DEF Sums
    <3> QED
      BY <3>6, <2>1
  <2> QED
    BY <2>2, <2>3
<1> QED
  BY <1>1, <1>2

(* The partial sums of sequences that agree agree.                         *)
LEMMA SumsAgree ==
  ASSUME NEW s, NEW t, NEW f, NEW g, NEW n \in Nat, NEW m \in Nat, n <= m,
         Sums(s, f, n), Sums(t, g, m), \A k \in 1 .. n : s[k] = t[k]
  PROVE  \A k \in 0 .. n : f[k] = g[k]
<1> DEFINE T == {k \in 0 .. n : f[k] # g[k]}
<1>1. CASE T = {}
  BY <1>1
<1>2. CASE T # {}
  <2>1. T \in SUBSET Nat
    OBVIOUS
  <2>2. PICK k \in T : \A l \in T : k <= l
    BY <1>2, <2>1, LeastNumber
  <2>3. /\ f[k] = IF k = 0 THEN 0 ELSE f[k - 1] + s[k]
        /\ g[k] = IF k = 0 THEN 0 ELSE g[k - 1] + t[k]
    BY <2>2 DEF Sums
  <2>4. k # 0 => k - 1 \in 0 .. n /\ k - 1 \notin T /\ k \in 1 .. n
    BY <2>2
  <2> QED
    BY <2>2, <2>3, <2>4
<1> QED
  BY <1>1, <1>2

(* So the total is the last of the partial sums.                           *)
LEMMA TotalSums ==
  ASSUME NEW s, NEW n \in Nat, Len(s) = n
  PROVE  \E f : Sums(s, f, n) /\ Total(s) = f[n]
<1> DEFINE f == CHOOSE sum : Sums(s, sum, n)
<1>1. Sums(s, f, n)
  BY SumsExist
<1>2. Total(s) = f[n]
  BY DEF Total, Sums
<1> QED
  BY <1>1, <1>2

\* The total of no sizes is zero.
LEMMA TotalOfNone == Total(<<>>) = 0
<1>1. PICK f : Sums(<<>>, f, 0) /\ Total(<<>>) = f[0]
  BY TotalSums
<1> QED
  BY <1>1 DEF Sums

(* One more size adds to the total.                                        *)
LEMMA TotalOfMore ==
  ASSUME NEW s, NEW t, NEW n \in Nat, Len(s) = n, Len(t) = n + 1,
         \A k \in 1 .. n : s[k] = t[k]
  PROVE  Total(t) = Total(s) + t[n + 1]
<1>1. PICK f : Sums(s, f, n) /\ Total(s) = f[n]
  BY TotalSums
<1>2. PICK g : Sums(t, g, n + 1) /\ Total(t) = g[n + 1]
  BY TotalSums
<1>3. f[n] = g[n]
  BY <1>1, <1>2, SumsAgree
<1>4. g[n + 1] = g[n] + t[n + 1]
  BY <1>2 DEF Sums
<1> QED
  BY <1>1, <1>2, <1>3, <1>4

(***************************************************************************)
(* The packets of an event, as the DDU sends them.                         *)
(***************************************************************************)
(* The packets that the driver has in hand or has written.                 *)
Seen == {p \in {written[k] : k \in DOMAIN written} \cup {skb[c] : c \in CPUs} : p.id # 0}

(* Packet q starts an event if the one before it, p, has ended one, else   *)
(* it is of the same event.                                                *)
Continues(p, q) == q.first = IF p.ends THEN q.id ELSE p.first

CutInv ==
  /\ \A p \in Seen : p.id <= ddu.sent /\ (p.len = MinLen => p.ends)
  /\ \A p, q \in Seen : q.id = p.id + 1 => Continues(p, q)
  /\ \A p \in Seen : p.id = ddu.sent => ddu.first = IF p.ends THEN p.id + 1 ELSE p.first

(* The driver sees where events end.                                       *)
EndsInv ==
  flag_eevent_2 =>
    /\ \A k \in DOMAIN written : written[k].eevent = written[k].ends
    /\ \A c \in CPUs : Past(c) => masks[c].eevent = skb[c].ends

SeenAlike(p, q) == q.id = p.id /\ q.first = p.first /\ q.len = p.len /\ q.ends = p.ends

\* What has been seen of packets has its type.
LEMMA SeenTypes ==
  ASSUME TypeInv, NEW p \in Seen
  PROVE  p.id \in Nat \ {0} /\ p.first \in Nat /\ p.len \in Lens /\ p.ends \in BOOLEAN
<1>1. CASE \E k \in DOMAIN written : p = written[k]
  BY <1>1, EntryFacts DEF Entries
<1>2. CASE \E c \in CPUs : p = skb[c]
  BY <1>2 DEF Seen, TypeInv, HookTypeOK, Packets, NoPacket
<1> QED
  BY <1>1, <1>2 DEF Seen

(* Steps that see no new packet.                                           *)
LEMMA CutQuiet ==
  ASSUME CutInv, UNCHANGED ddu, \A q \in Seen' : \E p \in Seen : SeenAlike(p, q)
  PROVE  CutInv'
<1>1. \A q \in Seen' : q.id <= ddu'.sent /\ (q.len = MinLen => q.ends)
  BY DEF CutInv, SeenAlike
<1>2. \A p, q \in Seen' : q.id = p.id + 1 => Continues(p, q)
  BY DEF CutInv, SeenAlike, Continues
<1>3. \A p \in Seen' : p.id = ddu'.sent => ddu'.first = IF p.ends THEN p.id + 1 ELSE p.first
  BY DEF CutInv, SeenAlike
<1> QED
  BY <1>1, <1>2, <1>3 DEF CutInv, Continues

(* The hook sees nothing but what has come.                                *)
LEMMA SeenReceive ==
  ASSUME TypeInv, NEW c \in CPUs, NEW size \in Lens, NEW ends \in BOOLEAN, Receive(c, size, ends)
  PROVE  /\ NextPacket(size, ends)
         /\ Seen' \subseteq Seen \cup
              {[ id |-> ddu.sent + 1, first |-> ddu.first, len |-> size, ends |-> ends ]}
<1>1. /\ written' = written /\ NextPacket(size, ends)
      /\ skb' = [skb EXCEPT ![c] = [ id |-> ddu.sent + 1, first |-> ddu.first,
                                     len |-> size,         ends  |-> ends ]]
  BY DEF Receive, ghosts
<1> QED
  BY <1>1 DEF Seen, TypeInv, HookTypeOK

\* The hook changes nothing of what has been seen of a packet.
LEMMA SeenHook ==
  ASSUME TypeInv, NEW c \in CPUs, HookStep(c)
  PROVE  UNCHANGED ddu /\ \A q \in Seen' : \E p \in Seen : SeenAlike(p, q)
<1>0. skb \in [CPUs -> Packets \cup {NoPacket}]
  BY DEF TypeInv, HookTypeOK
<1>1. CASE Lock(c) \/ CopyData(c) \/ Classify(c) \/ PutWord(c) \/ PutLength(c)
  <2>1. UNCHANGED <<ddu, written, skb>>
    BY <1>1 DEF Lock, CopyData, Classify, PutWord, PutLength, env, ghosts
  <2> QED
    BY <2>1 DEF Seen, SeenAlike
<1>2. CASE Advance(c)
  <2> DEFINE new == EntryOf(skb[c], masks[c], buf_pnt_2, ring_pnt_2, ring_loop_2)
  <2>1. UNCHANGED <<ddu, skb>> /\ written' = Append(written, new)
    BY <1>2 DEF Advance, env
  <2>2. written \in Seq(Entries)
    BY DEF TypeInv, HookTypeOK
  <2>3. \A k \in DOMAIN written' : written'[k] = new \/ \E i \in DOMAIN written : written'[k] = written[i]
    BY <2>1, <2>2
  <2>4. \A q \in Seen' : q \in Seen \/ q = new
    BY <2>1, <2>3 DEF Seen
  <2>5. SeenAlike(skb[c], new)
    BY DEF EntryOf, SeenAlike
  <2>6. new \in Seen' => skb[c] \in Seen
    BY DEF EntryOf, Seen
  <2> QED
    BY <2>1, <2>4, <2>5, <2>6 DEF SeenAlike
<1>3. CASE PutTail(c)
  <2>1. UNCHANGED <<ddu, written>> /\ skb' = [skb EXCEPT ![c] = NoPacket]
    BY <1>3 DEF PutTail, env, ghosts
  <2>2. Seen' \subseteq Seen
    BY <1>0, <2>1 DEF Seen, NoPacket
  <2> QED
    BY <2>1, <2>2 DEF SeenAlike
<1> QED
  BY <1>1, <1>2, <1>3 DEF HookStep

\* Nor does a hook that a reset falls into.
LEMMA SeenRaced ==
  ASSUME TypeInv, NEW c \in CPUs, RacedStep(c)
  PROVE  UNCHANGED ddu /\ \A q \in Seen' : \E p \in Seen : SeenAlike(p, q)
<1>0. skb \in [CPUs -> Packets \cup {NoPacket}] /\ written \in Seq(Entries)
  BY DEF TypeInv, HookTypeOK
<1>1. PICK from \in 1 .. 5, to \in 2 .. 6 :
        LET falls == {ResetStores[k] : k \in from .. to - 1}
        IN  /\ \/ RacedCopy(c, falls) \/ RacedClassify(c, falls) \/ RacedWord(c, falls)
               \/ RacedAdvance(c, falls) \/ RacedTail(c, falls)
            /\ UNCHANGED env
  BY DEF RacedStep
<1> DEFINE falls == {ResetStores[k] : k \in from .. to - 1}
<1>2. /\ \/ RacedCopy(c, falls) \/ RacedClassify(c, falls) \/ RacedWord(c, falls)
         \/ RacedAdvance(c, falls) \/ RacedTail(c, falls)
      /\ ddu' = ddu
  BY <1>1 DEF env
<1> HIDE DEF falls
<1>3. CASE RacedCopy(c, falls) \/ RacedClassify(c, falls) \/ RacedWord(c, falls)
  <2>1. UNCHANGED <<ddu, written, skb>>
    BY <1>2, <1>3 DEF RacedCopy, RacedClassify, RacedWord, ghosts
  <2> QED
    BY <2>1 DEF Seen, SeenAlike
<1>4. CASE RacedAdvance(c, falls)
  <2> DEFINE new == EntryOf(skb[c], masks[c], buf_pnt_2, ring_pnt_2, ring_loop_2)
  <2>1. UNCHANGED <<ddu, skb>> /\ written' = Append(written, new)
    BY <1>2, <1>4 DEF RacedAdvance
  <2>2. \A k \in DOMAIN written' : written'[k] = new \/ \E i \in DOMAIN written : written'[k] = written[i]
    BY <1>0, <2>1
  <2>3. \A q \in Seen' : q \in Seen \/ q = new
    BY <2>1, <2>2 DEF Seen
  <2>4. SeenAlike(skb[c], new)
    BY DEF EntryOf, SeenAlike
  <2>5. new \in Seen' => skb[c] \in Seen
    BY DEF EntryOf, Seen
  <2> QED
    BY <2>1, <2>3, <2>4, <2>5 DEF SeenAlike
<1>5. CASE RacedTail(c, falls)
  <2>1. UNCHANGED <<ddu, written>> /\ skb' = [skb EXCEPT ![c] = NoPacket]
    BY <1>2, <1>5 DEF RacedTail, ghosts
  <2>2. Seen' \subseteq Seen
    BY <1>0, <2>1 DEF Seen, NoPacket
  <2> QED
    BY <2>1, <2>2 DEF SeenAlike
<1> QED
  BY <1>2, <1>3, <1>4, <1>5

\* Nor do the other steps of the driver.
LEMMA SeenOthers ==
  ASSUME Switch \/ ResetStep \/ UNCHANGED hookVars
  PROVE  UNCHANGED ddu /\ \A q \in Seen' : \E p \in Seen : SeenAlike(p, q)
<1>1. UNCHANGED <<ddu, written, skb>>
  BY DEF Switch, SwitchPmissing, SwitchEevent, RaisePmissing, LowerPmissing, RaiseEevent,
                LowerEevent, ResetStep, ResetBuf, ResetRing, ResetLoop,
         ResetProc, ResetTail, hookVars, env, cpus, ghosts
<1> QED
  BY <1>1 DEF Seen, SeenAlike

\* A packet that arrives follows on its event's last one.
LEMMA CutReceive ==
  ASSUME TypeInv, CutInv, NEW c \in CPUs, NEW size \in Lens, NEW ends \in BOOLEAN,
         Receive(c, size, ends)
  PROVE  CutInv'
<1> DEFINE new == [ id |-> ddu.sent + 1, first |-> ddu.first, len |-> size, ends |-> ends ]
<1>1. /\ ddu.sent \in Nat /\ ddu'.sent = ddu.sent + 1
      /\ ddu'.first = (IF ends THEN ddu.sent + 2 ELSE ddu.first)
      /\ size = MinLen => ends
  BY DEF TypeInv, HookTypeOK, Receive, NextPacket
<1>2. Seen' \subseteq Seen \cup {new}
  BY SeenReceive
<1>3. \A p \in Seen : p.id \in Nat /\ p.id <= ddu.sent
  BY SeenTypes DEF CutInv
<1>4. \A p \in Seen' : p.id <= ddu'.sent /\ (p.len = MinLen => p.ends)
  BY <1>1, <1>2, <1>3 DEF CutInv
<1>5. ASSUME NEW p \in Seen', NEW q \in Seen', q.id = p.id + 1
      PROVE  Continues(p, q)
  <2>1. p \in Seen
    BY <1>1, <1>2, <1>3, <1>5
  <2>2. CASE q \in Seen
    BY <1>5, <2>1, <2>2 DEF CutInv
  <2>3. CASE q = new
    <3>1. p.id = ddu.sent
      BY <1>1, <1>3, <1>5, <2>1, <2>3
    <3> QED
      BY <2>1, <2>3, <3>1 DEF CutInv, Continues
  <2> QED
    BY <1>2, <2>2, <2>3
<1>6. \A p \in Seen' : p.id = ddu'.sent => ddu'.first = IF p.ends THEN p.id + 1 ELSE p.first
  BY <1>1, <1>2, <1>3
<1> QED
  BY <1>4, <1>5, <1>6 DEF CutInv, Continues

\* Every step keeps what is known of packets of one event.
LEMMA CutNext ==
  ASSUME TypeInv, CutInv, [DriverNext]_hookVars, \A c \in CPUs : ~ RacedStep(c)
  PROVE  CutInv'
<1>1. CASE \E size \in Lens, ends \in BOOLEAN : Lose(size, ends)
  <2>1. /\ ddu.sent \in Nat /\ ddu'.sent = ddu.sent + 1 /\ Seen' = Seen
    BY <1>1 DEF TypeInv, HookTypeOK, Lose, NextPacket, cpus, ghosts, Seen
  <2>2. \A p \in Seen : p.id \in Nat /\ p.id <= ddu.sent
    BY SeenTypes DEF CutInv
  <2> QED
    BY <2>1, <2>2 DEF CutInv, Continues
<1>2. CASE \E c \in CPUs : HookStep(c)
  BY <1>2, SeenHook, CutQuiet
<1>3. CASE Switch \/ ResetStep \/ UNCHANGED hookVars
  BY <1>3, SeenOthers, CutQuiet
<1> QED
  BY <1>1, <1>2, <1>3, CutReceive DEF DriverNext, Environment

\* Every step keeps that an event has one end.
LEMMA EndsNext ==
  ASSUME TypeInv, CutInv, EndsInv, [DriverNext]_hookVars, \A c \in CPUs : ~ RacedStep(c),
         flag_eevent_2' => flag_eevent_2
  PROVE  EndsInv'
<1> SUFFICES ASSUME flag_eevent_2' PROVE EndsInv'
  BY DEF EndsInv
<1>0. /\ pc \in [CPUs -> Places] /\ skb \in [CPUs -> Packets \cup {NoPacket}]
      /\ masks \in [CPUs -> Masks] /\ written \in Seq(Entries) /\ flag_eevent_2 \in BOOLEAN
  BY DEF TypeInv, HookTypeOK
<1>1. CASE Environment \/ Switch \/ ResetStep \/ UNCHANGED hookVars
  <2>1. UNCHANGED <<written, masks>>
    BY <1>1 DEF Environment, Receive, Lose, Switch, SwitchPmissing, SwitchEevent, RaisePmissing, LowerPmissing, RaiseEevent,
                LowerEevent,
                ResetStep, ResetBuf, ResetRing, ResetLoop, ResetProc, ResetTail, hookVars, cpus, ghosts
  <2>2. \A c \in CPUs : Past(c)' => Past(c) /\ skb'[c] = skb[c]
    BY <1>0, <1>1 DEF Environment, Receive, Lose, Switch, SwitchPmissing, SwitchEevent, RaisePmissing, LowerPmissing, RaiseEevent,
                LowerEevent,
                ResetStep, ResetBuf, ResetRing, ResetLoop, ResetProc, ResetTail, hookVars, cpus,
                Past
  <2>3. flag_eevent_2
    OBVIOUS
  <2> QED
    BY <2>1, <2>2, <2>3 DEF EndsInv
<1>2. ASSUME NEW c \in CPUs, HookStep(c) PROVE EndsInv'
  <2>0. flag_eevent_2
    BY <1>2 DEF HookStep, Lock, CopyData, Classify, PutWord, PutLength, Advance, PutTail, switches
  <2>1. CASE Lock(c) \/ CopyData(c) \/ PutWord(c) \/ PutLength(c)
    <3>1. UNCHANGED <<written, masks, skb>> /\ \A d \in CPUs : Past(d)' => Past(d)
      BY <1>0, <2>1 DEF Lock, CopyData, PutWord, PutLength, ghosts, Past
    <3> QED
      BY <2>0, <3>1 DEF EndsInv
  <2>2. CASE PutTail(c)
    <3>1. written' = written
      BY <2>2 DEF PutTail, ghosts
    <3>2. ASSUME NEW d \in CPUs, Past(d)'
          PROVE  Past(d) /\ masks'[d] = masks[d] /\ skb'[d] = skb[d]
      BY <1>0, <2>2, <3>2 DEF PutTail, Past
    <3> QED
      BY <2>0, <3>1, <3>2 DEF EndsInv
  <2>3. CASE Classify(c)
    <3>1. UNCHANGED <<written, skb>>
      BY <2>3 DEF Classify, ghosts
    <3>2. ASSUME NEW d \in CPUs, Past(d)', d # c PROVE Past(d) /\ masks'[d] = masks[d]
      BY <1>0, <2>3, <3>2 DEF Classify, Past
    <3>3. masks'[c].eevent = EndsEvent(skb[c])
      BY <1>0, <2>3 DEF Classify
    <3>4. skb[c] \in Seen /\ skb[c].ends \in BOOLEAN
      BY <1>0, <2>3 DEF Classify, Seen, TypeInv, Handling, Packets
    <3>5. EndsEvent(skb[c]) = skb[c].ends
      BY <2>0, <3>4 DEF EndsEvent, CutInv
    <3> QED
      BY <2>0, <3>1, <3>2, <3>3, <3>5 DEF EndsInv
  <2>4. CASE Advance(c)
    <3> DEFINE new == EntryOf(skb[c], masks[c], buf_pnt_2, ring_pnt_2, ring_loop_2)
    <3>1. UNCHANGED <<masks, skb>> /\ written' = Append(written, new) /\ Past(c)
      BY <2>4 DEF Advance, Past
    <3>2. \A d \in CPUs : Past(d)' => Past(d)
      BY <1>0, <2>4 DEF Advance, Past
    <3>3. new.eevent = new.ends
      BY <2>0, <3>1 DEF EndsInv, EntryOf
    <3>4. \A k \in DOMAIN written' : written'[k] = new \/ \E i \in DOMAIN written : written'[k] = written[i]
      BY <1>0, <3>1
    <3>5. \A k \in DOMAIN written' : written'[k].eevent = written'[k].ends
      BY <2>0, <3>3, <3>4 DEF EndsInv
    <3> QED
      BY <2>0, <3>1, <3>2, <3>5 DEF EndsInv
  <2> QED
    BY <1>2, <2>1, <2>2, <2>3, <2>4 DEF HookStep
<1> QED
  BY <1>1, <1>2 DEF DriverNext

(***************************************************************************)
(* What the flags and the counters of successive packets say. The packet   *)
(* counter is the packet's number modulo 2^16, so that a loss of exactly   *)
(* 2^16 packets cannot be seen, nor can CPUs that overtake each other by   *)
(* as many.                                                                *)
(***************************************************************************)
Unaliased ==
  \A k \in 1 .. Len(written) - 1 :
    (written[k + 1].id - written[k].id) % CtrMod = 1 => written[k + 1].id = written[k].id + 1

(* What the reader's account of an event rests on: the driver has looked   *)
(* at the counter of every packet.                                         *)
AllChecked == \A k \in DOMAIN written : written[k].checked

Trusted == Regular /\ AllChecked /\ Unaliased

FlagsInv == GapInv /\ flag_eevent_2 /\ (resets = 0 => CutInv /\ EndsInv)

(* Only packet 1 is exempt from the check of the counter.                  *)
LEMMA OnlyFirstExempt ==
  ASSUME TypeInv, OrderParts, NEW k \in DOMAIN written, written[k].slot = 0, written[k].loop = 0
  PROVE  k = 1
<1>1. /\ Len(written) \in Nat /\ DOMAIN written = 1 .. Len(written)
      /\ 1 \in Places1 /\ k \in Places1 /\ 1 \in DOMAIN written
  BY DEF TypeInv, HookTypeOK, Places1
<1>2. Lap(1) = 0 /\ Slot(1) = 0 /\ Lap(k) = 0 /\ Slot(k) = 0
  BY DEF OrderParts, Chain, LoopIsLap, Lap, Slot
<1>3. ~ (1 < k)
  BY <1>1, <1>2 DEF OrderParts, Rising
<1> QED
  BY <1>1, <1>3

(* A packet that is not flagged follows the one before it, and is of the   *)
(* same event unless that one has ended it.                                *)
LEMMA FlagsTell ==
  ASSUME TypeInv, OrderParts, Trusted, FlagsInv, NEW k \in DOMAIN written, k > 1
  PROVE  /\ k - 1 \in DOMAIN written
         /\ written[k].missing <=> written[k].id # written[k - 1].id + 1
         /\ ~ written[k].missing =>
              written[k].first = IF written[k - 1].eevent THEN written[k].id ELSE written[k - 1].first
<1>1. /\ Len(written) \in Nat /\ DOMAIN written = 1 .. Len(written)
      /\ k - 1 \in 1 .. Len(written) - 1 /\ (k - 1) + 1 = k /\ k - 1 \in DOMAIN written
  <2>1. PICK n \in Nat : n = Len(written) /\ DOMAIN written = 1 .. n
    BY WrittenFacts
  <2>2. k - 1 \in 1 .. n - 1 /\ (k - 1) + 1 = k /\ k - 1 \in 1 .. n
    BY <2>1
  <2> QED
    BY <2>1, <2>2
<1>2. written[k].id \in Nat \ {0} /\ written[k - 1].id \in Nat \ {0}
  <2>1. \A e \in Entries : e.id \in Nat \ {0}
    BY HookAssumption DEF Entries
  <2> QED
    BY <1>1, <2>1, EntryFacts
<1>3. written[k].missing <=> Gap(written[k - 1].id, written[k], written[k].slot, written[k].loop)
  <2>1. AllFlagged
    BY DEF Trusted, FlagsInv, GapInv, CheckInv, Regular
  <2>2. written[k - 1].checked /\ written[k].checked
    BY <1>1 DEF Trusted, AllChecked
  <2>3. k \in Nat /\ k - 1 \in 0 .. k - 1 /\ k - 1 # 0
        /\ \A i \in (k - 1) + 1 .. k - 1 : FALSE
    BY <1>1
  <2>4. LastChecked(k - 1, k)
    BY <2>2, <2>3 DEF LastChecked
  <2>5. IdOf(k - 1) = written[k - 1].id
    BY <2>3 DEF IdOf
  <2> QED
    BY <2>1, <2>2, <2>3, <2>4, <2>5 DEF AllFlagged
<1>4. written[k].slot # 0 \/ written[k].loop # 0
  BY OnlyFirstExempt
<1>5. (written[k].id - written[k - 1].id) % CtrMod = 1 => written[k].id = written[k - 1].id + 1
  BY <1>1 DEF Trusted, Unaliased
<1>6. written[k].id = written[k - 1].id + 1 => (written[k].id - written[k - 1].id) % CtrMod = 1
  <2>1. ASSUME written[k].id = written[k - 1].id + 1
        PROVE  (written[k].id - written[k - 1].id) % CtrMod = 1
    <3>1. 1 % CtrMod = 1
      BY HookAssumption
    <3>2. written[k].id - written[k - 1].id = 1
      BY <1>2, <2>1
    <3> QED
      BY <3>1, <3>2
  <2> QED
    BY <2>1
<1>7. written[k].missing <=> written[k].id # written[k - 1].id + 1
  <2>1. written[k].missing <=> (written[k].id - written[k - 1].id) % CtrMod # 1
    BY <1>3, <1>4 DEF Gap
  <2> QED
    BY <1>5, <1>6, <2>1
<1>8. written[k] \in Seen /\ written[k - 1] \in Seen
  BY <1>1, <1>2 DEF Seen
<1>9. written[k - 1].eevent = written[k - 1].ends
  BY <1>1 DEF Trusted, Regular, FlagsInv, EndsInv
<1>10. written[k].id = written[k - 1].id + 1 => Continues(written[k - 1], written[k])
  BY <1>8 DEF Trusted, Regular, FlagsInv, CutInv
<1> QED
  BY <1>1, <1>7, <1>9, <1>10 DEF Continues

(* One CPU, and a network that does not lose 2^16 packets.                 *)
InHand(c) == pc[c] \notin {"idle", "tail"}

Counted(c) ==
  /\ ddu.sent = Len(written) + lost + (IF InHand(c) THEN 1 ELSE 0)
  /\ \A k \in DOMAIN written : written[k].id - k \in 0 .. lost
  /\ InHand(c) => skb[c].id - (Len(written) + 1) \in 0 .. lost
  /\ InHand(c) => \A k \in DOMAIN written : written[k].id - k <= skb[c].id - (Len(written) + 1)
  /\ \A i, k \in DOMAIN written : i < k => written[i].id - i <= written[k].id - k

CountInv == \A c \in CPUs : CPUs = {c} => Counted(c)

\* Every step keeps what the packet counter has counted.
LEMMA CountNext ==
  ASSUME TypeInv, CountInv, [DriverNext]_hookVars
  PROVE  CountInv'
<1> SUFFICES ASSUME NEW c \in CPUs, CPUs = {c} PROVE Counted(c)'
  BY DEF CountInv
<1>0. /\ pc \in [CPUs -> Places] /\ skb \in [CPUs -> Packets \cup {NoPacket}]
      /\ written \in Seq(Entries) /\ Len(written) \in Nat /\ DOMAIN written = 1 .. Len(written)
      /\ lost \in Nat /\ ddu.sent \in Nat /\ skb[c].id \in Nat
      /\ \A k \in DOMAIN written : written[k].id \in Nat
  <2>1. skb[c].id \in Nat
    <3>1. skb[c] \in Packets \cup {NoPacket}
      BY DEF TypeInv, HookTypeOK
    <3> QED
      BY <3>1 DEF Packets, NoPacket
  <2>2. \A k \in DOMAIN written : written[k].id \in Nat
    BY EntryFacts DEF Entries
  <2> QED
    BY <2>1, <2>2, HookAssumption DEF TypeInv, HookTypeOK
<1>1. Counted(c)
  BY DEF CountInv
<1>2. CASE \E size \in Lens, ends \in BOOLEAN : Lose(size, ends)
  <2>1. UNCHANGED <<written, pc, skb>> /\ ddu'.sent = ddu.sent + 1 /\ lost' = lost + 1
    BY <1>2 DEF Lose, NextPacket, cpus, ghosts
  <2>2. \A x \in 0 .. lost : x \in 0 .. lost + 1
    BY <1>0
  <2>3. /\ \A k \in DOMAIN written : written[k].id - k \in 0 .. lost + 1
        /\ InHand(c) => skb[c].id - (Len(written) + 1) \in 0 .. lost + 1
    BY <1>1, <2>2 DEF Counted
  <2>4. ddu'.sent = Len(written) + (lost + 1) + (IF InHand(c) THEN 1 ELSE 0)
    BY <1>0, <1>1, <2>1 DEF Counted
  <2> QED
    BY <1>1, <2>1, <2>3, <2>4 DEF Counted, InHand
<1>3. CASE \E size \in Lens, ends \in BOOLEAN : Receive(c, size, ends)
  <2>1. /\ UNCHANGED <<written, lost>> /\ ddu'.sent = ddu.sent + 1
        /\ pc[c] = "idle" /\ pc'[c] = "lock" /\ skb'[c].id = ddu.sent + 1
    BY <1>0, <1>3 DEF Receive, NextPacket, ghosts
  <2>2. ddu.sent = Len(written) + lost /\ ~ InHand(c) /\ InHand(c)'
    BY <1>0, <1>1, <2>1 DEF Counted, InHand
  <2>3. /\ ddu'.sent = Len(written) + lost + 1
        /\ skb'[c].id - (Len(written) + 1) = lost /\ lost \in 0 .. lost
    BY <1>0, <2>1, <2>2
  <2>4. \A k \in DOMAIN written : written[k].id - k <= lost
    BY <1>1 DEF Counted
  <2> QED
    BY <1>1, <2>1, <2>2, <2>3, <2>4 DEF Counted
<1>4. CASE Switch \/ ResetStep \/ UNCHANGED hookVars
  <2>1. UNCHANGED <<ddu, lost, written, skb, pc>>
    BY <1>4 DEF Switch, SwitchPmissing, SwitchEevent, RaisePmissing, LowerPmissing, RaiseEevent,
                LowerEevent, ResetStep, ResetBuf, ResetRing, ResetLoop,
                ResetProc, ResetTail, hookVars, env, cpus, ghosts
  <2> QED
    BY <1>1, <2>1 DEF Counted, InHand
<1>5. ASSUME UNCHANGED <<ddu, lost, written, skb>>, InHand(c), InHand(c)' PROVE Counted(c)'
  BY <1>1, <1>5 DEF Counted
<1>6. ASSUME UNCHANGED <<ddu, lost, written>>, ~ InHand(c), ~ InHand(c)' PROVE Counted(c)'
  BY <1>1, <1>6 DEF Counted
<1>7. ASSUME UNCHANGED <<ddu, lost>>, InHand(c), ~ InHand(c)',
             written' = Append(written, EntryOf(skb[c], masks[c], buf_pnt_2, ring_pnt_2, ring_loop_2))
      PROVE  Counted(c)'
  <2>1. /\ UNCHANGED <<ddu, lost>> /\ InHand(c) /\ ~ InHand(c)'
        /\ written' = Append(written, EntryOf(skb[c], masks[c], buf_pnt_2, ring_pnt_2, ring_loop_2))
    BY <1>7
  <2>2. /\ Len(written') = Len(written) + 1 /\ DOMAIN written' = 1 .. Len(written) + 1
        /\ \A k \in DOMAIN written : written'[k] = written[k]
        /\ written'[Len(written) + 1].id = skb[c].id
    BY <1>0, <2>1 DEF EntryOf
  <2>3. \A k \in DOMAIN written' : k \in DOMAIN written \/ k = Len(written) + 1
    BY <1>0, <2>2
  <2>4. \A k \in DOMAIN written' : written'[k].id - k \in 0 .. lost
    BY <1>1, <2>1, <2>2, <2>3 DEF Counted
  <2>5. ASSUME NEW i \in DOMAIN written', NEW k \in DOMAIN written', i < k
        PROVE  written'[i].id - i <= written'[k].id - k
    <3>1. i \in DOMAIN written
      BY <1>0, <2>2, <2>3, <2>5
    <3>2. CASE k \in DOMAIN written
      BY <1>1, <2>2, <2>5, <3>1, <3>2 DEF Counted
    <3>3. CASE k = Len(written) + 1
      BY <1>1, <2>1, <2>2, <3>1, <3>3 DEF Counted
    <3> QED
      BY <2>3, <3>2, <3>3
  <2> QED
    <3>1. ddu'.sent = Len(written') + lost' + (IF InHand(c)' THEN 1 ELSE 0)
      <4>1. PICK n \in Nat, l \in Nat : n = Len(written) /\ l = lost
        BY <1>0
      <4>2. ddu.sent = n + l + 1
        BY <1>1, <2>1, <4>1 DEF Counted
      <4>3. n + l + 1 = (n + 1) + l + 0
        OBVIOUS
      <4> QED
        BY <2>1, <2>2, <4>1, <4>2, <4>3
    <3> QED
      BY <2>1, <2>4, <2>5, <3>1 DEF Counted
<1>8. CASE HookStep(c)
  <2>1. CASE Lock(c) \/ CopyData(c) \/ Classify(c) \/ PutWord(c) \/ PutLength(c)
    <3>1. UNCHANGED <<ddu, lost, written, skb>> /\ InHand(c) /\ InHand(c)'
      BY <1>0, <2>1 DEF Lock, CopyData, Classify, PutWord, PutLength, env, ghosts, InHand
    <3> QED
      BY <1>5, <3>1
  <2>2. CASE PutTail(c)
    <3>1. UNCHANGED <<ddu, lost, written>> /\ ~ InHand(c) /\ ~ InHand(c)'
      BY <1>0, <2>2 DEF PutTail, env, ghosts, InHand
    <3> QED
      BY <1>6, <3>1
  <2>3. CASE Advance(c)
    <3>1. /\ UNCHANGED <<ddu, lost>> /\ InHand(c) /\ ~ InHand(c)'
          /\ written' = Append(written, EntryOf(skb[c], masks[c], buf_pnt_2, ring_pnt_2, ring_loop_2))
      BY <1>0, <2>3 DEF Advance, env, InHand
    <3> QED
      BY <1>7, <3>1
  <2> QED
    BY <1>8, <2>1, <2>2, <2>3 DEF HookStep
<1>9. CASE RacedStep(c)
  <2>1. PICK falls : \/ RacedCopy(c, falls) \/ RacedClassify(c, falls) \/ RacedWord(c, falls)
                     \/ RacedAdvance(c, falls) \/ RacedTail(c, falls)
    BY <1>9 DEF RacedStep
  <2>2. UNCHANGED <<ddu, lost>>
    BY <1>9 DEF RacedStep, env
  <2>3. CASE RacedCopy(c, falls) \/ RacedClassify(c, falls) \/ RacedWord(c, falls)
    <3>1. UNCHANGED <<written, skb>> /\ InHand(c) /\ InHand(c)'
      BY <1>0, <2>3 DEF RacedCopy, RacedClassify, RacedWord, ghosts, InHand
    <3> QED
      BY <1>5, <2>2, <3>1
  <2>4. CASE RacedAdvance(c, falls)
    <3>1. /\ InHand(c) /\ ~ InHand(c)'
          /\ written' = Append(written, EntryOf(skb[c], masks[c], buf_pnt_2, ring_pnt_2, ring_loop_2))
      BY <1>0, <2>4 DEF RacedAdvance, InHand
    <3> QED
      BY <1>7, <2>2, <3>1
  <2>5. CASE RacedTail(c, falls)
    <3>1. written' = written /\ ~ InHand(c) /\ ~ InHand(c)'
      BY <1>0, <2>5 DEF RacedTail, ghosts, InHand
    <3> QED
      BY <1>6, <2>2, <3>1
  <2> QED
    BY <2>1, <2>3, <2>4, <2>5
<1> QED
  BY <1>2, <1>3, <1>4, <1>8, <1>9 DEF DriverNext, Environment

\* With one CPU, fewer losses than the counter counts are seen.
LEMMA CountUnaliased ==
  ASSUME TypeInv, CountInv, NEW c \in CPUs, CPUs = {c}, MaxLost < CtrMod
  PROVE  Unaliased
<1> SUFFICES ASSUME NEW k \in 1 .. Len(written) - 1,
                    (written[k + 1].id - written[k].id) % CtrMod = 1
             PROVE  written[k + 1].id = written[k].id + 1
  BY DEF Unaliased
<1>1. /\ Len(written) \in Nat /\ DOMAIN written = 1 .. Len(written)
      /\ k \in DOMAIN written /\ k + 1 \in DOMAIN written
      /\ lost \in 0 .. MaxLost /\ MaxLost \in Nat /\ CtrMod \in Nat \ {0, 1}
  BY HookAssumption DEF TypeInv, HookTypeOK
<1>2. written[k].id \in Nat /\ written[k + 1].id \in Nat
  <2>1. written[k] \in Entries /\ written[k + 1] \in Entries
    BY <1>1, EntryFacts
  <2>2. \A e \in Entries : e.id \in Nat
    BY DEF Entries
  <2> QED
    BY <2>1, <2>2
<1>3. PICK d \in Int : d = written[k + 1].id - written[k].id - 1
  BY <1>2
<1>4. /\ written[k].id - k \in 0 .. lost /\ written[k + 1].id - (k + 1) \in 0 .. lost
      /\ written[k].id - k <= written[k + 1].id - (k + 1)
  <2>1. k < k + 1 /\ Counted(c)
    BY <1>1 DEF CountInv
  <2> QED
    BY <1>1, <2>1 DEF Counted
<1>5. d \in 0 .. CtrMod - 1
  <2>1. PICK a \in Nat, b \in Nat : a = written[k].id /\ b = written[k + 1].id
    BY <1>2
  <2>2. a - k >= 0 /\ b - (k + 1) <= lost /\ a - k <= b - (k + 1) /\ k \in Nat /\ lost \in Nat
    BY <1>1, <1>4, <2>1
  <2>3. d = b - a - 1
    BY <1>3, <2>1
  <2>4. lost <= MaxLost /\ MaxLost < CtrMod /\ MaxLost \in Nat /\ CtrMod \in Nat
    BY <1>1
  <2> QED
    BY <2>2, <2>3, <2>4
<1>6. CASE d = CtrMod - 1
  <2>1. d + 1 = CtrMod * 1 + 0 /\ 0 \in 0 .. CtrMod - 1 /\ d + 1 \in Int
    BY <1>1, <1>6
  <2>2. (d + 1) % CtrMod = 0
    BY <1>1, <2>1, ModUnique
  <2> QED
    BY <1>2, <1>3, <2>2
<1>7. CASE d # CtrMod - 1
  <2>1. d + 1 = CtrMod * 0 + (d + 1) /\ d + 1 \in 0 .. CtrMod - 1 /\ d + 1 \in Int
    BY <1>1, <1>5, <1>7
  <2>2. (d + 1) % CtrMod = d + 1
    BY <1>1, <2>1, ModUnique
  <2>3. written[k + 1].id - written[k].id = d + 1
    BY <1>2, <1>3
  <2>4. d = 0
    BY <2>2, <2>3
  <2> QED
    BY <1>2, <1>3, <2>4
<1> QED
  BY <1>6, <1>7

(* Then no gap goes unseen.                                                *)
THEOREM NoGapUnseen ==
  ASSUME NEW c \in CPUs, CPUs = {c}, MaxLost < CtrMod
  PROVE  DriverSpec => []Unaliased
<1>1. HookInit => CountInv
  <2> SUFFICES ASSUME HookInit PROVE CountInv
    OBVIOUS
  <2>1. /\ Len(written) = 0 /\ DOMAIN written = {} /\ lost = 0 /\ ddu.sent = 0
        /\ \A d \in CPUs : ~ InHand(d)
    BY DEF HookInit, InHand
  <2> QED
    BY <2>1 DEF CountInv, Counted
<1>2. TypeInv /\ CountInv /\ [DriverNext]_hookVars => CountInv'
  BY CountNext
<1>3. TypeInv /\ CountInv => Unaliased
  BY CountUnaliased
<1> QED
  BY <1>1, <1>2, <1>3, TypeInvariant, PTL DEF DriverSpec

-----------------------------------------------------------------------------
(***************************************************************************)
(* What the reader knows of the event it is in. Packet j is the next one   *)
(* that it reads; those of the present call are the ones just before it.   *)
(***************************************************************************)
Pos(j) == buf_pnt = Off(j) /\ ring_pnt = Slot(j) /\ ring_loop = Lap(j)

(* Packets s to e are consecutive ones of one event; if an event starts at *)
(* s then it is the whole of it so far. Of the event that the very first   *)
(* packet is in, no more can be known.                                     *)
Together(s, e) ==
  \A k \in s .. e :
    /\ written[k].id = written[s].id + (k - s)
    /\ written[k].first = IF s = 1 THEN written[1].first ELSE written[s].id

(* Packets s to e are consecutive ones of one event.                       *)
Alike(s, e) ==
  \A k \in s .. e : written[k].id = written[s].id + (k - s) /\ written[k].first = written[s].first

(* Packet s is the first one of an event.                                  *)
Starts(s) == s = 1 \/ written[s - 1].eevent

(* The flags that end a call.                                              *)
Status ==
  /\ packets = Len(ids)
  /\ rpc # "returned" =>
       NoFalseAlarm /\ "EndOfEventMissing" \in theErrorFlag /\ "Timeout" \notin theErrorFlag
  /\ ~ NoFalseAlarm \/ "Timeout" \in theErrorFlag => "EndOfEventMissing" \in theErrorFlag

(* What the present call has read, its flags, and the length: it is 0 once *)
(* a gap was seen, or if one was seen in the same event by an earlier call *)
(* (insideEventWithMissingPackets), and otherwise that of all its packets. *)
CallOf(j) ==
  LET m == j - Len(ids)
  IN  /\ m >= 1
      /\ \A i \in 1 .. Len(ids) : ids[i] = written[m - 1 + i].id
      /\ \A k \in m .. j - 2 : ~ written[k].eevent
      /\ "EndOfEventMissing" \in theErrorFlag =>
           (ids # <<>> => ~ written[j - 1].eevent)
      /\ "EndOfEventMissing" \notin theErrorFlag =>
           ids # <<>> /\ written[j - 1].eevent /\ ~ insideEventWithMissingPackets
      /\ "PacketsMissing" \in theErrorFlag <=> \E k \in m .. j - 1 : written[k].missing
      /\ "PacketsMissing" \in theErrorFlag =>
           len = 0 /\ ("EndOfEventMissing" \in theErrorFlag => insideEventWithMissingPackets)
      /\ "PacketsMissing" \notin theErrorFlag =>
           /\ Alike(m, j - 1)
           /\ len \in {0, Total([i \in 1 .. Len(ids) |-> written[m - 1 + i].len])}
           /\ "EndOfEventMissing" \in theErrorFlag /\ ~ insideEventWithMissingPackets =>
                len = Total([i \in 1 .. Len(ids) |-> written[m - 1 + i].len])
      /\ fresh => Starts(m)
      /\ fresh /\ "PacketsMissing" \notin theErrorFlag =>
           /\ ~ insideEventWithMissingPackets
           /\ Together(m, j - 1)
           /\ len = Total([i \in 1 .. Len(ids) |-> written[m - 1 + i].len])

(* The event that the reader is in, over any number of calls.              *)
EventOf(j) ==
  \E s \in 1 .. j :
    /\ Starts(s)
    /\ \A k \in s .. j - 1 : ~ written[k].eevent
    /\ insideEventWithMissingPackets <=> \E k \in s .. j - 1 : written[k].missing
    /\ ~ insideEventWithMissingPackets => Together(s, j - 1)

(* Packets s to e are all of an event up to the last of them.              *)
Sound(s, e) ==
  /\ Starts(s) /\ Together(s, e)
  /\ \A k \in s .. e : ~ written[k].missing
  /\ \A k \in s .. e - 1 : ~ written[k].eevent

(* Data is handed over only of an event that is complete up to its end.    *)
Handed(j) ==
  len > 0 /\ ids # <<>> => \E s \in 1 .. j - Len(ids) : Sound(s, j - 1)

Account(j) ==
  /\ Status
  /\ NoFalseAlarm => CallOf(j)
  /\ Pace = "samelap" => EventOf(j) /\ Handed(j)

EventInv ==
  Trusted /\ Pace # "free" => \E j \in Places1 : Pos(j) /\ Account(j)

(* There is only one position where the reader can be.                     *)
LEMMA OnePosition ==
  ASSUME TypeInv, OrderParts, NEW i \in Places1, NEW j \in Places1, Pos(i), Pos(j)
  PROVE  i = j
<1>1. i \in Int /\ j \in Int
  BY DEF Places1
<1>2. ASSUME NEW a \in Places1, NEW b \in Places1, Pos(a), Pos(b), a < b PROVE FALSE
  <2>1. Lap(a) = Lap(b) /\ a <= b /\ Slot(a) = Slot(b) /\ Slot(a) \in Nat
    BY <1>2, PositionTypes DEF Pos, Places1
  <2>2. Slot(a) < Slot(b)
    BY <1>2, <2>1, LapsBefore
  <2> QED
    BY <2>1, <2>2
<1> QED
  BY <1>1, <1>2

(* One more packet that follows keeps an event together.                   *)
LEMMA TogetherGrows ==
  ASSUME TypeInv, OrderParts, Trusted, FlagsInv, NEW j \in DOMAIN written, NEW s \in 1 .. j,
         Together(s, j - 1), Starts(s), \A k \in s .. j - 1 : ~ written[k].eevent,
         ~ written[j].missing
  PROVE  Together(s, j)
<1>0. j \in Nat /\ j >= 1 /\ s \in Nat /\ s >= 1
  BY DEF TypeInv, HookTypeOK
<1>1. \A k \in s .. j : k \in s .. j - 1 \/ k = j
  BY <1>0
<1>2. written[j].id \in Nat /\ written[s].id \in Nat
  <2>1. s \in DOMAIN written
    BY <1>0 DEF TypeInv, HookTypeOK
  <2>2. \A e \in Entries : e.id \in Nat
    BY DEF Entries
  <2> QED
    BY <2>1, <2>2, EntryFacts
<1>3. CASE s = j
  <2>1. written[j].id = written[s].id + (j - s)
    BY <1>0, <1>2, <1>3
  <2>2. j # 1 => written[j].first = written[j].id
    BY <1>0, <1>3, FlagsTell DEF Starts
  <2>3. s .. j - 1 = {}
    BY <1>0, <1>3
  <2> QED
    BY <1>1, <1>3, <2>1, <2>2, <2>3 DEF Together
<1>4. CASE s # j
  <2>1. j > 1 /\ j - 1 \in s .. j - 1
    BY <1>0, <1>4
  <2>2. written[j].id = written[j - 1].id + 1 /\ written[j].first = written[j - 1].first
    BY <2>1, FlagsTell
  <2>3. /\ written[j - 1].id = written[s].id + (j - 1 - s)
        /\ written[j - 1].first = IF s = 1 THEN written[1].first ELSE written[s].id
    BY <2>1 DEF Together
  <2>4. written[j].id = written[s].id + (j - s)
    BY <1>0, <1>2, <2>2, <2>3
  <2> QED
    BY <1>1, <2>2, <2>3, <2>4 DEF Together
<1> QED
  BY <1>3, <1>4

\* The same of packets that are alike.
LEMMA AlikeGrows ==
  ASSUME TypeInv, OrderParts, Trusted, FlagsInv, NEW j \in DOMAIN written, NEW s \in 1 .. j,
         Alike(s, j - 1), \A k \in s .. j - 1 : ~ written[k].eevent,
         ~ written[j].missing
  PROVE  Alike(s, j)
<1>0. j \in Nat /\ j >= 1 /\ s \in Nat /\ s >= 1
  BY DEF TypeInv, HookTypeOK
<1>1. \A k \in s .. j : k \in s .. j - 1 \/ k = j
  BY <1>0
<1>2. written[j].id \in Nat /\ written[s].id \in Nat
  <2>1. s \in DOMAIN written
    BY <1>0 DEF TypeInv, HookTypeOK
  <2>2. \A e \in Entries : e.id \in Nat
    BY DEF Entries
  <2> QED
    BY <2>1, <2>2, EntryFacts
<1>3. CASE s = j
  <2>1. written[j].id = written[s].id + (j - s) /\ s .. j - 1 = {}
    BY <1>0, <1>2, <1>3
  <2> QED
    BY <1>1, <1>3, <2>1 DEF Alike
<1>4. CASE s # j
  <2>1. j > 1 /\ j - 1 \in s .. j - 1
    BY <1>0, <1>4
  <2>2. written[j].id = written[j - 1].id + 1 /\ written[j].first = written[j - 1].first
    BY <2>1, FlagsTell
  <2>3. written[j - 1].id = written[s].id + (j - 1 - s) /\ written[j - 1].first = written[s].first
    BY <2>1 DEF Alike
  <2>4. written[j].id = written[s].id + (j - s)
    BY <1>0, <1>2, <2>2, <2>3
  <2> QED
    BY <1>1, <2>2, <2>3, <2>4 DEF Alike
<1> QED
  BY <1>3, <1>4

(* Packets that are written later do not matter.                           *)
LEMMA AccountStays ==
  ASSUME UNCHANGED readerVars, NEW j \in Int,
         \A k \in 1 .. j - 1 : written'[k] = written[k],
         Account(j), 1 <= j, ids \in Seq(Nat)
  PROVE  Account(j)'
<1>1. UNCHANGED <<rpc, packets, ids, len, theErrorFlag, insideEventWithMissingPackets, fresh>>
  BY DEF readerVars, callResult
<1>2. Status' /\ (NoFalseAlarm' <=> NoFalseAlarm)
  BY <1>1 DEF Account, Status, NoFalseAlarm
<1>3. ASSUME NEW s \in Int, s >= 1, s <= j
      PROVE  /\ Starts(s)' <=> Starts(s)
             /\ Together(s, j - 1)' <=> Together(s, j - 1)
             /\ Alike(s, j - 1)' <=> Alike(s, j - 1)
             /\ Sound(s, j - 1)' <=> Sound(s, j - 1)
             /\ \A k \in s .. j - 1 : written'[k] = written[k]
  <2>1. \A k \in s .. j - 1 : /\ written'[k] = written[k] /\ written'[s] = written[s]
                              /\ written'[1] = written[1]
    BY <1>3
  <2>2. Starts(s)' <=> Starts(s)
    BY <1>3 DEF Starts
  <2>3. /\ Together(s, j - 1)' <=> Together(s, j - 1)
        /\ Alike(s, j - 1)' <=> Alike(s, j - 1)
    BY <2>1 DEF Together, Alike
  <2>4. \A k \in s .. (j - 1) - 1 : written'[k] = written[k]
    BY <1>3
  <2>5. Sound(s, j - 1)' <=> Sound(s, j - 1)
    BY <2>1, <2>2, <2>3, <2>4 DEF Sound
  <2> QED
    BY <2>1, <2>2, <2>3, <2>5
<1>0. Len(ids) \in Nat
  OBVIOUS
<1>4. ASSUME NoFalseAlarm PROVE CallOf(j)'
  <2>1. CallOf(j)
    BY <1>4 DEF Account
  <2>2. PICK m \in Int : m = j - Len(ids) /\ m >= 1 /\ m <= j
    <3>1. j - Len(ids) >= 1
      BY <2>1 DEF CallOf
    <3>2. j - Len(ids) \in Int /\ j - Len(ids) <= j
      BY <1>0
    <3> QED
      BY <3>1, <3>2
  <2>3. \A i \in 1 .. Len(ids) : m - 1 + i \in 1 .. j - 1
    BY <1>0, <2>2
  <2>4. [i \in 1 .. Len(ids') |-> written'[m - 1 + i].len] = [i \in 1 .. Len(ids) |-> written[m - 1 + i].len]
    BY <1>1, <2>3
  <2>5. \A i \in 1 .. Len(ids) : ids[i] = written'[m - 1 + i].id
    BY <2>1, <2>2, <2>3 DEF CallOf
  <2>6. \A k \in m .. j - 1 : written'[k] = written[k]
    BY <1>3, <2>2
  <2>7. \A k \in m .. j - 2 : k \in m .. j - 1
    BY <2>2
  <2>8. ids # <<>> => j - 1 \in m .. j - 1
    BY <1>0, <2>2
  <2> QED
    BY <1>1, <1>3, <2>1, <2>2, <2>4, <2>5, <2>6, <2>7, <2>8 DEF CallOf
<1>5. ASSUME EventOf(j) PROVE EventOf(j)'
  <2>1. PICK s \in 1 .. j : /\ Starts(s) /\ \A k \in s .. j - 1 : ~ written[k].eevent
                            /\ insideEventWithMissingPackets <=> \E k \in s .. j - 1 : written[k].missing
                            /\ ~ insideEventWithMissingPackets => Together(s, j - 1)
    BY <1>5 DEF EventOf
  <2>2. /\ Starts(s)' /\ (Together(s, j - 1)' <=> Together(s, j - 1))
        /\ \A k \in s .. j - 1 : written'[k] = written[k]
    BY <1>3, <2>1
  <2> QED
    BY <1>1, <2>1, <2>2 DEF EventOf
<1>6. ASSUME Handed(j) PROVE Handed(j)'
  <2>1. \A s \in 1 .. j - Len(ids) : s \in Int /\ s >= 1 /\ s <= j
    BY <1>0
  <2> QED
    BY <1>1, <1>3, <1>6, <2>1 DEF Handed
<1> QED
  BY <1>2, <1>4, <1>5, <1>6 DEF Account

(* Steps of the driver leave the reader where it is.                       *)
LEMMA AccountDriver ==
  ASSUME SpyInv, SpyInv', Regular, Regular', Pace # "free", UNCHANGED readerVars,
         \/ Arrivals \/ DisableBlock \/ UNCHANGED vars
         \/ \E c \in CPUs : Hook(c),
         NEW j \in Places1, Pos(j), Account(j)
  PROVE  j \in Places1' /\ Pos(j)' /\ Account(j)'
<1>1. /\ Len(written) \in Nat /\ DOMAIN written = 1 .. Len(written) /\ TypeInv /\ Mutex
      /\ ids \in Seq(Nat)
  BY SpyFacts DEF ReaderTypeOK
<1>2. UNCHANGED <<buf_pnt, ring_pnt, ring_loop>>
  BY DEF readerVars, position
<1>3. CASE UNCHANGED <<written, positions, lap>>
  <2>1. j \in Places1' /\ Pos(j)'
    BY <1>2, <1>3 DEF Places1, Pos, Off, Slot, Lap, positions
  <2> QED
    BY <1>1, <1>3, <2>1, AccountStays DEF Places1
<1>4. CASE \E c \in CPUs : Advance(c)
  <2>1. PICK c \in CPUs : Advance(c)
    BY <1>4
  <2>2. PICK W \in Nat : W = Len(written)
    BY <1>1
  <2>3. /\ DOMAIN written = 1 .. W /\ DOMAIN written' = 1 .. W + 1 /\ Len(written') = W + 1
        /\ \A k \in 1 .. W : written'[k] = written[k]
        /\ \A k \in 1 .. W + 1 : Off(k)' = Off(k) /\ Slot(k)' = Slot(k) /\ Lap(k)' = Lap(k)
    BY <1>1, <2>1, <2>2, Moves
  <2>4. j \in 1 .. W + 1 /\ j \in 1 .. W + 2 /\ \A k \in 1 .. j - 1 : k \in 1 .. W
    BY <2>2 DEF Places1
  <2>5. j \in Places1' /\ Pos(j)'
    BY <1>2, <2>3, <2>4 DEF Places1, Pos
  <2> QED
    BY <1>1, <2>3, <2>4, <2>5, AccountStays
<1>5. (\E c \in CPUs : Advance(c)) \/ UNCHANGED <<written, positions, lap>>
  <2>1. CASE Arrivals \/ DisableBlock \/ UNCHANGED vars
    BY <2>1 DEF Arrivals, Environment, Receive, Lose, DisableBlock, SwitchPmissing, RaisePmissing,
              LowerPmissing, vars, hookVars, ghosts
  <2>2. CASE \E c \in CPUs : Hook(c)
    <3>1. PICK c \in CPUs : Hook(c)
      BY <2>2
    <3> QED
      BY <3>1 DEF Hook, PacedLock, Lock, CopyData, Classify, PutWord, PutLength, PutTail, ghosts
  <2> QED
    BY <2>1, <2>2
<1> QED
  BY <1>3, <1>4, <1>5

(* The next call starts where the last one stopped.                        *)
LEMMA AccountCall ==
  ASSUME SpyInv, UNCHANGED hookVars, Call, NEW j \in Places1, Account(j)
  PROVE  Account(j)'
<1>0. j \in Int /\ j >= 1 /\ written' = written /\ ids \in Seq(Nat)
  BY SpyFacts, DriverStays DEF Places1, ReaderTypeOK
<1>1. /\ ids' = <<>> /\ Len(ids') = 0 /\ packets' = 0 /\ len' = 0 /\ rpc' = "tail"
      /\ theErrorFlag' = {"EndOfEventMissing"}
      /\ insideEventWithMissingPackets' = insideEventWithMissingPackets
  BY DEF Call
<1>2. Status' /\ NoFalseAlarm'
  BY <1>1 DEF Status, NoFalseAlarm
<1>3. /\ 1 .. Len(ids') = {} /\ j - Len(ids') = j
      /\ j .. j - 1 = {} /\ j .. j - 2 = {}
  BY <1>0, <1>1
<1>4. fresh' => Starts(j) /\ ~ insideEventWithMissingPackets
  <2>1. CASE "EndOfEventMissing" \notin theErrorFlag
    <3>1. CallOf(j)
      BY <2>1 DEF Account, Status
    <3> QED
      BY <2>1, <3>1 DEF CallOf, Starts
  <2>2. CASE fresh /\ packets = 0 /\ NoFalseAlarm
    <3>1. CallOf(j) /\ Len(ids) = 0
      BY <2>2 DEF Account, Status
    <3>2. j - Len(ids) = j /\ j .. j - 1 = {}
      BY <1>0, <3>1
    <3> QED
      BY <2>2, <3>1, <3>2 DEF CallOf
  <2> QED
    BY <2>1, <2>2 DEF Call, NoFalseAlarm
<1>5. CallOf(j)'
  <2>1. Total([i \in 1 .. Len(ids') |-> written'[j - Len(ids') - 1 + i].len]) = 0
    <3>1. [i \in 1 .. Len(ids') |-> written'[j - Len(ids') - 1 + i].len] = <<>>
      BY <1>1, <1>3
    <3> QED
      BY <3>1, TotalOfNone
  <2>2. fresh' => Starts(j)'
    BY <1>0, <1>4 DEF Starts
  <2>3. Together(j, j - 1)' /\ Alike(j, j - 1)'
    BY <1>3 DEF Together, Alike
  <2> QED
    BY <1>0, <1>1, <1>3, <1>4, <2>1, <2>2, <2>3 DEF CallOf
<1>6. EventOf(j) => EventOf(j)'
  <2>1. \A s, e : Together(s, e)' <=> Together(s, e)
    BY <1>0 DEF Together
  <2>2. \A s : Starts(s)' <=> Starts(s)
    BY <1>0 DEF Starts
  <2> QED
    BY <1>0, <1>1, <2>1, <2>2 DEF EventOf
<1>7. Handed(j)'
  BY <1>1 DEF Handed
<1> QED
  BY <1>2, <1>5, <1>6, <1>7 DEF Account

(* Looking for data, or giving up for want of it.                          *)
LEMMA AccountLook ==
  ASSUME UNCHANGED hookVars, Timeout \/ Idle \/ SeeData \/ ReadWord \/ ReadLength,
         NEW j \in Places1, Account(j)
  PROVE  Account(j)'
<1>1. /\ UNCHANGED <<ids, packets, len, insideEventWithMissingPackets, fresh>>
      /\ written' = written /\ rpc # "returned"
  BY DriverStays DEF Timeout, Idle, SeeData, ReadWord, ReadLength, callResult
<1>2. /\ theErrorFlag' \in {theErrorFlag, theErrorFlag \cup {"Timeout"}}
      /\ rpc' # "returned" => theErrorFlag' = theErrorFlag
  BY DEF Timeout, Idle, SeeData, ReadWord, ReadLength, callResult
<1>3. /\ NoFalseAlarm' /\ NoFalseAlarm
      /\ "EndOfEventMissing" \in theErrorFlag /\ "EndOfEventMissing" \in theErrorFlag'
      /\ "PacketsMissing" \in theErrorFlag' <=> "PacketsMissing" \in theErrorFlag
  BY <1>1, <1>2 DEF Account, Status, NoFalseAlarm
<1>4. Status'
  BY <1>1, <1>2, <1>3 DEF Account, Status
<1>5. CallOf(j)'
  BY <1>1, <1>3 DEF Account, CallOf, Starts, Together, Alike
<1>6. EventOf(j) => EventOf(j)'
  BY <1>1 DEF EventOf, Starts, Together
<1>7. Handed(j) => Handed(j)'
  BY <1>1 DEF Handed, Sound, Starts, Together
<1> QED
  BY <1>3, <1>4, <1>5, <1>6, <1>7 DEF Account

(* Giving up the position: the flags say so, and only a reader that does   *)
(* not stay in the driver's lap ever does.                                 *)
LEMMA AccountResync ==
  ASSUME SpyInv, SpyInv', Regular', Pace # "free",
         BufferOverwrite \/ LoopOverwrite,
         NEW i \in Places1, Account(i), NEW j \in Places1', InStep(j)'
  PROVE  Account(j)'
<1>1. /\ UNCHANGED <<ids, packets>> /\ rpc' = "returned" /\ rpc = "loop"
      /\ theErrorFlag' \in {theErrorFlag \cup {"BufferOverwrite"}, theErrorFlag \cup {"LoopOverwrite"}}
  BY DEF BufferOverwrite, LoopOverwrite, Resync
<1>2. ~ NoFalseAlarm'
  BY <1>1 DEF NoFalseAlarm
<1>3. Status'
  BY <1>1 DEF Account, Status
<1>4. Pace # "samelap"
  BY <1>2 DEF InStep
<1> QED
  BY <1>2, <1>3, <1>4 DEF Account

(* Taking packet j.                                                        *)
LEMMA CallGrows ==
  ASSUME SpyInv, FlagsInv, Trusted, OrderParts, UNCHANGED hookVars, Consume,
         NEW j \in Places1, At(j), NoFalseAlarm, Status, CallOf(j)
  PROVE  CallOf(j + 1)'
<1>0. /\ j \in Int /\ written' = written /\ ids \in Seq(Nat) /\ TypeInv /\ Regular /\ rpc = "loop"
      /\ Len(ids) \in Nat /\ len \in Nat /\ entryLen \in Nat
      /\ "EndOfEventMissing" \in theErrorFlag
  BY SpyFacts, DriverStays DEF Places1, ReaderTypeOK, Trusted, Consume, Status
<1>1. /\ j \in DOMAIN written /\ entry.eevent = written[j].eevent
      /\ entry.missing = written[j].missing /\ entry.id = written[j].id /\ entryLen = written[j].len
  BY <1>0, Loaded
<1>2. PICK n \in Nat : n = Len(ids)
  BY <1>0
<1>3. PICK m \in Int : m = j - n /\ m >= 1
  <2>1. j - n >= 1
    BY <1>2 DEF CallOf
  <2>2. j - n \in Int
    BY <1>0
  <2> QED
    BY <2>1, <2>2
<1>4. /\ Len(ids') = n + 1 /\ ids' # <<>> /\ (j + 1) - Len(ids') = m
      /\ \A i \in 1 .. n : ids'[i] = ids[i]
      /\ ids'[n + 1] = written[j].id
  <2>1. ids' = Append(ids, written[j].id) /\ written[j].id \in Nat
    <3>1. entry \in Words
      BY SpyFacts DEF ReaderTypeOK
    <3>2. entry.id \in Nat
      BY <3>1 DEF Words
    <3> QED
      BY <1>1, <3>2 DEF Consume
  <2> QED
    BY <1>0, <1>2, <1>3, <2>1
<1>5. \A i \in 1 .. n + 1 : ids'[i] = written[m - 1 + i].id
  <2> TAKE i \in 1 .. n + 1
  <2>1. CASE i \in 1 .. n
    BY <1>2, <1>3, <1>4, <2>1 DEF CallOf
  <2>2. CASE i = n + 1
    <3>1. m - 1 + i = j
      BY <1>0, <1>3, <2>2
    <3> QED
      BY <1>4, <2>2, <3>1
  <2> QED
    BY <1>2, <2>1, <2>2
<1>6. \A k \in m .. j - 1 : ~ written[k].eevent
  <2> TAKE k \in m .. j - 1
  <2>1. CASE k = j - 1
    <3>1. n # 0
      BY <1>0, <1>3, <2>1
    <3> QED
      BY <1>0, <1>2, <2>1, <3>1 DEF CallOf
  <2>2. CASE k # j - 1
    <3>1. k \in m .. j - 2
      BY <1>0, <1>3, <2>2
    <3> QED
      BY <1>2, <1>3, <3>1 DEF CallOf
  <2> QED
    BY <2>1, <2>2
<1>7. /\ theErrorFlag' = ((theErrorFlag \cup (IF len + entryLen > MaxEvent THEN {"Oversized"} ELSE {})
                            \cup (IF entry.missing THEN {"PacketsMissing"} ELSE {}))
                          \ (IF entry.eevent THEN {"EndOfEventMissing"} ELSE {}))
      /\ insideEventWithMissingPackets' =
           ((entry.missing \/ insideEventWithMissingPackets) /\ ~ entry.eevent)
      /\ fresh' = fresh
      /\ len' = IF entry.missing \/ insideEventWithMissingPackets THEN 0 ELSE len + entryLen
  BY DEF Consume, StaysDefective, Defective
<1>8. "EndOfEventMissing" \in theErrorFlag' <=> ~ written[j].eevent
  BY <1>0, <1>1, <1>7
<1>9. "PacketsMissing" \in theErrorFlag' <=> \E k \in m .. j : written[k].missing
  <2>1. "PacketsMissing" \in theErrorFlag' <=> "PacketsMissing" \in theErrorFlag \/ written[j].missing
    BY <1>1, <1>7
  <2>2. "PacketsMissing" \in theErrorFlag <=> \E k \in m .. j - 1 : written[k].missing
    BY <1>2, <1>3 DEF CallOf
  <2>3. \A k : k \in m .. j <=> k \in m .. j - 1 \/ k = j
    BY <1>0, <1>3
  <2> QED
    BY <2>1, <2>2, <2>3
<1>10. fresh => Starts(m)
  BY <1>2, <1>3 DEF CallOf
<1>11. Total([i \in 1 .. n + 1 |-> written[m - 1 + i].len])
         = Total([i \in 1 .. n |-> written[m - 1 + i].len]) + written[j].len
  <2> DEFINE s == [i \in 1 .. n |-> written[m - 1 + i].len]
             t == [i \in 1 .. n + 1 |-> written[m - 1 + i].len]
  <2>1. Len(s) = n /\ Len(t) = n + 1
    BY <1>2
  <2>2. \A k \in 1 .. n : s[k] = t[k]
    BY <1>2
  <2>3. t[n + 1] = written[j].len
    <3>1. m - 1 + (n + 1) = j /\ n + 1 \in 1 .. n + 1
      BY <1>0, <1>2, <1>3
    <3> QED
      BY <3>1
  <2> HIDE DEF s, t
  <2>4. Total(t) = Total(s) + t[n + 1]
    BY <1>2, <2>1, <2>2, TotalOfMore
  <2> QED
    BY <2>3, <2>4 DEF s, t
<1>12. ASSUME fresh, "PacketsMissing" \notin theErrorFlag'
       PROVE  /\ ~ insideEventWithMissingPackets'
              /\ Together(m, j)
              /\ len' = Total([i \in 1 .. n + 1 |-> written[m - 1 + i].len])
  <2>1. "PacketsMissing" \notin theErrorFlag /\ ~ written[j].missing
    BY <1>1, <1>7, <1>12
  <2>2. /\ ~ insideEventWithMissingPackets /\ Together(m, j - 1)
        /\ len = Total([i \in 1 .. n |-> written[m - 1 + i].len])
    BY <1>2, <1>3, <1>12, <2>1 DEF CallOf
  <2>3. Together(m, j)
    <3>1. m \in 1 .. j
      BY <1>0, <1>3
    <3> QED
      BY <1>0, <1>1, <1>6, <1>10, <1>12, <2>1, <2>2, <3>1, TogetherGrows
  <2>4. len' = len + written[j].len
    BY <1>1, <1>7, <2>1, <2>2
  <2> QED
    BY <1>1, <1>7, <1>11, <2>1, <2>2, <2>3, <2>4
<1>13. ASSUME "PacketsMissing" \in theErrorFlag'
       PROVE  len' = 0 /\ ("EndOfEventMissing" \in theErrorFlag' => insideEventWithMissingPackets')
  <2>1. entry.missing \/ insideEventWithMissingPackets
    <3>1. CASE "PacketsMissing" \in theErrorFlag
      BY <1>0, <3>1 DEF CallOf
    <3>2. CASE "PacketsMissing" \notin theErrorFlag
      BY <1>7, <1>13, <3>2
    <3> QED
      BY <3>1, <3>2
  <2> QED
    BY <1>1, <1>7, <1>8, <2>1
<1>14. ASSUME "PacketsMissing" \notin theErrorFlag'
       PROVE  /\ Alike(m, j)
              /\ len' \in {0, Total([i \in 1 .. n + 1 |-> written[m - 1 + i].len])}
              /\ "EndOfEventMissing" \in theErrorFlag' /\ ~ insideEventWithMissingPackets' =>
                   len' = Total([i \in 1 .. n + 1 |-> written[m - 1 + i].len])
  <2>1. "PacketsMissing" \notin theErrorFlag /\ ~ written[j].missing
    BY <1>1, <1>7, <1>14
  <2>2. /\ Alike(m, j - 1)
        /\ ~ insideEventWithMissingPackets =>
             len = Total([i \in 1 .. n |-> written[m - 1 + i].len])
    BY <1>0, <1>2, <1>3, <2>1 DEF CallOf
  <2>3. Alike(m, j)
    <3>1. m \in 1 .. j
      BY <1>0, <1>3
    <3> QED
      BY <1>0, <1>1, <1>6, <2>1, <2>2, <3>1, AlikeGrows
  <2>4. CASE insideEventWithMissingPackets
    BY <1>1, <1>7, <1>8, <2>3, <2>4
  <2>5. CASE ~ insideEventWithMissingPackets
    BY <1>1, <1>7, <1>11, <2>1, <2>2, <2>3, <2>5
  <2> QED
    BY <2>4, <2>5
<1>15. CallOf(j + 1)'
  <2>1. (j + 1) - 1 = j /\ (j + 1) - 2 = j - 1
    BY <1>0
  <2>2. /\ (j + 1)' - Len(ids') = m
        /\ Together(m, j)' <=> Together(m, j)
        /\ Alike(m, j)' <=> Alike(m, j)
        /\ Starts(m)' <=> Starts(m)
    BY <1>0, <1>4 DEF Together, Alike, Starts
  <2>3. "EndOfEventMissing" \notin theErrorFlag' => ~ insideEventWithMissingPackets'
    BY <1>1, <1>7, <1>8
  <2> QED
    BY <1>0, <1>3, <1>4, <1>5, <1>6, <1>7, <1>8, <1>9, <1>10, <1>12, <1>13, <1>14, <2>1, <2>2, <2>3
       DEF CallOf
<1> QED
  BY <1>15

\* A packet that fits is added to the reader's event.
LEMMA EventGrows ==
  ASSUME SpyInv, FlagsInv, Trusted, OrderParts, UNCHANGED hookVars, Consume,
         NEW j \in Places1, At(j), NoFalseAlarm, Status, CallOf(j), EventOf(j)
  PROVE  EventOf(j + 1)' /\ Handed(j + 1)'
<1>0. /\ j \in Int /\ j >= 1 /\ written' = written /\ ids \in Seq(Nat) /\ TypeInv /\ Regular
      /\ rpc = "loop" /\ Len(ids) \in Nat /\ (j + 1) - 1 = j
      /\ "EndOfEventMissing" \in theErrorFlag
  BY SpyFacts, DriverStays DEF Places1, ReaderTypeOK, Trusted, Consume, Status
<1>1. /\ j \in DOMAIN written /\ entry.eevent = written[j].eevent
      /\ entry.missing = written[j].missing /\ entry.id = written[j].id
  BY <1>0, Loaded
<1>2. /\ insideEventWithMissingPackets' =
           ((written[j].missing \/ insideEventWithMissingPackets) /\ ~ written[j].eevent)
      /\ len' > 0 => ~ written[j].missing /\ ~ insideEventWithMissingPackets
      /\ Len(ids') = Len(ids) + 1
  BY <1>0, <1>1 DEF Consume, StaysDefective, Defective
<1>3. PICK s \in 1 .. j :
        /\ Starts(s) /\ \A k \in s .. j - 1 : ~ written[k].eevent
        /\ insideEventWithMissingPackets <=> \E k \in s .. j - 1 : written[k].missing
        /\ ~ insideEventWithMissingPackets => Together(s, j - 1)
  BY DEF EventOf
<1>4. \A k : k \in s .. j <=> k \in s .. j - 1 \/ k = j
  BY <1>0
<1>5. ~ written[j].missing /\ ~ insideEventWithMissingPackets => Together(s, j)
  BY <1>1, <1>3, <1>0, TogetherGrows
<1>6. EventOf(j + 1)'
  <2>1. CASE written[j].eevent
    <3>1. ~ insideEventWithMissingPackets' /\ Starts(j + 1)'
      BY <1>0, <1>2, <2>1 DEF Starts
    <3>2. j + 1 .. j = {} /\ j + 1 \in 1 .. j + 1
      BY <1>0
    <3>3. Together(j + 1, j)'
      BY <3>2 DEF Together
    <3> QED
      BY <1>0, <3>1, <3>2, <3>3 DEF EventOf
  <2>2. CASE ~ written[j].eevent
    <3>1. insideEventWithMissingPackets' <=> written[j].missing \/ insideEventWithMissingPackets
      BY <1>2, <2>2
    <3>2. /\ s \in 1 .. j + 1 /\ Starts(s)' /\ (Together(s, j)' <=> Together(s, j))
      BY <1>0, <1>3 DEF Starts, Together
    <3>3. \A k \in s .. j : ~ written[k].eevent
      BY <1>3, <1>4, <2>2
    <3>4. insideEventWithMissingPackets' <=> \E k \in s .. j : written[k].missing
      BY <1>3, <1>4, <3>1
    <3> QED
      BY <1>0, <1>5, <3>1, <3>2, <3>3, <3>4 DEF EventOf
  <2> QED
    BY <2>1, <2>2
<1>7. Handed(j + 1)'
  <2> SUFFICES ASSUME len' > 0 PROVE Handed(j + 1)'
    BY DEF Handed
  <2>1. Sound(s, j) /\ (Sound(s, j)' <=> Sound(s, j))
    <3>1. ~ written[j].missing /\ ~ insideEventWithMissingPackets
      BY <1>2
    <3>2. Together(s, j) /\ (\A k \in s .. j : ~ written[k].missing)
      BY <1>3, <1>4, <1>5, <3>1
    <3>3. Sound(s, j)
      BY <1>3, <3>2 DEF Sound
    <3> QED
      BY <1>0, <3>3 DEF Sound, Starts, Together
  <2>2. s <= j - Len(ids)
    <3> SUFFICES ASSUME s > j - Len(ids) PROVE FALSE
      BY <1>0
    <3>0. j - Len(ids) >= 1
      BY DEF CallOf
    <3>1. s # 1 /\ s - 1 \in j - Len(ids) .. j - 1 /\ Len(ids) # 0
      BY <1>0, <3>0
    <3>2. written[s - 1].eevent
      BY <1>3, <3>1 DEF Starts
    <3>3. CASE s - 1 = j - 1
      BY <1>0, <3>1, <3>2, <3>3 DEF CallOf
    <3>4. CASE s - 1 # j - 1
      <4>1. s - 1 \in j - Len(ids) .. j - 2
        BY <1>0, <3>1, <3>4
      <4> QED
        BY <3>2, <4>1 DEF CallOf
    <3> QED
      BY <3>3, <3>4
  <2>3. s \in 1 .. (j + 1) - Len(ids')
    BY <1>0, <1>2, <2>2
  <2> QED
    BY <1>0, <2>1, <2>3 DEF Handed
<1> QED
  BY <1>6, <1>7

\* Taking a packet is accounted for.
LEMMA AccountConsume ==
  ASSUME SpyInv, FlagsInv, Trusted, Pace # "free", UNCHANGED hookVars, Consume,
         NEW j \in Places1, At(j), Account(j)
  PROVE  j + 1 \in Places1' /\ Pos(j + 1)' /\ Account(j + 1)'
<1>1. TypeInv /\ OrderParts /\ Regular /\ rpc = "loop"
  BY SpyFacts DEF Trusted, OrderInv, OrderParts, Consume
<1>2. j + 1 \in Places1' /\ Pos(j + 1)'
  BY <1>1, ConsumePosition, DriverStays DEF Pos
<1>3. Status /\ NoFalseAlarm /\ "Timeout" \notin theErrorFlag /\ "EndOfEventMissing" \in theErrorFlag
  BY <1>1 DEF Account, Status
<1>4. Status' /\ NoFalseAlarm'
  <2>1. /\ "Timeout" \notin theErrorFlag' /\ NoFalseAlarm'
        /\ rpc' # "returned" => "EndOfEventMissing" \in theErrorFlag'
    BY <1>3 DEF NoFalseAlarm, Consume
  <2>2. packets' = Len(ids')
    BY <1>3, SpyFacts DEF Consume, Status, ReaderTypeOK
  <2> QED
    BY <2>1, <2>2 DEF Status
<1>5. CallOf(j + 1)'
  BY <1>1, <1>3, CallGrows DEF Account
<1>6. Pace = "samelap" => EventOf(j + 1)' /\ Handed(j + 1)'
  BY <1>1, <1>3, EventGrows DEF Account
<1> QED
  BY <1>2, <1>4, <1>5, <1>6 DEF Account

(***************************************************************************)
(* The invariant.                                                          *)
(***************************************************************************)
LEMMA FlagsInit == Init => FlagsInv /\ EventInv
<1> SUFFICES ASSUME Init PROVE FlagsInv /\ EventInv
  OBVIOUS
<1>1. /\ Len(written) = 0 /\ DOMAIN written = {} /\ flag_eevent_2 = TRUE
      /\ buf_pnt_2 = 0 /\ ring_pnt_2 = 0 /\ lap = 0
      /\ \A c \in CPUs : ~ Past(c) /\ skb[c].id = 0
  BY DEF Init, HookInit, Past, NoPacket
<1>2. Seen = {}
  BY <1>1 DEF Seen
<1>3. GapInv
  BY GapInit DEF Init
<1>4. CutInv /\ EndsInv
  BY <1>1, <1>2 DEF CutInv, EndsInv
<1>5. /\ rpc = "returned" /\ packets = 0 /\ ids = <<>> /\ Len(ids) = 0 /\ len = 0
      /\ theErrorFlag = {"EndOfEventMissing"} /\ insideEventWithMissingPackets = FALSE
      /\ buf_pnt = 0 /\ ring_pnt = 0 /\ ring_loop = 0
  BY DEF Init, ReaderInit
<1>6. /\ 1 \in Places1 /\ 1 - Len(ids) = 1 /\ 1 .. Len(ids) = {} /\ 1 - 1 = 0
      /\ 1 .. 0 = {} /\ 1 .. 1 - 2 = {} /\ 1 \in 1 .. 1
  BY <1>1, <1>5 DEF Places1
<1>7. Pos(1)
  BY <1>1, <1>5 DEF Pos, Off, Slot, Lap
<1>8. Status /\ NoFalseAlarm
  BY <1>5 DEF Status, NoFalseAlarm
<1>9. Starts(1) /\ Together(1, 0) /\ Alike(1, 0)
  BY <1>6 DEF Starts, Together, Alike
<1>10. CallOf(1)
  <2>1. [i \in 1 .. Len(ids) |-> written[1 - Len(ids) - 1 + i].len] = <<>>
    BY <1>6
  <2>2. Total([i \in 1 .. Len(ids) |-> written[1 - Len(ids) - 1 + i].len]) = 0
    BY <2>1, TotalOfNone
  <2> QED
    BY <1>5, <1>6, <1>9, <2>2 DEF CallOf
<1>11. EventOf(1) /\ Handed(1)
  BY <1>5, <1>6, <1>9 DEF EventOf, Handed
<1> QED
  BY <1>1, <1>3, <1>4, <1>6, <1>7, <1>8, <1>10, <1>11 DEF FlagsInv, EventInv, Account

\* Every step keeps what the reader knows of the flags.
LEMMA FlagsNext ==
  ASSUME SpyInv, FlagsInv, [Next]_vars
  PROVE  FlagsInv' /\ (Trusted' => Trusted)
<1>1. [DriverNext]_hookVars
  BY DriverPart
<1>2. TypeInv /\ DataInv
  BY DEF SpyInv
<1>3. flag_eevent_2' = flag_eevent_2
  <2>1. CASE Arrivals \/ DisableBlock \/ Read \/ Reenter \/ UNCHANGED vars
    BY <2>1 DEF Arrivals, Environment, Receive, Lose, DisableBlock, SwitchPmissing, RaisePmissing,
                LowerPmissing, Read, Reenter, vars, hookVars, switches
  <2>2. CASE StartReset \/ Reset
    BY <2>2 DEF StartReset, Reset, ResetBuf, ResetRing, ResetLoop, ResetProc, ResetTail, hookVars,
                switches
  <2>3. CASE \E c \in CPUs : Hook(c)
    BY <2>3 DEF Hook, PacedLock, Lock, CopyData, Classify, PutWord, PutLength, Advance, PutTail,
                switches
  <2>4. CASE \E c \in CPUs : RacedHook(c)
    BY <2>4 DEF RacedHook, RacedStep, switches
  <2> QED
    BY <2>1, <2>2, <2>3, <2>4 DEF Next
<1>4. GapInv' /\ (resets' = 0 => CutInv' /\ EndsInv')
  <2>1. GapInv'
    BY <1>1, <1>2, GapNext DEF FlagsInv
  <2>2. ASSUME resets' = 0 PROVE CutInv' /\ EndsInv'
    <3>1. \A c \in CPUs : ~ RacedStep(c)
      BY <1>2, <2>2, MutexRaced
    <3>2. resets = 0
      BY <1>1, <1>2, <2>2, ResetsGrow DEF TypeInv, HookTypeOK
    <3> QED
      BY <1>1, <1>2, <1>3, <3>1, <3>2, CutNext, EndsNext DEF FlagsInv
  <2> QED
    BY <2>1, <2>2
<1>5. ASSUME resets' = 0, Unaliased', AllChecked' PROVE Unaliased /\ AllChecked
  <2>1. Len(written) \in Nat /\ DOMAIN written = 1 .. Len(written) /\ Mutex
    BY SpyFacts
  <2>2. CASE written' = written
    BY <1>5, <2>2 DEF Unaliased, AllChecked
  <2>3. CASE \E c \in CPUs : Advance(c)
    <3>1. PICK c \in CPUs : Advance(c)
      BY <2>3
    <3>2. /\ Len(written') = Len(written) + 1 /\ DOMAIN written' = 1 .. Len(written) + 1
          /\ \A k \in 1 .. Len(written) : written'[k] = written[k]
      BY <1>2, <2>1, <3>1, Moves
    <3>3. \A k \in 1 .. Len(written) - 1 :
            k \in 1 .. Len(written') - 1 /\ k \in 1 .. Len(written) /\ k + 1 \in 1 .. Len(written)
      BY <2>1, <3>2
    <3>4. Unaliased
      BY <1>5, <3>2, <3>3 DEF Unaliased
    <3>5. \A k \in DOMAIN written : k \in DOMAIN written' /\ written'[k] = written[k]
      BY <2>1, <3>2
    <3> QED
      BY <1>5, <3>4, <3>5 DEF AllChecked
  <2>4. written' = written \/ \E c \in CPUs : Advance(c)
    <3>1. CASE UNCHANGED hookVars
      BY <3>1 DEF hookVars, ghosts
    <3>2. CASE Environment \/ ResetStep \/ Switch
      BY <3>2 DEF Environment, Receive, Lose, ResetStep, ResetBuf, ResetRing, ResetLoop, ResetProc,
                  ResetTail, Switch, SwitchPmissing, SwitchEevent, RaisePmissing, LowerPmissing,
                  RaiseEevent, LowerEevent, ghosts
    <3>3. CASE \E c \in CPUs : HookStep(c)
      BY <3>3 DEF HookStep, Lock, CopyData, Classify, PutWord, PutLength, PutTail, ghosts
    <3>4. \A c \in CPUs : ~ RacedStep(c)
      BY <1>2, <1>5, MutexRaced
    <3> QED
      BY <1>1, <3>1, <3>2, <3>3, <3>4 DEF DriverNext
  <2> QED
    BY <2>2, <2>3, <2>4
<1>6. Regular' => Regular
  BY <1>1, <1>2, RegularFalls
<1>7. Trusted' => Trusted
  BY <1>5, <1>6 DEF Trusted, Regular
<1> QED
  BY <1>3, <1>4, <1>7 DEF FlagsInv

\* Every step keeps the invariant about the reader's event.
LEMMA EventNext ==
  ASSUME SpyInv, SpyInv', FlagsInv, EventInv, [Next]_vars
  PROVE  EventInv'
<1> SUFFICES ASSUME Trusted', Pace # "free"
             PROVE  \E j \in Places1' : Pos(j)' /\ Account(j)'
  BY DEF EventInv
<1>0. /\ Trusted /\ Regular /\ Regular' /\ TypeInv /\ OrderParts
      /\ resets = 0 /\ resets' = 0 /\ reset = "no" /\ rpc # "ioctl"
  <2>1. Trusted /\ Regular /\ Regular'
    BY FlagsNext DEF Trusted
  <2> QED
    BY <2>1 DEF SpyInv, OrderInv, OrderParts, DataInv, Undisturbed, ReaderInv, Paced, Regular
<1>1. PICK j \in Places1 : Pos(j) /\ Account(j)
  BY <1>0 DEF EventInv
<1>2. CASE Arrivals \/ DisableBlock \/ (\E c \in CPUs : Hook(c)) \/ UNCHANGED vars
  <2>1. UNCHANGED readerVars
    BY <1>2 DEF Arrivals, DisableBlock, Hook, vars
  <2> QED
    BY <1>0, <1>1, <1>2, <2>1, AccountDriver
<1>3. CASE Reenter
  <2>1. UNCHANGED hookVars /\ Call
    BY <1>3 DEF Reenter
  <2>2. Account(j)'
    BY <1>1, <2>1, AccountCall
  <2>3. j \in Places1' /\ Pos(j)'
    BY <1>1, <2>1, DriverStays DEF Call, Pos, position
  <2> QED
    BY <2>2, <2>3
<1>4. CASE Read
  <2>0. UNCHANGED hookVars
    BY <1>4 DEF Read
  <2>1. CASE Timeout \/ Idle \/ SeeData \/ ReadWord \/ ReadLength
    <3>1. Account(j)'
      BY <1>1, <2>0, <2>1, AccountLook
    <3>2. j \in Places1' /\ Pos(j)'
      BY <1>1, <2>0, <2>1, DriverStays
         DEF Timeout, Idle, SeeData, ReadWord, ReadLength, Pos, position
    <3> QED
      BY <3>1, <3>2
  <2>2. CASE BufferOverwrite \/ LoopOverwrite
    <3>1. PICK k \in Places1' : At(k)' /\ InStep(k)'
      BY <1>0 DEF SpyInv, ReaderInv, KeepsUp
    <3>2. Account(k)'
      BY <1>0, <1>1, <2>2, <3>1, AccountResync
    <3>3. Pos(k)'
      BY <3>1 DEF At, Pos
    <3> QED
      BY <3>2, <3>3
  <2>3. CASE Consume
    <3>1. PICK k \in Places1 : At(k)
      BY <1>0 DEF SpyInv, ReaderInv, KeepsUp
    <3>2. k = j
      BY <1>0, <1>1, <3>1, OnePosition DEF At, Pos
    <3> QED
      BY <1>0, <1>1, <2>0, <2>3, <3>1, <3>2, AccountConsume
  <2> QED
    BY <1>4, <2>1, <2>2, <2>3 DEF Read, ReadStep
<1>5. CASE StartReset \/ Reset
  BY <1>0, <1>5
     DEF StartReset, Reset, ResetBuf, ResetRing, ResetLoop, ResetProc, ResetTail, EndReset
<1>6. CASE \E c \in CPUs : RacedHook(c)
  BY <1>0, <1>6, MutexRaced DEF SpyInv, RacedHook
<1> QED
  BY <1>2, <1>3, <1>4, <1>5, <1>6 DEF Next

(* What the reader knows of its event is true.                             *)
THEOREM EventInvariant == Spec => [](SpyInv /\ FlagsInv /\ EventInv)
<1>1. SpyInv /\ SpyInv' /\ FlagsInv /\ EventInv /\ [Next]_vars => FlagsInv' /\ EventInv'
  BY FlagsNext, EventNext
<1> QED
  BY <1>1, FlagsInit, SpyInvariant, PTL DEF Spec

-----------------------------------------------------------------------------
(***************************************************************************)
(* The properties of the runs.                                             *)
(***************************************************************************)
(* The packet with the number of packet k is packet k.                     *)
LEMMA PacketOfWritten ==
  ASSUME SpyInv, NEW k \in DOMAIN written
  PROVE  PacketOf(written[k].id) = written[k]
<1>1. Range(written) = {written[i] : i \in DOMAIN written}
  BY DEF Range
<1>2. \A p \in Range(written) : p.id = written[k].id => p = written[k]
  BY <1>1 DEF SpyInv, OnceInv, Distinct
<1>3. written[k] \in Range(written)
  BY <1>1
<1>4. \E p \in Range(written) : p.id = written[k].id
  BY <1>3
<1> QED
  BY <1>2, <1>4 DEF PacketOf

(* The packets of the present call, by their places.                       *)
LEMMA CallPackets ==
  ASSUME SpyInv, FlagsInv, resets = 0, NEW j \in Places1, CallOf(j), ids # <<>>
  PROVE  \E m \in 1 .. j - 1 :
           /\ m = j - Len(ids) /\ j - 1 \in DOMAIN written
           /\ \A i \in 1 .. Len(ids) :
                /\ m - 1 + i \in DOMAIN written /\ ids[i] = written[m - 1 + i].id
                /\ PacketOf(ids[i]) = written[m - 1 + i]
           /\ Len(ids) \in Nat \ {0} /\ DOMAIN ids = 1 .. Len(ids) /\ m - 1 + Len(ids) = j - 1
           /\ PacketOf(ids[1]) = written[m] /\ ids[1] = written[m].id
           /\ PacketOf(ids[Len(ids)]) = written[j - 1] /\ ids[Len(ids)] = written[j - 1].id
           /\ EventLength(ids) = Total([i \in 1 .. Len(ids) |-> written[m - 1 + i].len])
           /\ written[j - 1].ends = written[j - 1].eevent
           /\ ids[1] \in Nat
<1>0. /\ Len(written) \in Nat /\ DOMAIN written = 1 .. Len(written)
      /\ ids \in Seq(Nat) /\ j \in 1 .. Len(written) + 1
  BY SpyFacts DEF Places1, ReaderTypeOK
<1>1. PICK n \in Nat \ {0} : n = Len(ids) /\ DOMAIN ids = 1 .. n
  BY <1>0
<1>2. j - n >= 1 /\ j \in Int
  BY <1>0, <1>1 DEF CallOf
<1>3. PICK m \in 1 .. j - 1 : m = j - n
  <2>1. j - n \in 1 .. j - 1
    BY <1>1, <1>2
  <2> QED
    BY <2>1
<1>4. \A i \in 1 .. n : m - 1 + i \in DOMAIN written
  <2> TAKE i \in 1 .. n
  <2>1. i \in Int /\ i >= 1 /\ i <= n
    OBVIOUS
  <2> QED
    BY <1>0, <1>2, <1>3, <2>1
<1>5. \A i \in 1 .. n : ids[i] = written[m - 1 + i].id
  BY <1>1, <1>3 DEF CallOf
<1>6. \A i \in 1 .. n : PacketOf(ids[i]) = written[m - 1 + i]
  BY <1>4, <1>5, PacketOfWritten
<1>7. m - 1 + 1 = m /\ m - 1 + n = j - 1 /\ 1 \in 1 .. n /\ n \in 1 .. n
  BY <1>1, <1>2, <1>3
<1>8. EventLength(ids) = Total([i \in 1 .. n |-> written[m - 1 + i].len])
  <2>1. [k \in DOMAIN ids |-> PacketOf(ids[k]).len] = [i \in 1 .. n |-> written[m - 1 + i].len]
    BY <1>1, <1>6
  <2> QED
    BY <2>1 DEF EventLength
<1>9. j - 1 \in DOMAIN written
  BY <1>4, <1>7
<1>10. written[j - 1].ends = written[j - 1].eevent
  BY <1>9 DEF FlagsInv, EndsInv
<1>11. /\ PacketOf(ids[1]) = written[m] /\ ids[1] = written[m].id
       /\ PacketOf(ids[n]) = written[j - 1] /\ ids[n] = written[j - 1].id
  <2>1. ids[1] = written[m - 1 + 1].id /\ PacketOf(ids[1]) = written[m - 1 + 1]
    BY <1>5, <1>6, <1>7
  <2>2. ids[n] = written[m - 1 + n].id /\ PacketOf(ids[n]) = written[m - 1 + n]
    BY <1>5, <1>6, <1>7
  <2> QED
    BY <1>7, <2>1, <2>2
<1>12. ids[1] \in Nat
  BY <1>0, <1>1, <1>7
<1> QED
  BY <1>1, <1>3, <1>4, <1>5, <1>6, <1>7, <1>8, <1>9, <1>10, <1>11, <1>12

(* Data that is handed over is that of an event without a gap, from its    *)
(* beginning to the end of that data, whether the call ended with the      *)
(* event or timed out inside it, and whichever call has seen the loss      *)
(* (insideEventWithMissingPackets of readDDU).                             *)
THEOREM DamageIsWithheld ==
  ASSUME Pace = "samelap"
  PROVE  Spec => [](Trusted => DamagedEventsAreWithheld)
<1>1. SpyInv /\ FlagsInv /\ EventInv => (Trusted => DamagedEventsAreWithheld)
  <2> SUFFICES ASSUME SpyInv, FlagsInv, EventInv, Trusted, rpc = "returned", len > 0, ids # <<>>,
                      PacketOf(ids[1]).first # written[1].first
               PROVE  /\ PacketOf(ids[1]).first .. ids[Len(ids)] \subseteq Range(taken)
                      /\ PacketOf(ids[Len(ids)]).first = PacketOf(ids[1]).first
    BY DEF DamagedEventsAreWithheld
  <2>1. PICK j \in Places1 : Pos(j) /\ Account(j)
    BY DEF EventInv
  <2>2. Regular /\ OrderParts /\ TypeInv
    BY SpyFacts DEF Trusted, OrderInv, OrderParts
  <2>3. PICK i \in Places1 : At(i) /\ InStep(i)
    BY <2>2 DEF SpyInv, ReaderInv, KeepsUp
  <2>4. i = j
    BY <2>1, <2>2, <2>3, OnePosition DEF At, Pos
  <2>5. j = Len(taken) + 1 /\ NoFalseAlarm /\ \A k \in DOMAIN taken : taken[k] = written[k].id
    BY <2>3, <2>4 DEF InStep
  <2>6. PICK m \in 1 .. j - 1 :
          /\ m = j - Len(ids) /\ j - 1 \in DOMAIN written
          /\ PacketOf(ids[1]) = written[m] /\ ids[1] = written[m].id
          /\ PacketOf(ids[Len(ids)]) = written[j - 1] /\ ids[Len(ids)] = written[j - 1].id
    BY <2>1, <2>2, <2>5, CallPackets DEF Account, Regular
  <2>7. PICK s \in 1 .. m : Together(s, j - 1)
    BY <2>1, <2>6 DEF Account, Handed, Sound
  <2>8. /\ Len(taken) \in Nat /\ DOMAIN taken = 1 .. Len(taken) /\ j \in Int
        /\ DOMAIN written = 1 .. Len(written)
    BY SpyFacts DEF Places1
  <2>9. m \in s .. j - 1 /\ j - 1 \in s .. j - 1 /\ s \in DOMAIN written /\ s \in Int
    BY <2>6, <2>7, <2>8
  <2>10. written[m].first = written[j - 1].first
    BY <2>7, <2>9 DEF Together
  <2>11. written[m].first = written[s].id
    BY <2>6, <2>7, <2>9 DEF Together
  <2>12. written[j - 1].id = written[s].id + (j - 1 - s) /\ written[s].id \in Nat
    <3>1. \A e \in Entries : e.id \in Nat
      BY DEF Entries
    <3> QED
      BY <2>2, <2>7, <2>9, <3>1, EntryFacts DEF Together
  <2>13. ASSUME NEW x \in written[s].id .. written[j - 1].id PROVE x \in Range(taken)
    <3>1. PICK k \in Int : k = s + (x - written[s].id)
      BY <2>9, <2>12
    <3>2. k \in s .. j - 1 /\ written[s].id + (k - s) = x
      <4>1. PICK f \in Nat : f = written[s].id
        BY <2>12
      <4>2. x \in f .. f + (j - 1 - s) /\ k = s + (x - f) /\ j \in Int /\ s \in Int
        BY <2>8, <2>9, <2>12, <3>1, <4>1
      <4>3. k \in s .. j - 1 /\ f + (k - s) = x
        BY <4>2
      <4> QED
        BY <4>1, <4>3
    <3>3. k \in DOMAIN taken
      BY <2>5, <2>8, <2>7, <3>2
    <3>4. written[k].id = x
      BY <2>7, <3>2 DEF Together
    <3> QED
      BY <2>5, <3>3, <3>4 DEF Range
  <2> QED
    BY <2>6, <2>10, <2>11, <2>13
<1> QED
  BY <1>1, EventInvariant, PTL

(* What is returned without any flag is one event's packets up to its last *)
(* one, none missing in between, and all of them if the call began where   *)
(* an event begins, whatever the network has lost, also if the driver is a *)
(* lap ahead: a lap that is lost is told (readDDU).                        *)
THEOREM CleanIsWhole ==
  ASSUME Pace # "free"
  PROVE  Spec => [](Trusted => CleanEventsAreWhole)
<1>1. SpyInv /\ FlagsInv /\ EventInv => (Trusted => CleanEventsAreWhole)
  <2> SUFFICES ASSUME SpyInv, FlagsInv, EventInv, Trusted, GotCleanEvent, ~ Unchecked(ids[1])
               PROVE  /\ IsEndOfEvent(ids)
                      /\ len \in {0, EventLength(ids)}
                      /\ fresh => IsWholeEvent(ids) /\ len = EventLength(ids)
    BY DEF CleanEventsAreWhole
  <2>1. PICK j \in Places1 : Pos(j) /\ Account(j)
    BY DEF EventInv
  <2>2. /\ Regular /\ OrderParts /\ TypeInv
        /\ theErrorFlag = {} /\ resets = 0
    BY SpyFacts DEF Trusted, Regular, OrderInv, OrderParts, GotCleanEvent
  <2>3. CallOf(j) /\ ids # <<>> /\ written[j - 1].eevent
    BY <2>1, <2>2 DEF Account, NoFalseAlarm, CallOf
  <2>4. PICK m \in 1 .. j - 1 :
          /\ m = j - Len(ids) /\ j - 1 \in DOMAIN written
          /\ \A i \in 1 .. Len(ids) :
               ids[i] = written[m - 1 + i].id /\ PacketOf(ids[i]) = written[m - 1 + i]
          /\ Len(ids) \in Nat \ {0} /\ DOMAIN ids = 1 .. Len(ids) /\ m - 1 + Len(ids) = j - 1
          /\ PacketOf(ids[1]) = written[m] /\ ids[1] = written[m].id
          /\ PacketOf(ids[Len(ids)]) = written[j - 1]
          /\ EventLength(ids) = Total([i \in 1 .. Len(ids) |-> written[m - 1 + i].len])
          /\ written[j - 1].ends = written[j - 1].eevent
          /\ ids[1] \in Nat
    BY <2>2, <2>3, CallPackets
  <2>5. /\ Alike(m, j - 1) /\ len \in {0, EventLength(ids)}
        /\ fresh => Together(m, j - 1) /\ len = EventLength(ids)
    BY <2>2, <2>3, <2>4 DEF CallOf
  <2>6. m # 1
    <3>1. SUFFICES ASSUME m = 1 PROVE FALSE
      OBVIOUS
    <3>2. 1 \in DOMAIN written
      BY <2>4, <3>1, SpyFacts
    <3>3. written[1].slot = 0 /\ written[1].loop = 0
      BY <2>2, <3>2 DEF OrderParts, Chain, LoopIsLap, Slot, Lap
    <3> QED
      BY <2>4, <3>1, <3>3 DEF Unchecked
  <2>7. j \in Int /\ m \in Int
    BY SpyFacts DEF Places1
  <2>8. \A k \in DOMAIN ids :
          ids[k] = ids[1] + k - 1 /\ PacketOf(ids[k]).first = PacketOf(ids[1]).first
    <3> TAKE k \in DOMAIN ids
    <3>1. m - 1 + k \in m .. j - 1 /\ (m - 1 + k) - m = k - 1 /\ k \in Int
      BY <2>4, <2>7
    <3>2. /\ written[m - 1 + k].id = written[m].id + (k - 1)
          /\ written[m - 1 + k].first = written[m].first
      BY <2>5, <3>1 DEF Alike
    <3>3. ids[1] \in Int /\ k \in 1 .. Len(ids)
      BY <2>4
    <3>4. PacketOf(ids[k]).first = PacketOf(ids[1]).first
      BY <2>4, <3>2, <3>3
    <3> QED
      BY <2>4, <3>1, <3>2, <3>3, <3>4
  <2>9. fresh => PacketOf(ids[1]).first = ids[1]
    <3>1. m \in m .. j - 1
      BY <2>7
    <3> QED
      BY <2>4, <2>5, <2>6, <3>1 DEF Together
  <2>10. PacketOf(ids[Len(ids)]).ends
    BY <2>3, <2>4
  <2> QED
    BY <2>3, <2>5, <2>8, <2>9, <2>10 DEF IsWholeEvent, IsEndOfEvent
<1> QED
  BY <1>1, EventInvariant, PTL

(* A whole event is kept if no packet is missing right before it, whatever *)
(* happened to earlier ones (insideEventWithMissingPackets is cleared in   *)
(* time). If one is, the event is flagged and withheld though it is whole. *)
THEOREM GoodIsKept ==
  ASSUME Pace = "samelap"
  PROVE  Spec => [](Trusted => GoodEventsAreKept)
<1>1. SpyInv /\ FlagsInv /\ EventInv => (Trusted => GoodEventsAreKept)
  <2> DEFINE before == Len(taken) - Len(ids)
  <2> SUFFICES ASSUME SpyInv, FlagsInv, EventInv, Trusted, rpc = "returned", fresh, before > 0,
                      ids # <<>>, IsWholeEvent(ids)
               PROVE  IF taken[before] = ids[1] - 1
                      THEN theErrorFlag \subseteq {"Oversized"} /\ len = EventLength(ids)
                      ELSE "PacketsMissing" \in theErrorFlag /\ len = 0
    BY DEF GoodEventsAreKept, IsWholeEvent
  <2>1. PICK j \in Places1 : Pos(j) /\ Account(j)
    BY DEF EventInv
  <2>2. Regular /\ OrderParts /\ TypeInv
    BY SpyFacts DEF Trusted, OrderInv, OrderParts
  <2>3. PICK i \in Places1 : At(i) /\ InStep(i)
    BY <2>2 DEF SpyInv, ReaderInv, KeepsUp
  <2>4. i = j
    BY <2>1, <2>2, <2>3, OnePosition DEF At, Pos
  <2>5. j = Len(taken) + 1 /\ NoFalseAlarm /\ \A k \in DOMAIN taken : taken[k] = written[k].id
    BY <2>3, <2>4 DEF InStep
  <2>6. CallOf(j) /\ Status
    BY <2>1, <2>5 DEF Account
  <2>7. PICK m \in 1 .. j - 1 :
          /\ m = j - Len(ids) /\ j - 1 \in DOMAIN written
          /\ \A k \in 1 .. Len(ids) : m - 1 + k \in DOMAIN written /\ ids[k] = written[m - 1 + k].id
          /\ Len(ids) \in Nat \ {0} /\ DOMAIN ids = 1 .. Len(ids) /\ m - 1 + Len(ids) = j - 1
          /\ ids[1] = written[m].id
          /\ PacketOf(ids[Len(ids)]) = written[j - 1]
          /\ EventLength(ids) = Total([k \in 1 .. Len(ids) |-> written[m - 1 + k].len])
          /\ written[j - 1].ends = written[j - 1].eevent
          /\ ids[1] \in Nat
    BY <2>2, <2>6, CallPackets DEF Regular
  <2>8. /\ j \in Int /\ m \in Int /\ Len(taken) \in Nat /\ DOMAIN taken = 1 .. Len(taken)
        /\ before = m - 1 /\ m > 1 /\ before \in DOMAIN taken
    <3>1. j \in Int /\ j >= 1
      BY SpyFacts DEF Places1
    <3>2. m \in Int /\ m >= 1 /\ m =< j - 1
      BY <3>1, <2>7
    <3>3. Len(taken) \in Nat /\ DOMAIN taken = 1 .. Len(taken)
      BY SpyFacts
    <3>4. PICK n \in Nat : n = Len(ids) /\ n # 0
      BY <2>7
    <3>5. m = j - n
      BY <2>7, <3>4
    <3>6. before = Len(taken) - n
      BY <3>4
    <3>7. PICK l \in Nat : l = Len(taken)
      BY <3>3
    <3>8. j = l + 1 /\ before = l - n /\ DOMAIN taken = 1 .. l
      BY <2>5, <3>3, <3>6, <3>7
    <3>9. l - n > 0
      BY <3>8
    <3>10. before = m - 1 /\ m > 1
      BY <3>1, <3>2, <3>4, <3>5, <3>7, <3>8, <3>9
    <3>11. before \in DOMAIN taken
      BY <3>4, <3>7, <3>8, <3>9
    <3> QED
      BY <3>1, <3>2, <3>3, <3>10, <3>11
  <2>9. written[j - 1].eevent /\ "EndOfEventMissing" \notin theErrorFlag /\ "Timeout" \notin theErrorFlag
    <3>1. written[j - 1].eevent
      BY <2>7 DEF IsWholeEvent
    <3> QED
      BY <2>6, <3>1 DEF CallOf, Status
  <2>10. ASSUME taken[before] = ids[1] - 1, NEW k \in m .. j - 1 PROVE ~ written[k].missing
    <3>1. k \in DOMAIN written /\ k > 1 /\ k \in Int
      <4>1. PICK n \in Nat : n = Len(written) /\ DOMAIN written = 1 .. n
        BY SpyFacts
      <4>2. j - 1 \in 1 .. n
        BY <2>7, <4>1
      <4>3. k \in 1 .. n /\ k > 1 /\ k \in Int
        BY <2>8, <4>2
      <4> QED
        BY <4>1, <4>3
    <3>2. ids[1] \in Int
      BY <2>7
    <3>3. written[k].id = written[k - 1].id + 1
      <4>1. CASE k = m
        <5>1. taken[m - 1] = written[m - 1].id /\ taken[m - 1] = ids[1] - 1
          BY <2>5, <2>8, <2>10
        <5> QED
          BY <2>7, <3>2, <4>1, <5>1
      <4>2. CASE k # m
        <5>1. /\ k - m \in 1 .. Len(ids) /\ k - m + 1 \in 1 .. Len(ids)
              /\ m - 1 + (k - m) = k - 1 /\ m - 1 + (k - m + 1) = k
          <6>1. PICK n \in Nat : n = Len(ids) /\ m - 1 + n = j - 1
            BY <2>7
          <6> QED
            BY <2>8, <4>2, <6>1
        <5>2. ids[k - m] = written[k - 1].id /\ ids[k - m + 1] = written[k].id
          BY <2>7, <5>1
        <5>3. ids[k - m] = ids[1] + (k - m) - 1 /\ ids[k - m + 1] = ids[1] + (k - m + 1) - 1
          BY <2>7, <5>1 DEF IsWholeEvent
        <5> QED
          <6>1. PICK f \in Int : f = ids[1]
            BY <3>2
          <6>2. written[k - 1].id = f + (k - m) - 1 /\ written[k].id = f + (k - m + 1) - 1
            BY <5>2, <5>3, <6>1
          <6>3. f + (k - m + 1) - 1 = (f + (k - m) - 1) + 1
            BY <2>8, <3>1
          <6> QED
            BY <6>2, <6>3
      <4> QED
        BY <4>1, <4>2
    <3> QED
      BY <2>2, <3>1, <3>3, FlagsTell
  <2>11. CASE taken[before] = ids[1] - 1
    <3>1. "PacketsMissing" \notin theErrorFlag
      BY <2>6, <2>7, <2>10, <2>11 DEF CallOf
    <3>2. len = EventLength(ids)
      BY <2>6, <2>7, <3>1 DEF CallOf
    <3>3. theErrorFlag \subseteq Status_t
      BY SpyFacts DEF ReaderTypeOK
    <3>4. theErrorFlag \subseteq {"Oversized"}
      BY <2>5, <2>9, <3>1, <3>3 DEF Status_t, NoFalseAlarm
    <3> QED
      BY <2>11, <3>2, <3>4
  <2>12. CASE taken[before] # ids[1] - 1
    <3>1. m \in DOMAIN written /\ m > 1 /\ m \in m .. j - 1
      <4>1. PICK n \in Nat : n = Len(written) /\ DOMAIN written = 1 .. n
        BY SpyFacts
      <4> QED
        BY <2>7, <2>8, <4>1
    <3>2. written[m].id # written[m - 1].id + 1
      <4>1. PICK f \in Nat : f = written[m - 1].id
        <5>1. m - 1 \in DOMAIN written
          BY <2>2, <3>1, FlagsTell
        <5>2. \A e \in Entries : e.id \in Nat
          BY DEF Entries
        <5> QED
          BY <2>2, <5>1, <5>2, EntryFacts
      <4>2. f # ids[1] - 1
        BY <2>5, <2>8, <2>12, <4>1
      <4> QED
        BY <2>7, <4>1, <4>2
    <3>3. written[m].missing
      BY <2>2, <3>1, <3>2, FlagsTell
    <3>4. "PacketsMissing" \in theErrorFlag
      BY <2>6, <2>7, <3>1, <3>3 DEF CallOf
    <3>5. len = 0
      BY <2>6, <3>4 DEF CallOf
    <3> QED
      BY <2>12, <3>4, <3>5
  <2> QED
    BY <2>11, <2>12
<1> QED
  BY <1>1, EventInvariant, PTL

(* While no ioctl switches it, the driver looks at every counter.          *)
CheckOn ==
  /\ flag_pmissing_2 = TRUE
  /\ AllChecked
  /\ \A c \in CPUs : Past(c) => masks[c].checked

\* A packet that is put behind those written keeps what holds of them all.
LEMMA CheckOnAdvance ==
  ASSUME TypeInv, CheckOn, NEW c \in CPUs, Past(c),
         written' = Append(written, EntryOf(skb[c], masks[c], buf_pnt_2, ring_pnt_2, ring_loop_2))
  PROVE  AllChecked'
<1>1. written \in Seq(Entries) /\ masks[c].checked
  BY DEF TypeInv, HookTypeOK, CheckOn
<1>2. \A k \in DOMAIN written' :
        \/ written'[k] = EntryOf(skb[c], masks[c], buf_pnt_2, ring_pnt_2, ring_loop_2)
        \/ \E i \in DOMAIN written : written'[k] = written[i]
  BY <1>1
<1> QED
  BY <1>1, <1>2 DEF CheckOn, AllChecked, EntryOf

\* Every step keeps that, a reset in the middle of the hook included.
LEMMA CheckOnNext ==
  ASSUME TypeInv, CheckOn, ~ MaySwitch, [DriverNext]_hookVars
  PROVE  CheckOn'
<1>0. pc \in [CPUs -> Places] /\ masks \in [CPUs -> Masks]
  BY DEF TypeInv, HookTypeOK
<1>1. CASE Environment \/ ResetStep \/ UNCHANGED hookVars
  <2>1. UNCHANGED <<flag_pmissing_2, written, masks>>
    BY <1>1 DEF Environment, Receive, Lose, ResetStep, ResetBuf, ResetRing, ResetLoop, ResetProc,
                ResetTail, hookVars, switches, cpus, ghosts
  <2>2. \A c \in CPUs : Past(c)' => Past(c)
    BY <1>0, <1>1 DEF Environment, Receive, Lose, ResetStep, ResetBuf, ResetRing, ResetLoop,
                      ResetProc, ResetTail, hookVars, cpus, Past
  <2> QED
    BY <2>1, <2>2 DEF CheckOn, AllChecked
<1>2. ASSUME NEW c \in CPUs, HookStep(c) PROVE CheckOn'
  <2>0. flag_pmissing_2' = flag_pmissing_2
    BY <1>2 DEF HookStep, Lock, CopyData, Classify, PutWord, PutLength, Advance, PutTail, switches
  <2>1. CASE Classify(c)
    <3>1. written' = written /\ masks'[c].checked = flag_pmissing_2
      BY <1>0, <2>1 DEF Classify, ghosts
    <3>2. \A d \in CPUs \ {c} : (Past(d)' => Past(d)) /\ masks'[d] = masks[d]
      BY <1>0, <2>1 DEF Classify, Past
    <3> QED
      BY <2>0, <3>1, <3>2 DEF CheckOn, AllChecked
  <2>2. CASE Advance(c)
    <3>1. Past(c) /\ masks' = masks /\ \A d \in CPUs : Past(d)' => Past(d)
      BY <1>0, <2>2 DEF Advance, Past
    <3>2. AllChecked'
      BY <2>2, <3>1, CheckOnAdvance DEF Advance
    <3> QED
      BY <2>0, <3>1, <3>2 DEF CheckOn
  <2>3. CASE Lock(c) \/ CopyData(c) \/ PutWord(c) \/ PutLength(c) \/ PutTail(c)
    <3>1. written' = written
      BY <2>3 DEF Lock, CopyData, PutWord, PutLength, PutTail, ghosts
    <3>2. \A d \in CPUs : Past(d)' => Past(d) /\ masks'[d] = masks[d]
      BY <1>0, <2>3 DEF Lock, CopyData, PutWord, PutLength, PutTail, Past
    <3> QED
      BY <2>0, <3>1, <3>2 DEF CheckOn, AllChecked
  <2> QED
    BY <1>2, <2>1, <2>2, <2>3 DEF HookStep
<1>3. ASSUME NEW c \in CPUs, RacedStep(c) PROVE CheckOn'
  <2>0. flag_pmissing_2' = flag_pmissing_2
    BY <1>3 DEF RacedStep, switches
  <2>1. PICK falls : \/ RacedCopy(c, falls) \/ RacedClassify(c, falls) \/ RacedWord(c, falls)
                     \/ RacedAdvance(c, falls) \/ RacedTail(c, falls)
    BY <1>3 DEF RacedStep
  <2>2. CASE RacedClassify(c, falls)
    <3>1. written' = written /\ masks'[c].checked = flag_pmissing_2
      BY <1>0, <2>2 DEF RacedClassify, ghosts
    <3>2. \A d \in CPUs \ {c} : (Past(d)' => Past(d)) /\ masks'[d] = masks[d]
      BY <1>0, <2>2 DEF RacedClassify, Past
    <3> QED
      BY <2>0, <3>1, <3>2 DEF CheckOn, AllChecked
  <2>3. CASE RacedAdvance(c, falls)
    <3>1. Past(c) /\ masks' = masks /\ \A d \in CPUs : Past(d)' => Past(d)
      BY <1>0, <2>3 DEF RacedAdvance, Past
    <3>2. AllChecked'
      BY <2>3, <3>1, CheckOnAdvance DEF RacedAdvance
    <3> QED
      BY <2>0, <3>1, <3>2 DEF CheckOn
  <2>4. CASE RacedCopy(c, falls) \/ RacedWord(c, falls) \/ RacedTail(c, falls)
    <3>1. written' = written
      BY <2>4 DEF RacedCopy, RacedWord, RacedTail, ghosts
    <3>2. \A d \in CPUs : Past(d)' => Past(d) /\ masks'[d] = masks[d]
      BY <1>0, <2>4 DEF RacedCopy, RacedWord, RacedTail, Past
    <3> QED
      BY <2>0, <3>1, <3>2 DEF CheckOn, AllChecked
  <2> QED
    BY <2>1, <2>2, <2>3, <2>4
<1> QED
  BY <1>1, <1>2, <1>3 DEF DriverNext, Switch

\* So it is always so.
LEMMA AlwaysChecked ==
  ASSUME ~ MaySwitch
  PROVE  DriverSpec => []AllChecked
<1>1. HookInit => CheckOn
  BY DEF HookInit, CheckOn, AllChecked, Past
<1>2. TypeInv /\ CheckOn /\ [DriverNext]_hookVars => CheckOn'
  BY CheckOnNext
<1>3. CheckOn => AllChecked
  BY DEF CheckOn
<1> QED
  BY <1>1, <1>2, <1>3, TypeInvariant, PTL DEF DriverSpec

(* With one CPU, no reset and no switch, a network that does not lose 2^16 *)
(* packets, and a loop count that fits its 14 bits, all that is needed.    *)
THEOREM WhenTrusted ==
  ASSUME NEW c \in CPUs, CPUs = {c}, MaxLost < CtrMod, MaxResets = 0, ~ MaySwitch
  PROVE  Spec => [](lap < LoopMod => Trusted)
<1>1. Spec => []Unaliased
  BY DriverAlone, NoGapUnseen, PTL
<1>2. Spec => []AllChecked
  BY DriverAlone, AlwaysChecked, PTL
<1>3. TypeOK => resets = 0
  BY DEF TypeOK, HookTypeOK
<1>4. Unaliased /\ AllChecked /\ TypeOK => (lap < LoopMod => Trusted)
  BY <1>3 DEF Trusted, Regular
<1> QED
  BY <1>1, <1>2, <1>4, SpyTypeCorrect, PTL

-----------------------------------------------------------------------------
(***************************************************************************)
(* Proofs about the data that readDDU hands to its caller, a pointer into  *)
(* the shared memory: an event does not run over the end of the data area, *)
(* and its bytes stay what they are as long as the caller uses them.       *)
(***************************************************************************)

(* What the sizes of the driver are to ensure: that BufEend leaves room    *)
(* for an event, of which the last packet begins before BufEnd, and that   *)
(* the ring has an entry for every unit of the data area. (A unit may be   *)
(* the 64 bytes of a minimum-size packet: there are 512000 entries for     *)
(* 256000 of them. MAXEVENT_2 is 180000, of which an event may have        *)
(* MAXPACKET_2 - TAILPOS - 64 = 8956 less.)                                *)
EventsFit ==
  /\ TailPos + MaxEvent <= DataSize
  /\ EventSizes + MaxPacket <= MaxEvent + TailPos + MinLen
  /\ BufEnd < RingSize

(***************************************************************************)
(* The sizes of events. S[n] is the size of the first n packets that the   *)
(* DDU has sent.                                                           *)
(***************************************************************************)
Measures(S) ==
  /\ \A i, k \in 0 .. ddu.sent : i <= k => S[i] <= S[k]
  /\ ddu.first \in 1 .. ddu.sent + 1 /\ S[ddu.sent] = S[ddu.first - 1] + ddu.size
  /\ \A p \in Seen :
       /\ p.first \in 1 .. p.id /\ p.id <= ddu.sent
       /\ S[p.id - 1] + p.len <= S[p.id]
       /\ S[p.id] + (IF p.ends THEN 0 ELSE MinLen) <= S[p.first - 1] + EventSizes

SizeInv == \E S \in [0 .. MaxSent -> Nat] : Measures(S)

\* At the start no event is too long.
LEMMA SizesInit == HookInit => SizeInv
<1> SUFFICES ASSUME HookInit PROVE SizeInv
  OBVIOUS
<1>1. ddu = [ sent |-> 0, first |-> 1, size |-> 0 ] /\ Seen = {}
  BY DEF HookInit, Seen, NoPacket
<1>2. [n \in 0 .. MaxSent |-> 0] \in [0 .. MaxSent -> Nat] /\ 0 \in 0 .. MaxSent
  BY HookAssumption
<1>3. Measures([n \in 0 .. MaxSent |-> 0])
  BY <1>1, <1>2 DEF Measures
<1> QED
  BY <1>2, <1>3 DEF SizeInv

\* An event is no longer if no packet has come.
LEMMA SizesQuiet ==
  ASSUME SizeInv, UNCHANGED ddu, \A q \in Seen' : \E p \in Seen : SeenAlike(p, q)
  PROVE  SizeInv'
<1>1. PICK S \in [0 .. MaxSent -> Nat] : Measures(S)
  BY DEF SizeInv
<1>2. Measures(S)'
  <2>1. ASSUME NEW q \in Seen'
        PROVE  /\ q.first \in 1 .. q.id /\ q.id <= ddu'.sent
               /\ S[q.id - 1] + q.len <= S[q.id]
               /\ S[q.id] + (IF q.ends THEN 0 ELSE MinLen) <= S[q.first - 1] + EventSizes
    <3>1. PICK p \in Seen : SeenAlike(p, q)
      OBVIOUS
    <3> QED
      BY <1>1, <3>1 DEF Measures, SeenAlike
  <2> QED
    BY <1>1, <2>1 DEF Measures
<1> QED
  BY <1>2 DEF SizeInv

(* One more packet.                                                        *)
LEMMA SizesGrow ==
  ASSUME TypeInv, SizeInv, NEW size \in Lens, NEW ends \in BOOLEAN, NextPacket(size, ends),
         Seen' \subseteq Seen \cup
           {[ id |-> ddu.sent + 1, first |-> ddu.first, len |-> size, ends |-> ends ]}
  PROVE  SizeInv'
<1>1. PICK S \in [0 .. MaxSent -> Nat] : Measures(S)
  BY DEF SizeInv
<1>2. /\ MaxSent \in Nat /\ ddu.sent \in 0 .. MaxSent /\ ddu.sent < MaxSent
      /\ size \in Nat /\ EventSizes \in Nat /\ MinLen \in Nat /\ ddu.size \in Nat
      /\ ddu.first \in Nat
  BY HookAssumption DEF TypeInv, HookTypeOK, NextPacket
<1>3. PICK n \in Nat : n = ddu.sent + 1 /\ n >= 1 /\ n <= MaxSent
  BY <1>2
<1>4. ddu.sent = n - 1 /\ n - 1 \in 0 .. MaxSent /\ n \in 0 .. MaxSent
  <2>1. PICK d \in Nat : d = ddu.sent
    BY <1>2
  <2>2. n = d + 1 /\ n <= MaxSent
    BY <1>3, <2>1
  <2>3. d = n - 1 /\ n - 1 \in 0 .. MaxSent /\ n \in 0 .. MaxSent
    BY <1>2, <2>2
  <2> QED
    BY <2>1, <2>3
<1>5. PICK f \in 1 .. n : f = ddu.first
  BY <1>1, <1>3, <1>4 DEF Measures
<1>6. PICK z \in Nat : z = ddu.size
  BY <1>2
<1>7. PICK b \in Nat : b = S[n - 1]
  BY <1>4
<1> DEFINE T == [S EXCEPT ![n] = b + size]
<1>8. /\ T \in [0 .. MaxSent -> Nat] /\ T[n] = b + size
      /\ \A i \in 0 .. n - 1 : T[i] = S[i] /\ T[i] \in Nat
  <2>1. b + size \in Nat /\ n \in 0 .. MaxSent
    BY <1>2, <1>4
  <2>2. \A i \in 0 .. n - 1 : i \in 0 .. MaxSent /\ i # n
    <3>1. PICK M \in Nat : M = MaxSent /\ n <= M
      BY <1>2, <1>3
    <3>2. \A i \in 0 .. n - 1 : i \in 0 .. M /\ i # n
      BY <3>1
    <3> QED
      BY <3>1, <3>2
  <2>3. T \in [0 .. MaxSent -> Nat] /\ T[n] = b + size
    BY <2>1
  <2>4. \A i \in 0 .. n - 1 : T[i] = S[i]
    BY <2>2
  <2> QED
    BY <2>2, <2>3, <2>4
<1> HIDE DEF T
<1>9. PICK a \in Nat : a = T[f - 1] /\ a = S[f - 1] /\ f - 1 \in 0 .. n - 1
  <2>1. f - 1 \in 0 .. n - 1
    BY <1>3
  <2> QED
    BY <1>8, <2>1
<1>10. b = a + z
  BY <1>1, <1>4, <1>5, <1>6, <1>7, <1>9 DEF Measures
<1>11. /\ ddu'.sent = n /\ ddu'.first = (IF ends THEN n + 1 ELSE f)
       /\ ddu'.size = (IF ends THEN 0 ELSE z + size)
       /\ z + size + (IF ends THEN 0 ELSE MinLen) <= EventSizes
  <2>1. ddu.sent + 1 = n /\ ddu.sent + 2 = n + 1
    BY <1>2, <1>3
  <2> QED
    BY <1>5, <1>6, <2>1 DEF NextPacket
<1>12. \A i, k \in 0 .. n : i <= k => T[i] <= T[k]
  <2>1. \A i, k \in 0 .. n - 1 : i <= k => T[i] <= T[k]
    BY <1>1, <1>4, <1>8 DEF Measures
  <2>2. n - 1 \in 0 .. n - 1 /\ T[n - 1] = b
    <3>1. n - 1 \in 0 .. n - 1
      BY <1>3
    <3> QED
      BY <1>7, <1>8, <3>1
  <2>3. \A i \in 0 .. n - 1 : T[i] <= b
    BY <2>1, <2>2
  <2>4. \A i \in 0 .. n - 1 : T[i] <= T[n]
    <3> TAKE i \in 0 .. n - 1
    <3>1. PICK t \in Nat : t = T[i]
      BY <1>8
    <3> QED
      BY <1>2, <1>8, <2>3, <3>1
  <2>5. \A i \in 0 .. n : i \in 0 .. n - 1 \/ i = n
    BY <1>3
  <2>6. T[n] <= T[n]
    BY <1>2, <1>8
  <2>7. \A k \in 0 .. n - 1 : ~ (n <= k)
    BY <1>3
  <2> QED
    BY <2>1, <2>4, <2>5, <2>6, <2>7
<1>13. ddu'.first \in 1 .. n + 1 /\ T[n] = T[ddu'.first - 1] + ddu'.size
  <2>1. CASE ends
    <3>1. ddu'.size = 0 /\ ddu'.first = n + 1
      BY <1>11, <2>1
    <3>2. (n + 1) - 1 = n /\ n + 1 \in 1 .. n + 1 /\ T[n] = T[n] + 0
      BY <1>2, <1>8
    <3> QED
      BY <3>1, <3>2
  <2>2. CASE ~ ends
    <3>1. ddu'.first = f /\ ddu'.size = z + size
      BY <1>11, <2>2
    <3>2. b + size = a + (z + size) /\ f \in 1 .. n + 1
      BY <1>2, <1>3, <1>10
    <3> QED
      BY <1>8, <1>9, <3>1, <3>2
  <2> QED
    BY <2>1, <2>2
<1>14. ASSUME NEW p \in Seen'
       PROVE  /\ p.first \in 1 .. p.id /\ p.id <= n
              /\ T[p.id - 1] + p.len <= T[p.id]
              /\ T[p.id] + (IF p.ends THEN 0 ELSE MinLen) <= T[p.first - 1] + EventSizes
  <2>1. CASE p \in Seen
    <3>1. p.id \in Nat \ {0} /\ p.first \in 1 .. p.id /\ p.id <= ddu.sent
      BY <1>1, <2>1, SeenTypes DEF Measures
    <3>2. PICK i \in Nat, g \in Nat : i = p.id /\ g = p.first
      BY <3>1
    <3>3. /\ i \in 0 .. n - 1 /\ i - 1 \in 0 .. n - 1 /\ g - 1 \in 0 .. n - 1
          /\ i <= n /\ g \in 1 .. i
      <4>1. i <= n - 1 /\ i >= 1 /\ g \in 1 .. i
        BY <1>4, <3>1, <3>2
      <4> QED
        BY <1>3, <4>1
    <3>4. T[i] = S[i] /\ T[i - 1] = S[i - 1] /\ T[g - 1] = S[g - 1]
      BY <1>8, <3>3
    <3> QED
      BY <1>1, <2>1, <3>2, <3>3, <3>4 DEF Measures
  <2>2. CASE p = [ id |-> ddu.sent + 1, first |-> ddu.first, len |-> size, ends |-> ends ]
    <3>1. p.id = n /\ p.first = f /\ p.len = size /\ p.ends = ends
      BY <1>3, <1>5, <2>2
    <3>2. n - 1 \in 0 .. n - 1 /\ T[n - 1] = b
      BY <1>3, <1>7, <1>8
    <3>3. T[n - 1] + size <= T[n]
      BY <1>2, <1>8, <3>2
    <3>4. T[n] + (IF ends THEN 0 ELSE MinLen) <= T[f - 1] + EventSizes
      <4>1. CASE ends
        <5>1. z + size + 0 <= EventSizes
          BY <1>11, <4>1
        <5>2. (a + z + size) + 0 <= a + EventSizes
          BY <1>2, <5>1
        <5> QED
          BY <1>8, <1>9, <1>10, <4>1, <5>2
      <4>2. CASE ~ ends
        <5>1. z + size + MinLen <= EventSizes
          BY <1>11, <4>2
        <5>2. (a + z + size) + MinLen <= a + EventSizes
          BY <1>2, <5>1
        <5> QED
          BY <1>8, <1>9, <1>10, <4>2, <5>2
      <4> QED
        BY <4>1, <4>2
    <3>5. f \in 1 .. n /\ n <= n
      BY <1>3
    <3> QED
      BY <3>1, <3>3, <3>4, <3>5
  <2> QED
    BY <2>1, <2>2
<1>15. Measures(T)'
  BY <1>11, <1>12, <1>13, <1>14 DEF Measures
<1> QED
  BY <1>8, <1>15 DEF SizeInv

\* No event gets too long.
LEMMA SizesNext ==
  ASSUME TypeInv, SizeInv, [DriverNext]_hookVars
  PROVE  SizeInv'
<1>1. ASSUME NEW size \in Lens, NEW ends \in BOOLEAN, Lose(size, ends) PROVE SizeInv'
  <2>1. NextPacket(size, ends) /\ Seen' = Seen
    BY <1>1 DEF Lose, cpus, ghosts, Seen
  <2> QED
    BY <2>1, SizesGrow
<1>2. ASSUME NEW c \in CPUs, NEW size \in Lens, NEW ends \in BOOLEAN, Receive(c, size, ends)
      PROVE  SizeInv'
  BY <1>2, SeenReceive, SizesGrow
<1>3. CASE \E c \in CPUs : HookStep(c) \/ RacedStep(c)
  BY <1>3, SeenHook, SeenRaced, SizesQuiet
<1>4. CASE Switch \/ ResetStep \/ UNCHANGED hookVars
  BY <1>4, SeenOthers, SizesQuiet
<1> QED
  BY <1>1, <1>2, <1>3, <1>4 DEF DriverNext, Environment
(***************************************************************************)
(* Where the packets of one event lie.                                     *)
(***************************************************************************)
LEMMA EntryNumbers ==
  ASSUME TypeInv, NEW k \in DOMAIN written
  PROVE  /\ written[k].off \in Nat /\ written[k].off <= BufEnd
         /\ written[k].len \in Nat /\ written[k].len >= 1 /\ written[k].len <= MaxPacket
         /\ written[k].slot \in Nat /\ written[k].lap \in Nat
         /\ written[k].id \in Nat \ {0} /\ written[k].first \in Nat
         /\ written[k].ends \in BOOLEAN /\ written[k] \in Seen
         /\ Off(k) = written[k].off /\ Slot(k) = written[k].slot /\ Lap(k) = written[k].lap
<1>1. /\ written[k].off \in 0 .. BufEnd /\ written[k].slot \in Slots
      /\ written[k].len \in 1 .. MaxPacket /\ written[k].lap \in Nat
      /\ written[k] \in Entries
  BY EntryFacts
<1>2. BufEnd \in Int /\ MaxPacket \in Nat /\ \A s \in Slots : s \in Nat
  BY RingAssumption DEF BufEnd, Slots
<1>3. \A e \in Entries : e.id \in Nat \ {0} /\ e.first \in Nat /\ e.ends \in BOOLEAN
  BY DEF Entries
<1>4. written[k] \in Seen
  BY <1>1, <1>3 DEF Seen
<1>5. written[k].off \in Nat /\ written[k].off <= BufEnd
  BY <1>1, <1>2
<1>6. written[k].len \in Nat /\ written[k].len >= 1 /\ written[k].len <= MaxPacket
  BY <1>1, <1>2
<1> QED
  BY <1>1, <1>2, <1>3, <1>4, <1>5, <1>6 DEF Off, Slot, Lap

(* There are no more entries than bytes: the ring is never the first to    *)
(* run out.                                                                *)
LEMMA SlotBelowOff ==
  ASSUME TypeInv, OrderParts, NEW k \in Places1
  PROVE  Slot(k) <= Off(k)
<1> DEFINE T == {i \in Places1 : ~ (Slot(i) <= Off(i))}
<1>0. Len(written) \in Nat /\ DOMAIN written = 1 .. Len(written)
  BY DEF TypeInv, HookTypeOK
<1>1. CASE T = {}
  BY <1>1
<1>2. CASE T # {}
  <2>1. T \in SUBSET Nat
    BY <1>0 DEF Places1
  <2>2. PICK i \in T : \A l \in T : i <= l
    BY <1>2, <2>1, LeastNumber
  <2>3. i # 1
    BY <2>2 DEF OrderParts, Chain
  <2>4. PICK h \in DOMAIN written : i = h + 1 /\ h \in Nat
    <3>1. i \in 1 .. Len(written) + 1 /\ i # 1
      BY <2>2, <2>3 DEF Places1
    <3>2. i - 1 \in 1 .. Len(written) /\ i = (i - 1) + 1
      BY <1>0, <3>1
    <3> QED
      BY <1>0, <3>2
  <2>5. Slot(h) <= Off(h)
    <3>1. h \in Places1 /\ ~ (i <= h)
      BY <1>0, <2>4 DEF Places1
    <3> QED
      BY <2>2, <3>1
  <2>6. PICK o \in Nat, s \in Nat, z \in Nat :
          o = written[h].off /\ s = written[h].slot /\ z = written[h].len /\ z >= 1 /\ s <= o
    BY <2>5, EntryNumbers
  <2>7. CASE Wraps(h)
    BY <2>2, <2>4, <2>7 DEF OrderParts, Chain
  <2>8. CASE ~ Wraps(h)
    <3>1. Off(i) = o + z /\ Slot(i) = s + 1
      BY <2>4, <2>6, <2>8 DEF OrderParts, Chain
    <3>2. s + 1 <= o + z
      BY <2>6
    <3> QED
      BY <2>2, <3>1, <3>2
  <2> QED
    BY <2>7, <2>8
<1> QED
  BY <1>1, <1>2

(* The packets s to e lie one behind the other.                            *)
Unbroken(s, e) ==
  \A k \in s .. e - 1 :
    /\ written[k + 1].off = written[k].off + written[k].len
    /\ written[k + 1].lap = written[k].lap

(* An event begins no later than BufEend: behind that, only an event       *)
(* without an end goes on.                                                 *)
LEMMA EventsStartLow ==
  ASSUME TypeInv, OrderParts, EventsFit, NEW s \in DOMAIN written, Starts(s)
  PROVE  written[s].off <= BufEend /\ BufEend \in Nat
<1>0. BufEend \in Nat
  BY RingAssumption DEF EventsFit, BufEend
<1>1. CASE s = 1
  <2>1. written[1].off = 0
    BY <1>1, EntryNumbers DEF OrderParts, Chain
  <2> QED
    BY <1>0, <1>1, <2>1
<1>2. CASE s # 1
  <2>1. s - 1 \in DOMAIN written /\ (s - 1) + 1 = s
    BY <1>2 DEF TypeInv, HookTypeOK
  <2>2. written[s - 1].eevent
    BY <1>2 DEF Starts
  <2>3. PICK o \in Nat, z \in Nat : o = written[s - 1].off /\ z = written[s - 1].len
    BY <2>1, EntryNumbers
  <2>4. CASE Wraps(s - 1)
    <3>1. written[s].off = 0
      BY <2>1, <2>4, EntryNumbers DEF OrderParts, Chain
    <3> QED
      BY <1>0, <3>1
  <2>5. CASE ~ Wraps(s - 1)
    <3>1. written[s].off = o + z
      BY <2>1, <2>3, <2>5, EntryNumbers DEF OrderParts, Chain
    <3>2. ~ (o + z > BufEend)
      BY <2>2, <2>3, <2>5 DEF Wraps, WrapsAt
    <3> QED
      BY <1>0, <2>3, <3>1, <3>2
  <2> QED
    BY <2>4, <2>5
<1> QED
  BY <1>1, <1>2

(* So an event that is complete so far is in one piece: it fits in between *)
(* BufEend and BufEnd.                                                     *)
LEMMA Unsplit ==
  ASSUME TypeInv, OrderParts, FlagsInv, EventsFit, SizeInv, resets = 0,
         NEW e \in DOMAIN written, NEW s \in 1 .. e, Sound(s, e)
  PROVE  Unbroken(s, e)
<1>0. /\ Len(written) \in Nat /\ DOMAIN written = 1 .. Len(written)
      /\ s \in Nat /\ e \in Nat /\ s >= 1 /\ s <= e /\ s \in DOMAIN written
      /\ \A k \in s .. e : k \in DOMAIN written /\ k \in Nat
  BY DEF TypeInv, HookTypeOK
<1>1. PICK S \in [0 .. MaxSent -> Nat] : Measures(S)
  BY DEF SizeInv
<1>2. PICK x \in Nat : x = BufEend /\ written[s].off <= x
  BY <1>0, EventsStartLow DEF Sound
<1>3. PICK g \in Nat \ {0} : g = written[s].first
  <2>1. written[s] \in Seen /\ written[s].id \in Nat
    BY <1>0, EntryNumbers
  <2>2. written[s].first \in 1 .. written[s].id
    BY <1>1, <2>1 DEF Measures
  <2> QED
    BY <2>1, <2>2
<1>4. PICK d \in Nat : d = ddu.sent /\ MaxSent \in Nat /\ d <= MaxSent
  BY HookAssumption DEF TypeInv, HookTypeOK
<1>5. ASSUME NEW k \in s .. e
      PROVE  /\ written[k].first = g
             /\ written[k].id \in 1 .. d /\ written[k].id >= g
             /\ g - 1 \in 0 .. MaxSent /\ written[k].id - 1 \in 0 .. MaxSent
             /\ written[k].id \in 0 .. MaxSent
             /\ S[written[k].id - 1] + written[k].len <= S[written[k].id]
             /\ S[written[k].id] + (IF written[k].ends THEN 0 ELSE MinLen) <= S[g - 1] + EventSizes
  <2>1. written[k] \in Seen /\ written[k].id \in Nat /\ k \in DOMAIN written
    BY <1>0, EntryNumbers
  <2>2. written[k].first = g
    <3>1. s \in s .. e
      BY <1>0
    <3> QED
      BY <1>3, <3>1 DEF Sound, Together
  <2>3. /\ written[k].first \in 1 .. written[k].id /\ written[k].id <= ddu.sent
        /\ S[written[k].id - 1] + written[k].len <= S[written[k].id]
        /\ S[written[k].id] + (IF written[k].ends THEN 0 ELSE MinLen) <= S[written[k].first - 1] + EventSizes
    BY <1>1, <2>1 DEF Measures
  <2>4. PICK i \in Nat : i = written[k].id
    BY <2>1
  <2>5. g <= i /\ i <= d /\ g >= 1
    BY <1>3, <1>4, <2>2, <2>3, <2>4
  <2>6. i \in 1 .. d /\ g - 1 \in 0 .. MaxSent /\ i - 1 \in 0 .. MaxSent /\ i \in 0 .. MaxSent
    <3>1. PICK M \in Nat : M = MaxSent /\ d <= M
      BY <1>4
    <3>2. i \in 1 .. d /\ g - 1 \in 0 .. M /\ i - 1 \in 0 .. M /\ i \in 0 .. M
      BY <2>5, <3>1
    <3> QED
      BY <3>1, <3>2
  <2> QED
    BY <1>4, <2>2, <2>3, <2>4, <2>5, <2>6
<1>6. PICK a \in Nat : a = S[g - 1]
  <2>1. s \in s .. e
    BY <1>0
  <2>2. g - 1 \in 0 .. MaxSent
    BY <1>5, <2>1
  <2> QED
    BY <2>2
<1>7. PICK q \in Nat, y \in Nat : q = EventSizes /\ y = MinLen
  BY HookAssumption
<1> DEFINE Low(k) == written[k].off + a <= x + S[written[k].id - 1]
<1>8. Low(s)
  <2>1. CASE s = 1
    <3>1. written[1].off = 0
      BY <1>0, <2>1, EntryNumbers DEF OrderParts, Chain
    <3>2. a <= S[written[s].id - 1]
      <4>1. PICK i \in Nat : i = written[s].id /\ i >= g /\ i <= d
        <5>1. s \in s .. e
          BY <1>0
        <5>2. written[s].id \in 1 .. d /\ written[s].id >= g
          BY <1>5, <5>1
        <5> QED
          BY <5>2
      <4>2. g - 1 \in 0 .. d /\ i - 1 \in 0 .. d /\ g - 1 <= i - 1
        <5>1. g >= 1 /\ g <= i /\ i <= d
          BY <4>1
        <5> QED
          BY <5>1
      <4> QED
        BY <1>1, <1>4, <1>6, <4>1, <4>2 DEF Measures
    <3>3. PICK b \in Nat : b = S[written[s].id - 1]
      <4>1. s \in s .. e
        BY <1>0
      <4>2. written[s].id - 1 \in 0 .. MaxSent
        BY <1>5, <4>1
      <4> QED
        BY <4>2
    <3>4. 0 + a <= x + b
      BY <3>2, <3>3
    <3> QED
      BY <2>1, <3>1, <3>3, <3>4
  <2>2. CASE s # 1
    <3>1. written[s].first = written[s].id
      <4>1. s \in s .. e
        BY <1>0
      <4> QED
        BY <2>2, <4>1 DEF Sound, Together
    <3>2. S[written[s].id - 1] = a
      BY <1>3, <1>6, <3>1
    <3>3. PICK o \in Nat : o = written[s].off /\ o <= x
      BY <1>0, <1>2, EntryNumbers
    <3>4. o + a <= x + a
      BY <3>3
    <3> QED
      BY <3>2, <3>3, <3>4
  <2> QED
    BY <2>1, <2>2
<1>9. ASSUME NEW k \in s .. e - 1, Low(k)
      PROVE  /\ Low(k + 1)
             /\ written[k + 1].off = written[k].off + written[k].len
             /\ written[k + 1].lap = written[k].lap
  <2>1. /\ k \in s .. e /\ k + 1 \in s .. e /\ k \in DOMAIN written /\ k + 1 \in DOMAIN written
        /\ k \in Nat
    BY <1>0
  <2>2. PICK o \in Nat, z \in Nat, t \in Nat, i \in Nat \ {0} :
          /\ o = written[k].off /\ z = written[k].len /\ t = written[k].slot /\ i = written[k].id
          /\ z >= 1 /\ t <= o
    <3>1. k \in Places1
      BY <1>0, <2>1 DEF Places1
    <3>2. written[k].slot <= written[k].off
      BY <2>1, <3>1, SlotBelowOff, EntryNumbers
    <3> QED
      BY <2>1, <3>2, EntryNumbers
  <2>3. PICK b \in Nat, c \in Nat : b = S[i - 1] /\ c = S[i]
    BY <1>5, <2>1, <2>2
  <2>4. b + z <= c /\ o + a <= x + b
    BY <1>5, <1>9, <2>1, <2>2, <2>3
  <2>5. c + y <= a + q
    <3>1. ~ written[k].ends
      BY <2>1 DEF Sound, FlagsInv, EndsInv
    <3> QED
      BY <1>5, <1>6, <1>7, <2>1, <2>2, <2>3, <3>1
  <2>6. o + z <= BufEnd /\ t + 1 < RingSize
    <3>1. PICK size \in Nat, packet \in Nat, event \in Nat, pos \in Nat, ring \in Nat :
            /\ size = DataSize /\ packet = MaxPacket /\ event = MaxEvent /\ pos = TailPos
            /\ ring = RingSize
      BY RingAssumption
    <3>2. x = size - pos - event /\ BufEnd = size - packet
      BY <1>2, <3>1 DEF BufEend, BufEnd
    <3>3. q + packet <= event + pos + y /\ size - packet < ring
      BY <1>7, <3>1, <3>2 DEF EventsFit
    <3>4. o + z + y <= x + q
      BY <2>4, <2>5
    <3>5. o + z <= size - packet
      BY <3>2, <3>3, <3>4
    <3>6. t + 1 < ring
      <4>1. t + 1 <= o + z
        <5>1. t <= o /\ z >= 1
          BY <2>2
        <5> QED
          BY <5>1
      <4>2. size - packet < ring
        BY <3>3
      <4> QED
        BY <3>5, <4>1, <4>2
    <3> QED
      BY <3>1, <3>2, <3>5, <3>6
  <2>7. ~ Wraps(k)
    <3>1. ~ written[k].eevent
      BY DEF Sound
    <3>2. ~ (o + z > BufEnd) /\ ~ (t + 1 >= RingSize)
      <4>1. BufEnd \in Int /\ RingSize \in Int
        BY RingAssumption DEF BufEnd
      <4> QED
        BY <2>6, <4>1
    <3> QED
      BY <2>2, <3>1, <3>2 DEF Wraps, WrapsAt
  <2>8. written[k + 1].off = o + z /\ written[k + 1].lap = written[k].lap
    BY <2>1, <2>2, <2>7, EntryNumbers DEF OrderParts, Chain
  <2>9. written[k + 1].id = i + 1
    <3>1. PICK h \in Nat : h = written[s].id
      BY <1>0, EntryNumbers
    <3>2. written[k].id = h + (k - s) /\ written[k + 1].id = h + ((k + 1) - s)
      BY <2>1, <3>1 DEF Sound, Together
    <3>3. h + ((k + 1) - s) = (h + (k - s)) + 1
      BY <1>0, <2>1
    <3> QED
      BY <2>2, <3>2, <3>3
  <2>10. S[written[k + 1].id - 1] = c
    <3>1. (i + 1) - 1 = i
      BY <2>2
    <3> QED
      BY <2>3, <2>9, <3>1
  <2>11. (o + z) + a <= x + c
    BY <2>4
  <2> QED
    BY <2>2, <2>8, <2>10, <2>11
<1> HIDE DEF Low
<1>10. \A k \in s .. e : Low(k)
  <2> DEFINE T == {k \in s .. e : ~ Low(k)}
  <2>1. CASE T = {}
    BY <2>1
  <2>2. CASE T # {}
    <3>1. T \in SUBSET Nat
      BY <1>0
    <3>2. PICK k \in T : \A l \in T : k <= l
      BY <2>2, <3>1, LeastNumber
    <3>3. k - 1 \in s .. e - 1 /\ k - 1 \in s .. e /\ (k - 1) + 1 = k /\ ~ (k <= k - 1)
      BY <1>0, <1>8, <3>2
    <3> QED
      BY <1>9, <3>2, <3>3
  <2> QED
    BY <2>1, <2>2
<1> QED
  BY <1>0, <1>9, <1>10 DEF Unbroken
(* Of packets one behind the other, a later one lies behind.               *)
LEMMA LaterIsBehind ==
  ASSUME TypeInv, NEW e \in DOMAIN written, NEW s \in 1 .. e, Unbroken(s, e),
         NEW i \in s .. e, NEW k \in s .. e, i < k
  PROVE  written[i].off + written[i].len <= written[k].off
<1>0. /\ s \in Nat /\ e \in Nat /\ \A l \in s .. e : l \in DOMAIN written /\ l \in Nat
  BY DEF TypeInv, HookTypeOK
<1> DEFINE T == {l \in s .. e : i < l /\ ~ (written[i].off + written[i].len <= written[l].off)}
<1>1. CASE T = {}
  BY <1>1
<1>2. CASE T # {}
  <2>1. T \in SUBSET Nat
    BY <1>0
  <2>2. PICK l \in T : \A h \in T : l <= h
    BY <1>2, <2>1, LeastNumber
  <2>3. /\ l - 1 \in s .. e - 1 /\ l - 1 \in s .. e /\ (l - 1) + 1 = l /\ ~ (l <= l - 1)
        /\ i <= l - 1
    BY <1>0, <2>2
  <2>4. written[l].off = written[l - 1].off + written[l - 1].len
    BY <2>3 DEF Unbroken
  <2>5. PICK a \in Nat, b \in Nat, c \in Nat :
          /\ a = written[i].off + written[i].len
          /\ b = written[l - 1].off /\ c = written[l - 1].len
    <3>1. l - 1 \in DOMAIN written /\ i \in DOMAIN written
      BY <1>0, <2>3
    <3>2. written[i].off \in Nat /\ written[i].len \in Nat
      BY <3>1, EntryNumbers
    <3>3. written[l - 1].off \in Nat /\ written[l - 1].len \in Nat
      BY <3>1, EntryNumbers
    <3> QED
      BY <3>2, <3>3
  <2>6. CASE i = l - 1
    BY <2>2, <2>4, <2>5, <2>6
  <2>7. CASE i # l - 1
    <3>1. i < l - 1 /\ l - 1 \notin T
      BY <1>0, <2>2, <2>3, <2>7
    <3>2. a <= b
      BY <2>3, <2>5, <3>1
    <3> QED
      BY <2>2, <2>4, <2>5, <3>2
  <2> QED
    BY <2>6, <2>7
<1> QED
  BY <1>1, <1>2

(* And leave nothing between them.                                         *)
LEMMA Covered ==
  ASSUME TypeInv, NEW e \in DOMAIN written, NEW s \in 1 .. e, Unbroken(s, e),
         NEW u \in written[s].off .. written[e].off + written[e].len - 1
  PROVE  \E k \in s .. e : u \in written[k].off .. written[k].off + written[k].len - 1
<1>0. /\ s \in Nat /\ e \in Nat /\ s <= e /\ \A l \in s .. e : l \in DOMAIN written /\ l \in Nat
  BY WrittenFacts
<1> DEFINE T == {l \in s .. e : u <= written[l].off + written[l].len - 1}
<1>1. e \in T /\ T \in SUBSET Nat
  BY <1>0
<1>2. PICK l \in T : \A h \in T : l <= h
  BY <1>1, LeastNumber
<1>3. u \in Int /\ written[l].off \in Int /\ written[l].len \in Int
  <2>1. written[s].off \in Nat /\ written[l].off \in Nat /\ written[l].len \in Nat
    BY <1>0, EntryNumbers
  <2> QED
    BY <2>1
<1>4. written[l].off <= u
  <2>1. CASE l = s
    BY <2>1
  <2>2. CASE l # s
    <3>1. /\ l - 1 \in s .. e - 1 /\ l - 1 \in s .. e /\ (l - 1) + 1 = l /\ ~ (l <= l - 1)
      BY <1>0, <1>2, <2>2
    <3>2. ~ (u <= written[l - 1].off + written[l - 1].len - 1)
      BY <1>2, <3>1
    <3>3. written[l].off = written[l - 1].off + written[l - 1].len
      BY <3>1 DEF Unbroken
    <3>4. PICK b \in Nat, c \in Nat : b = written[l - 1].off /\ c = written[l - 1].len
      BY <1>0, <3>1, EntryNumbers
    <3>5. ~ (u <= b + c - 1) /\ written[l].off = b + c
      BY <3>2, <3>3, <3>4
    <3> QED
      BY <1>3, <3>4, <3>5
  <2> QED
    BY <2>1, <2>2
<1> QED
  BY <1>2, <1>3, <1>4

(***************************************************************************)
(* The buffer that a call hands over, or is to hand over: the packets of   *)
(* the call, which are then all of one event so far.                       *)
(***************************************************************************)
Pointed(j) ==
  /\ ids = <<>> => len = 0
  /\ ids # <<>> /\ rpc # "returned" /\ ~ insideEventWithMissingPackets => len > 0
  /\ ids # <<>> /\ fresh /\ "PacketsMissing" \notin theErrorFlag => len > 0
  /\ len > 0 => /\ buf_data = written[j - Len(ids)].off
                /\ buf_data + len = written[j - 1].off + written[j - 1].len

BufferInv ==
  Trusted /\ Pace = "samelap" =>
    \E j \in Places1 : Pos(j) /\ Account(j) /\ Pointed(j)

Numbered(s, e) == \A k \in s .. e : written[k].id = written[s].id + (k - s)

(* What is known of a reader that keeps up and of the call it is in.       *)
LEMMA ReaderNow ==
  ASSUME SpyInv, Trusted, Pace = "samelap", NEW j \in Places1, Pos(j), Account(j)
  PROVE  /\ TypeInv /\ OrderParts /\ Regular /\ Mutex /\ ReaderTypeOK
         /\ At(j) /\ Unread(j) /\ Paced /\ NoFalseAlarm /\ Status /\ CallOf(j) /\ Handed(j)
<1>1. /\ TypeInv /\ OrderParts /\ Regular /\ Mutex /\ ReaderTypeOK
  BY SpyFacts DEF Trusted, OrderInv, OrderParts
<1>2. PICK i \in Places1 : At(i) /\ Unread(i) /\ InStep(i)
  BY <1>1 DEF SpyInv, ReaderInv, KeepsUp
<1>3. i = j
  BY <1>1, <1>2, OnePosition DEF At, Pos
<1>4. NoFalseAlarm /\ Paced
  BY <1>1, <1>2 DEF InStep, SpyInv, ReaderInv
<1> QED
  BY <1>1, <1>2, <1>3, <1>4 DEF Account

(* The packets of a call with data.                                        *)
LEMMA BufferPackets ==
  ASSUME SpyInv, FlagsInv, SizeInv, EventsFit, Trusted, Pace = "samelap",
         NEW j \in Places1, Pos(j), Account(j), len > 0, ids # <<>>
  PROVE  \E m \in 1 .. j - 1 :
           /\ m = j - Len(ids) /\ j - 1 \in DOMAIN written /\ j \in Int
           /\ Unbroken(m, j - 1) /\ Numbered(m, j - 1)
           /\ \A k \in m .. j - 1 : k \in DOMAIN written
<1>0. TypeInv /\ OrderParts /\ CallOf(j) /\ Handed(j) /\ j \in Int /\ resets = 0
  BY ReaderNow DEF Places1, Regular
<1>1. PICK m \in 1 .. j - 1 : m = j - Len(ids) /\ j - 1 \in DOMAIN written
  BY <1>0, CallPackets
<1>2. PICK s \in 1 .. m : Sound(s, j - 1)
  BY <1>0, <1>1 DEF Handed
<1>3. s \in 1 .. j - 1 /\ s \in Int /\ m \in Int /\ s <= m /\ m <= j - 1 /\ s >= 1
  BY <1>0, <1>1, <1>2
<1>4. Unbroken(s, j - 1)
  BY <1>0, <1>1, <1>2, <1>3, Unsplit
<1>5. Unbroken(m, j - 1)
  <2>1. \A k \in m .. (j - 1) - 1 : k \in s .. (j - 1) - 1
    BY <1>0, <1>3
  <2> QED
    BY <1>4, <2>1 DEF Unbroken
<1>6. Numbered(m, j - 1)
  <2>1. m \in s .. j - 1
    BY <1>0, <1>3
  <2>2. \A k \in m .. j - 1 : /\ k \in s .. j - 1 /\ k \in Int
    BY <1>0, <1>3
  <2>3. PICK h \in Nat : h = written[s].id
    <3>1. s \in DOMAIN written
      BY <1>0, <1>1, <1>3, WrittenFacts
    <3> QED
      BY <1>0, <3>1, EntryNumbers
  <2>4. written[m].id = h + (m - s)
    BY <1>2, <2>1, <2>3 DEF Sound, Together
  <2>5. ASSUME NEW k \in m .. j - 1 PROVE written[k].id = written[m].id + (k - m)
    <3>1. written[k].id = h + (k - s)
      BY <1>2, <2>2, <2>3 DEF Sound, Together
    <3> QED
      BY <1>3, <2>2, <2>3, <2>4, <3>1
  <2> QED
    BY <2>5 DEF Numbered
<1>7. \A k \in m .. j - 1 : k \in DOMAIN written
  BY <1>0, <1>1, <1>3, WrittenFacts
<1> QED
  BY <1>0, <1>1, <1>5, <1>6, <1>7
(***************************************************************************)
(* Steps.                                                                  *)
(***************************************************************************)
LEMMA WrittenStays ==
  ASSUME SpyInv,
         \/ Arrivals \/ DisableBlock \/ UNCHANGED vars
         \/ \E c \in CPUs : Hook(c)
  PROVE  \A k \in DOMAIN written : written'[k] = written[k]
<1>1. CASE Arrivals \/ DisableBlock \/ UNCHANGED vars
  BY <1>1 DEF Arrivals, Environment, Receive, Lose, DisableBlock, SwitchPmissing, RaisePmissing,
              LowerPmissing, vars, hookVars, ghosts
<1>2. CASE \E c \in CPUs : Hook(c)
  <2>1. PICK c \in CPUs : Hook(c)
    BY <1>2
  <2>2. CASE Advance(c)
    <3>1. PICK W \in Nat : W = Len(written)
      BY SpyFacts
    <3> QED
      BY <2>2, <3>1, Moves, SpyFacts
  <2>3. CASE ~ Advance(c)
    BY <2>1, <2>3 DEF Hook, PacedLock, Lock, CopyData, Classify, PutWord, PutLength, PutTail, ghosts
  <2> QED
    BY <2>2, <2>3
<1> QED
  BY <1>1, <1>2

\* The driver leaves the reader's packets where they are.
LEMMA PointedDriver ==
  ASSUME SpyInv, FlagsInv, Trusted, Pace = "samelap", UNCHANGED readerVars,
         \/ Arrivals \/ DisableBlock \/ UNCHANGED vars
         \/ \E c \in CPUs : Hook(c),
         NEW j \in Places1, Pos(j), Account(j), Pointed(j)
  PROVE  Pointed(j)'
<1>1. UNCHANGED <<rpc, ids, len, theErrorFlag, insideEventWithMissingPackets, fresh, buf_data>>
  BY DEF readerVars, callResult
<1>2. CASE ids = <<>>
  <2>1. len = 0
    BY <1>2 DEF Pointed
  <2> QED
    BY <1>1, <1>2, <2>1 DEF Pointed
<1>3. CASE ids # <<>>
  <2>1. PICK m \in 1 .. j - 1 : m = j - Len(ids) /\ j - 1 \in DOMAIN written
    BY <1>3, ReaderNow, CallPackets DEF Regular
  <2>2. j \in Int /\ m \in DOMAIN written
    BY <2>1, SpyFacts DEF Places1
  <2>3. written'[m] = written[m] /\ written'[j - 1] = written[j - 1]
    BY <2>1, <2>2, WrittenStays
  <2>4. j - Len(ids') = m
    BY <1>1, <2>1
  <2> QED
    BY <1>1, <2>1, <2>3, <2>4 DEF Pointed
<1> QED
  BY <1>2, <1>3

(* The reader takes packet j.                                              *)
LEMMA BufferConsume ==
  ASSUME SpyInv, FlagsInv, SizeInv, EventsFit, Trusted, Pace = "samelap", UNCHANGED hookVars,
         Consume, NEW j \in Places1, Pos(j), Account(j), Pointed(j), Account(j + 1)'
  PROVE  Pointed(j + 1)'
<1>0. /\ TypeInv /\ OrderParts /\ Regular /\ At(j) /\ Unread(j) /\ Paced /\ Status /\ CallOf(j)
      /\ rpc = "loop" /\ ReaderTypeOK /\ Mutex
  BY ReaderNow DEF Consume
<1>1. /\ j \in DOMAIN written /\ entry.eevent = written[j].eevent /\ entryLen = written[j].len
      /\ entry.missing = written[j].missing /\ buf_pnt = written[j].off
      /\ ring_loop = written[j].lap
  BY <1>0, Loaded, EntryNumbers DEF Pos
<1>2. /\ UNCHANGED <<written, mem, pc, skb, buf_pnt_2, lap>>
  BY DriverStays
<1>3. PICK n \in Nat, l \in Nat, o \in Nat, z \in Nat :
        n = Len(ids) /\ l = len /\ o = written[j].off /\ z = written[j].len /\ z >= 1
  <2>1. ids \in Seq(Nat) /\ len \in Nat
    BY <1>0 DEF ReaderTypeOK
  <2>2. Len(ids) \in Nat
    BY <2>1
  <2>3. written[j].off \in Nat /\ written[j].len \in Nat /\ written[j].len >= 1
    BY <1>0, <1>1, EntryNumbers
  <2> QED
    BY <2>1, <2>2, <2>3
<1>4. /\ Len(ids') = n + 1 /\ ids' # <<>> /\ j \in Int /\ (j + 1) - Len(ids') = j - n
      /\ (j + 1) - 1 = j
  <2>1. ids' = Append(ids, entry.id) /\ ids \in Seq(Nat)
    BY <1>0 DEF Consume, ReaderTypeOK
  <2>2. Len(ids') = n + 1 /\ ids' # <<>>
    BY <1>3, <2>1
  <2>3. j \in Int
    BY <1>0, SpyFacts DEF Places1
  <2> QED
    BY <1>3, <2>2, <2>3
<1>5. /\ len' = IF Defective THEN 0 ELSE l + z
      /\ buf_data' = IF n = 0 THEN o ELSE buf_data
      /\ rpc' = (IF written[j].eevent THEN "returned" ELSE "tail")
      /\ insideEventWithMissingPackets' = (Defective /\ ~ written[j].eevent)
      /\ Defective = (written[j].missing \/ insideEventWithMissingPackets)
      /\ fresh' = fresh
      /\ "PacketsMissing" \in theErrorFlag' <=> "PacketsMissing" \in theErrorFlag \/ written[j].missing
  BY <1>0, <1>1, <1>3 DEF Consume, StaysDefective, Defective, Status
<1>6. CASE Defective
  <2>1. len' = 0 /\ (rpc' # "returned" => insideEventWithMissingPackets')
    BY <1>5, <1>6
  <2>2. fresh' => "PacketsMissing" \in theErrorFlag'
    <3>1. fresh /\ "PacketsMissing" \notin theErrorFlag => ~ insideEventWithMissingPackets
      BY <1>0 DEF CallOf
    <3> QED
      BY <1>5, <1>6, <3>1
  <2> QED
    BY <1>4, <2>1, <2>2 DEF Pointed
<1>7. CASE ~ Defective
  <2>1. len' = l + z /\ len' > 0 /\ len' \in Nat
    BY <1>3, <1>5, <1>7
  <2>2. buf_data' = written[j - n].off /\ buf_data' + len' = o + z
    <3>1. CASE ids = <<>>
      <4>1. n = 0 /\ l = 0
        BY <1>3, <3>1 DEF Pointed
      <4>2. buf_data' = o /\ len' = z /\ j - n = j
        BY <1>3, <1>4, <1>5, <2>1, <4>1
      <4> QED
        BY <1>3, <4>2
    <3>2. CASE ids # <<>>
      <4>1. n # 0 /\ l > 0
        <5>1. ids \in Seq(Nat)
          BY <1>0 DEF ReaderTypeOK
        <5>2. ~ insideEventWithMissingPackets
          BY <1>5, <1>7
        <5> QED
          BY <1>0, <1>3, <3>2, <5>1, <5>2 DEF Pointed
      <4>2. PICK m \in 1 .. j - 1 : m = j - n
        BY <1>3, <3>2, <4>1, BufferPackets
      <4>3. /\ buf_data = written[m].off
            /\ buf_data + l = written[j - 1].off + written[j - 1].len
        BY <1>3, <4>1, <4>2 DEF Pointed
      <4>4. PICK s \in 1 .. m : Sound(s, j)
        <5>1. Handed(j + 1)'
          BY DEF Account
        <5>2. \E s \in 1 .. (j + 1) - Len(ids') : Sound(s, (j + 1) - 1)'
          BY <1>4, <2>1, <5>1 DEF Handed
        <5>3. PICK s \in 1 .. m : Sound(s, j)'
          BY <1>4, <4>2, <5>2
        <5>4. Sound(s, j)
          BY <1>2, <5>3 DEF Sound, Starts, Together
        <5> QED
          BY <5>4
      <4>5. s \in 1 .. j /\ j - 1 \in s .. j - 1 /\ (j - 1) + 1 = j /\ j - 1 \in DOMAIN written
        BY <1>0, <1>1, <1>4, <4>2, <4>4, SpyFacts
      <4>6. Unbroken(s, j)
        BY <1>0, <1>1, <4>4, <4>5, Unsplit DEF Regular
      <4>7. written[j].off = written[j - 1].off + written[j - 1].len
        BY <4>5, <4>6 DEF Unbroken
      <4>8. buf_data \in Nat /\ buf_data + l = o /\ buf_data' = buf_data
        <5>1. m \in DOMAIN written
          BY <1>1, <4>2, <1>4, SpyFacts
        <5>2. buf_data \in Nat
          BY <1>0, <4>3, <5>1, EntryNumbers
        <5> QED
          BY <1>3, <1>5, <4>1, <4>3, <4>7, <5>2
      <4>9. buf_data' + len' = o + z
        BY <1>3, <2>1, <4>8
      <4> QED
        BY <4>2, <4>3, <4>8, <4>9
    <3> QED
      BY <3>1, <3>2
  <2> QED
    BY <1>2, <1>3, <1>4, <2>1, <2>2 DEF Pointed
<1> QED
  BY <1>6, <1>7
(* The other steps of the reader.                                          *)
LEMMA BufferLook ==
  ASSUME UNCHANGED hookVars, Timeout \/ Idle \/ SeeData \/ ReadWord \/ ReadLength,
         NEW j \in Places1, Pointed(j)
  PROVE  Pointed(j)'
<1>1. /\ UNCHANGED <<ids, len, buf_data, insideEventWithMissingPackets, fresh>>
      /\ rpc # "returned"
      /\ "PacketsMissing" \notin theErrorFlag' => "PacketsMissing" \notin theErrorFlag
  BY DEF Timeout, Idle, SeeData, ReadWord, ReadLength, callResult
<1>2. written' = written
  BY DriverStays
<1> QED
  BY <1>1, <1>2 DEF Pointed

\* A new call has no data yet.
LEMMA BufferCall ==
  ASSUME UNCHANGED hookVars, Call, NEW j \in Places1
  PROVE  Pointed(j)'
BY DEF Call, Pointed

\* At the start the reader has no data.
LEMMA BufferInit == Init => SizeInv /\ BufferInv
<1> SUFFICES ASSUME Init PROVE SizeInv /\ BufferInv
  OBVIOUS
<1>1. SizeInv
  BY SizesInit DEF Init
<1>2. ASSUME Trusted, Pace = "samelap"
      PROVE  \E j \in Places1 : Pos(j) /\ Account(j) /\ Pointed(j)
  <2>1. PICK j \in Places1 : Pos(j) /\ Account(j)
    BY <1>2, FlagsInit DEF EventInv
  <2>2. ids = <<>> /\ len = 0
    BY DEF Init, ReaderInit
  <2>3. Pointed(j)
    BY <2>2 DEF Pointed
  <2> QED
    BY <2>1, <2>3
<1> QED
  BY <1>1, <1>2 DEF BufferInv

\* Every step keeps the invariant about the reader's data.
LEMMA BufferNext ==
  ASSUME SpyInv, SpyInv', FlagsInv, EventInv', SizeInv, BufferInv, EventsFit, [Next]_vars
  PROVE  BufferInv'
<1> SUFFICES ASSUME Trusted', Pace = "samelap"
             PROVE  \E j \in Places1' : Pos(j)' /\ Account(j)' /\ Pointed(j)'
  BY DEF BufferInv
<1>0. /\ Trusted /\ Regular /\ Regular'
      /\ resets = 0 /\ resets' = 0 /\ reset = "no" /\ rpc # "ioctl"
  <2>1. Trusted /\ Regular /\ Regular'
    BY FlagsNext DEF Trusted
  <2> QED
    BY <2>1 DEF SpyInv, OrderInv, DataInv, Undisturbed, ReaderInv, Paced, Regular
<1>1. PICK j \in Places1 : Pos(j) /\ Account(j) /\ Pointed(j)
  BY <1>0 DEF BufferInv
<1>2. CASE Arrivals \/ DisableBlock \/ (\E c \in CPUs : Hook(c)) \/ UNCHANGED vars
  <2>1. UNCHANGED readerVars
    BY <1>2 DEF Arrivals, DisableBlock, Hook, vars
  <2>2. j \in Places1' /\ Pos(j)' /\ Account(j)'
    BY <1>0, <1>1, <1>2, <2>1, AccountDriver
  <2>3. Pointed(j)'
    BY <1>0, <1>1, <1>2, <2>1, PointedDriver
  <2> QED
    BY <2>2, <2>3
<1>3. CASE Reenter
  <2>1. UNCHANGED hookVars /\ Call
    BY <1>3 DEF Reenter
  <2>2. Account(j)'
    BY <1>1, <2>1, AccountCall
  <2>3. j \in Places1' /\ Pos(j)'
    BY <1>1, <2>1, DriverStays DEF Call, Pos, position
  <2> QED
    BY <2>1, <2>2, <2>3, BufferCall
<1>4. CASE Read
  <2>0. UNCHANGED hookVars
    BY <1>4 DEF Read
  <2>1. CASE Timeout \/ Idle \/ SeeData \/ ReadWord \/ ReadLength
    <3>1. Account(j)'
      BY <1>1, <2>0, <2>1, AccountLook
    <3>2. j \in Places1' /\ Pos(j)'
      BY <1>1, <2>0, <2>1, DriverStays
         DEF Timeout, Idle, SeeData, ReadWord, ReadLength, Pos, position
    <3> QED
      BY <1>1, <2>0, <2>1, <3>1, <3>2, BufferLook
  <2>2. CASE BufferOverwrite \/ LoopOverwrite
    <3>1. NoFalseAlarm'
      BY <1>0 DEF SpyInv, ReaderInv, KeepsUp, InStep
    <3> QED
      BY <2>2, <3>1 DEF BufferOverwrite, LoopOverwrite, Resync, NoFalseAlarm
  <2>3. CASE Consume
    <3>1. At(j)
      BY <1>0, <1>1, ReaderNow
    <3>2. j + 1 \in Places1' /\ Pos(j + 1)' /\ Account(j + 1)'
      BY <1>0, <1>1, <2>0, <2>3, <3>1, AccountConsume
    <3> QED
      BY <1>0, <1>1, <2>0, <2>3, <3>2, BufferConsume
  <2> QED
    BY <1>4, <2>1, <2>2, <2>3 DEF Read, ReadStep
<1>5. CASE StartReset \/ Reset
  BY <1>0, <1>5
     DEF StartReset, Reset, ResetBuf, ResetRing, ResetLoop, ResetProc, ResetTail, EndReset
<1>6. CASE \E c \in CPUs : RacedHook(c)
  BY <1>0, <1>6, MutexRaced DEF SpyInv, RacedHook
<1> QED
  BY <1>2, <1>3, <1>4, <1>5, <1>6 DEF Next

(* The buffer is that of the call's packets.                               *)
THEOREM BufferInvariant ==
  ASSUME EventsFit
  PROVE  Spec => [](SpyInv /\ FlagsInv /\ EventInv /\ SizeInv /\ BufferInv)
<1>1. /\ SpyInv /\ SpyInv' /\ FlagsInv /\ EventInv /\ EventInv' /\ SizeInv /\ BufferInv /\ [Next]_vars
      => SizeInv' /\ BufferInv'
  <2> SUFFICES ASSUME SpyInv, SpyInv', FlagsInv, EventInv', SizeInv, BufferInv, [Next]_vars
               PROVE  SizeInv' /\ BufferInv'
    OBVIOUS
  <2>1. SizeInv'
    BY DriverPart, SpyFacts, SizesNext
  <2> QED
    BY <2>1, BufferNext
<1> QED
  BY <1>1, BufferInit, EventInvariant, PTL DEF Spec

-----------------------------------------------------------------------------
(* Clean or not, the buffer that a call hands over lies in the data area:  *)
(* BufEend leaves room for an event to be written in one piece (readDDU    *)
(* returns a pointer, and the caller reads on from it).                    *)
THEOREM BufferStaysInBounds ==
  ASSUME Pace = "samelap", EventsFit
  PROVE  Spec => [](Trusted => BufferInBounds)
<1>1. SpyInv /\ FlagsInv /\ BufferInv => (Trusted => BufferInBounds)
  <2> SUFFICES ASSUME SpyInv, FlagsInv, BufferInv, Trusted PROVE buf_data + len <= DataSize
    BY DEF BufferInBounds
  <2>1. PICK j \in Places1 : Pos(j) /\ Account(j) /\ Pointed(j)
    BY DEF BufferInv
  <2>2. PICK size \in Nat, packet \in Nat :
          /\ size = DataSize /\ packet = MaxPacket /\ packet <= size /\ BufEnd = size - packet
    BY RingAssumption DEF BufEnd
  <2>3. CASE len = 0
    <3>1. buf_data \in 0 .. BufEnd
      BY SpyFacts DEF ReaderTypeOK
    <3> QED
      BY <2>2, <2>3, <3>1
  <2>4. CASE len # 0
    <3>1. len > 0 /\ ids # <<>>
      BY <2>1, <2>4, SpyFacts DEF Pointed, ReaderTypeOK
    <3>2. TypeInv /\ j - 1 \in DOMAIN written
      BY <2>1, <3>1, ReaderNow, CallPackets DEF Regular
    <3>3. buf_data + len = written[j - 1].off + written[j - 1].len
      BY <2>1, <3>1 DEF Pointed
    <3>4. PICK o \in Nat, z \in Nat :
            o = written[j - 1].off /\ z = written[j - 1].len /\ o <= BufEnd /\ z <= packet
      BY <2>2, <3>2, EntryNumbers
    <3> QED
      BY <2>2, <3>3, <3>4
  <2> QED
    BY <2>3, <2>4
<1> QED
  BY <1>1, BufferInvariant, PTL

(* What a caller gets of a clean event is that event's packets, each of    *)
(* them whole, one behind the other and nothing else, and it stays so      *)
(* until the driver comes round to one of them: nothing is copied, and     *)
(* nothing locks the driver out (readDDU).                                 *)
THEOREM DataStaysIntact ==
  ASSUME Pace = "samelap", EventsFit
  PROVE  Spec => [](Trusted => DataIntact)
<1>1. SpyInv /\ FlagsInv /\ SizeInv /\ BufferInv => (Trusted => DataIntact)
  <2> DEFINE region == buf_data .. buf_data + len - 1
  <2> SUFFICES ASSUME SpyInv, FlagsInv, SizeInv, BufferInv, Trusted, GotCleanEvent, len > 0,
                      {k \in DOMAIN written : written[k].id \in Range(ids)} \subseteq Survivors
               PROVE  /\ \A u, v \in region : u <= v => mem[u] <= mem[v]
                      /\ \A k \in DOMAIN ids :
                           Cardinality({u \in region : mem[u] = ids[k]}) = PacketOf(ids[k]).len
    BY DEF DataIntact
  <2>1. PICK j \in Places1 : Pos(j) /\ Account(j) /\ Pointed(j)
    BY DEF BufferInv
  <2>2. TypeInv /\ CallOf(j) /\ resets = 0
    BY <2>1, ReaderNow DEF Regular
  <2>3. ids # <<>> /\ len > 0
    BY <2>1, <2>2 DEF GotCleanEvent, CallOf
  <2>4. PICK m \in 1 .. j - 1 :
          /\ m = j - Len(ids) /\ j - 1 \in DOMAIN written /\ j \in Int
          /\ Unbroken(m, j - 1) /\ Numbered(m, j - 1)
          /\ \A k \in m .. j - 1 : k \in DOMAIN written
    BY <2>1, <2>3, BufferPackets
  <2>5. /\ buf_data = written[m].off
        /\ buf_data + len = written[j - 1].off + written[j - 1].len
        /\ \A k \in m .. j - 1 :
             \A u \in written[k].off .. written[k].off + written[k].len - 1 : mem[u] = written[k].id
    <3>1. ASSUME NEW k \in m .. j - 1 PROVE Holds(k)
      <4>1. PICK n \in Nat : n = Len(ids) /\ m = j - n /\ DOMAIN ids = 1 .. n
                             /\ \A i \in 1 .. n : ids[i] = written[m - 1 + i].id
        <5>1. ids \in Seq(Nat)
          BY SpyFacts DEF ReaderTypeOK
        <5> QED
          BY <2>2, <2>4, <5>1 DEF CallOf
      <4>2. k - m + 1 \in 1 .. n /\ m - 1 + (k - m + 1) = k
        BY <2>4, <4>1
      <4>3. written[k].id = ids[k - m + 1] /\ k - m + 1 \in DOMAIN ids
        BY <4>1, <4>2
      <4>4. k \in DOMAIN written /\ written[k].id \in Range(ids)
        BY <2>4, <4>3 DEF Range
      <4>5. k \in Survivors
        BY <4>4
      <4> QED
        BY <2>2, <4>5 DEF SpyInv, DataInv, Undisturbed, Intact
    <3> QED
      BY <2>1, <2>3, <2>4, <3>1 DEF Pointed, Holds
  <2>6. m \in Nat /\ m \in m .. j - 1 /\ j - 1 \in m .. j - 1 /\ m \in DOMAIN written
    BY <2>4
  <2>7. PICK lo \in Nat, hi \in Nat :
          lo = written[m].off /\ hi = written[j - 1].off + written[j - 1].len
    <3>1. written[j - 1].off \in Nat /\ written[j - 1].len \in Nat
      BY <2>2, <2>4, EntryNumbers
    <3> QED
      BY <2>2, <2>6, <3>1, EntryNumbers
  <2>8. region = lo .. hi - 1
    <3>1. buf_data = lo /\ buf_data + len = hi
      BY <2>5, <2>7
    <3>2. buf_data \in Nat /\ len \in Nat
      BY SpyFacts DEF ReaderTypeOK
    <3>3. buf_data + len - 1 = hi - 1
      BY <3>1, <3>2
    <3> QED
      BY <3>1, <3>3
  <2> HIDE DEF region
  <2>9. ASSUME NEW u \in region
        PROVE  \E k \in m .. j - 1 : u \in written[k].off .. written[k].off + written[k].len - 1
                                     /\ mem[u] = written[k].id
    <3>1. u \in written[m].off .. written[j - 1].off + written[j - 1].len - 1
      <4>1. PICK o \in Nat, z \in Nat : o = written[j - 1].off /\ z = written[j - 1].len
        BY <2>2, <2>4, EntryNumbers
      <4>2. hi = o + z /\ u \in lo .. hi - 1
        BY <2>8, <2>9, <2>7, <4>1
      <4>3. u \in lo .. o + z - 1
        BY <4>2
      <4> QED
        BY <2>7, <4>1, <4>3
    <3>2. PICK k \in m .. j - 1 : u \in written[k].off .. written[k].off + written[k].len - 1
      BY <2>2, <2>4, <2>6, <3>1, Covered
    <3> QED
      BY <2>5, <3>2
  <2>10. \A i, k \in m .. j - 1 : (i < k => written[i].id < written[k].id)
                                 /\ written[i].id \in Nat
    <3> TAKE i, k \in m .. j - 1
    <3>1. PICK h \in Nat : h = written[m].id
      BY <2>2, <2>6, EntryNumbers
    <3>2. written[i].id = h + (i - m) /\ written[k].id = h + (k - m)
      BY <3>1, <2>4 DEF Numbered
    <3>3. i - m \in Nat /\ k - m \in Nat /\ i \in Int /\ k \in Int
      BY <2>6
    <3> QED
      BY <3>1, <3>2, <3>3
  <2>11. ASSUME NEW u \in region, NEW v \in region, u <= v PROVE mem[u] <= mem[v]
    <3>1. PICK i \in m .. j - 1 : u \in written[i].off .. written[i].off + written[i].len - 1
                                  /\ mem[u] = written[i].id
      BY <2>9
    <3>2. PICK k \in m .. j - 1 : v \in written[k].off .. written[k].off + written[k].len - 1
                                  /\ mem[v] = written[k].id
      BY <2>9
    <3>3. ~ (k < i)
      <4> SUFFICES ASSUME k < i PROVE FALSE
        OBVIOUS
      <4>1. written[k].off + written[k].len <= written[i].off
        BY <2>2, <2>4, <2>6, LaterIsBehind
      <4>2. PICK a \in Nat, b \in Nat, c \in Nat :
              a = written[k].off /\ b = written[k].len /\ c = written[i].off
        BY <2>2, <2>4, EntryNumbers
      <4>3. v <= a + b - 1 /\ c <= u /\ a + b <= c /\ u \in Int /\ v \in Int
        BY <3>1, <3>2, <4>1, <4>2
      <4> QED
        BY <2>11, <4>2, <4>3
    <3>4. i \in Int /\ k \in Int
      BY <2>6
    <3>5. i < k \/ i = k
      BY <3>3, <3>4
    <3> QED
      BY <2>10, <3>1, <3>2, <3>5
  <2>12. ASSUME NEW x \in DOMAIN ids
         PROVE  Cardinality({u \in region : mem[u] = ids[x]}) = PacketOf(ids[x]).len
    <3>1. PICK k \in m .. j - 1 : ids[x] = written[k].id /\ PacketOf(ids[x]) = written[k]
      <4>1. PICK n \in Nat : /\ n = Len(ids) /\ m = j - n /\ x \in 1 .. n
                             /\ ids[x] = written[m - 1 + x].id
                             /\ PacketOf(ids[x]) = written[m - 1 + x]
        <5>1. PICK h \in 1 .. j - 1 :
                /\ h = j - Len(ids)
                /\ \A i \in 1 .. Len(ids) : /\ ids[i] = written[h - 1 + i].id
                                          /\ PacketOf(ids[i]) = written[h - 1 + i]
                /\ Len(ids) \in Nat /\ DOMAIN ids = 1 .. Len(ids)
          BY <2>2, <2>3, CallPackets
        <5>2. h = m
          BY <2>4, <5>1
        <5> QED
          BY <5>1, <5>2
      <4>2. m - 1 + x \in m .. j - 1
        BY <2>4, <2>6, <4>1
      <4> QED
        BY <4>1, <4>2
    <3>2. PICK a \in Nat, z \in Nat : a = written[k].off /\ z = written[k].len /\ z >= 1
      BY <2>2, <2>4, EntryNumbers
    <3>3. a .. a + z - 1 \subseteq region
      <4>1. written[m].off <= a
        <5>1. CASE k = m
          BY <2>2, <2>6, <3>2, <5>1, EntryNumbers
        <5>2. CASE k # m
          <6>1. m < k
            BY <2>6, <5>2
          <6>2. written[m].off + written[m].len <= written[k].off
            BY <2>2, <2>4, <2>6, <6>1, LaterIsBehind
          <6>3. PICK b \in Nat, c \in Nat : b = written[m].off /\ c = written[m].len
            BY <2>2, <2>6, EntryNumbers
          <6> QED
            BY <3>2, <6>2, <6>3
        <5> QED
          BY <5>1, <5>2
      <4>2. a + z <= written[j - 1].off + written[j - 1].len
        <5>1. PICK b \in Nat, c \in Nat : b = written[j - 1].off /\ c = written[j - 1].len
          BY <2>2, <2>4, EntryNumbers
        <5>2. CASE k = j - 1
          BY <3>2, <5>1, <5>2
        <5>3. CASE k # j - 1
          <6>1. k < j - 1
            BY <2>6, <5>3
          <6>2. written[k].off + written[k].len <= written[j - 1].off
            BY <2>2, <2>4, <2>6, <6>1, LaterIsBehind
          <6> QED
            BY <3>2, <5>1, <6>2
        <5> QED
          BY <5>2, <5>3
      <4>3. lo <= a /\ a + z <= hi
        BY <2>7, <4>1, <4>2
      <4>4. ASSUME NEW u \in a .. a + z - 1 PROVE u \in lo .. hi - 1
        BY <2>7, <3>2, <4>3
      <4> QED
        BY <2>8, <4>4
    <3>4. ASSUME NEW u \in region, mem[u] = written[k].id PROVE u \in a .. a + z - 1
      <4>1. PICK i \in m .. j - 1 : u \in written[i].off .. written[i].off + written[i].len - 1
                                    /\ mem[u] = written[i].id
        BY <2>9
      <4>2. written[i].id = written[k].id /\ written[i].id \in Nat /\ i \in Int /\ k \in Int
        BY <2>6, <2>10, <3>4, <4>1
      <4>3. ~ (i < k) /\ ~ (k < i)
        BY <2>10, <4>2
      <4>4. i = k
        BY <4>2, <4>3
      <4> QED
        BY <3>2, <4>1, <4>4
    <3>5. {u \in region : mem[u] = ids[x]} = a .. a + z - 1
      <4>1. \A u \in a .. a + z - 1 : mem[u] = ids[x]
        BY <2>5, <3>1, <3>2
      <4> QED
        BY <3>1, <3>3, <3>4, <4>1
    <3>6. Cardinality(a .. a + z - 1) = z
      <4>1. a \in Int /\ a + z - 1 \in Int /\ ~ (a > a + z - 1) /\ (a + z - 1) - a + 1 = z
        BY <3>2
      <4> QED
        BY <4>1, FS_Interval
    <3> QED
      BY <3>1, <3>2, <3>5, <3>6
  <2> QED
    BY <2>11, <2>12
<1> QED
  BY <1>1, BufferInvariant, PTL
=============================================================================
