---------------------------- MODULE StepWalkProofs ----------------------------
(***************************************************************************)
(* Theorems about the walk of a run's steps: for any manifests, nested to  *)
(* any depth, any number of parks and resumptions, and any statements that *)
(* throw, no effect overtakes what comes before it, and a step that        *)
(* completed is not executed again; a condition is decided one way unless  *)
(* what it asks for was executed again; and the end of a run is on record: *)
(* its time is counted, its rows are closed.                               *)
(*                                                                         *)
(* The inductive invariants build on each other: WalkInv (what is settled  *)
(* before the walk), PlaceInv (where the calls stand, and the turns that   *)
(* led there), AloneInv (what a condition was told), TimeInv (the time     *)
(* each call has counted), RowInv (rows, settled steps and calls), and     *)
(* LooseInv (why a row is open).                                           *)
(***************************************************************************)
EXTENDS StepWalk, SequenceTheorems, TLAPS

----------------------------------------------------------------------------
(* Sequences as stacks *)

LEMMA Pushed ==
  ASSUME NEW S, NEW s \in Seq(S), NEW e \in S
  PROVE  /\ Append(s, e) \in Seq(S) /\ Append(s, e) # <<>>
         /\ Len(Append(s, e)) = Len(s) + 1
         /\ Last(Append(s, e)) = e /\ Front(Append(s, e)) = s
         /\ \A i \in 1 .. Len(s) : Append(s, e)[i] = s[i]
  <1>. DEFINE t == Append(s, e)
  <1>0. Len(s) \in Nat
    BY LenProperties
  <1>1. /\ t \in Seq(S) /\ t # <<>> /\ Len(t) = Len(s) + 1 /\ t[Len(s) + 1] = e
        /\ \A i \in 1 .. Len(s) : t[i] = s[i]
    BY AppendProperties
  <1>2. Last(t) = e
    BY <1>1 DEF Last
  <1>3. Front(t) = SubSeq(t, 1, Len(s))
    BY <1>0, <1>1 DEF Front
  <1>4. \A i \in 1 .. Len(s) : t[i] \in S
    BY <1>1, ElementOfSeq
  <1>. HIDE DEF t
  <1>5. /\ SubSeq(t, 1, Len(s)) \in Seq(S) /\ Len(SubSeq(t, 1, Len(s))) = Len(s)
        /\ \A i \in 1 .. Len(s) : SubSeq(t, 1, Len(s))[i] = t[i]
    BY <1>0, <1>4, SubSeqProperties
  <1>6. SubSeq(t, 1, Len(s)) = s
    BY <1>1, <1>5, SeqEqual
  <1>. QED  BY <1>1, <1>2, <1>3, <1>6 DEF t

LEMMA Popped ==
  ASSUME NEW S, NEW s \in Seq(S), s # <<>>
  PROVE  /\ Len(s) \in Nat \ {0} /\ Last(s) = s[Len(s)] /\ Last(s) \in S
         /\ Front(s) \in Seq(S) /\ Len(Front(s)) = Len(s) - 1
         /\ \A i \in 1 .. Len(s) - 1 : Front(s)[i] = s[i]
         /\ s = Append(Front(s), Last(s))
  <1>1. Len(s) \in Nat \ {0}
    BY EmptySeq
  <1>2. \A i \in 1 .. Len(s) : s[i] \in S
    BY ElementOfSeq
  <1>3. /\ SubSeq(s, 1, Len(s) - 1) \in Seq(S)
        /\ Len(SubSeq(s, 1, Len(s) - 1)) = Len(s) - 1
        /\ \A i \in 1 .. Len(s) - 1 : SubSeq(s, 1, Len(s) - 1)[i] = s[i]
    <2>1. Len(s) - 1 \in Int /\ 1 \in Int /\ \A i \in 1 .. Len(s) - 1 : s[i] \in S
      BY <1>1, <1>2
    <2>2. PICK n \in Int : n = Len(s) - 1
      BY <2>1
    <2>3. /\ SubSeq(s, 1, n) \in Seq(S) /\ Len(SubSeq(s, 1, n)) = IF 1 <= n THEN n - 1 + 1 ELSE 0
          /\ \A i \in 1 .. n - 1 + 1 : SubSeq(s, 1, n)[i] = s[1 + i - 1]
      BY <2>1, <2>2, SubSeqProperties
    <2>. QED  BY <1>1, <2>2, <2>3
  <1>4. Last(s) = s[Len(s)] /\ Last(s) \in S
    BY <1>1, <1>2 DEF Last
  <1>5. /\ Front(s) \in Seq(S) /\ Len(Front(s)) = Len(s) - 1
        /\ \A i \in 1 .. Len(s) - 1 : Front(s)[i] = s[i]
    BY <1>3 DEF Front
  <1>6. PICK t : t = Append(Front(s), Last(s))
    OBVIOUS
  <1>7. /\ t \in Seq(S) /\ Len(t) = Len(s) /\ \A i \in 1 .. Len(s) - 1 : t[i] = s[i]
        /\ t[Len(s)] = s[Len(s)]
    BY <1>1, <1>4, <1>5, <1>6, AppendProperties
  <1>8. \A i \in 1 .. Len(s) : t[i] = s[i]
    BY <1>1, <1>7
  <1>9. t = s
    BY <1>7, <1>8, SeqEqual
  <1>. QED  BY <1>1, <1>4, <1>5, <1>6, <1>9

(* What lies before a position does not change when the end is replaced.      *)
LEMMA SamePrefix ==
  ASSUME NEW S, NEW s \in Seq(S), NEW e \in S, NEW k \in 1 .. Len(s) + 1
  PROVE  /\ SubSeq(Append(s, e), 1, k - 1) = SubSeq(s, 1, k - 1)
         /\ SubSeq(s, 1, k - 1) \in Seq(S)
         /\ k = Len(s) + 1 => SubSeq(Append(s, e), 1, k - 1) = s
  <1>. DEFINE t == Append(s, e)
  <1>0. Len(s) \in Nat /\ k \in Nat /\ k - 1 \in 0 .. Len(s)
    BY LenProperties
  <1>1. /\ t \in Seq(S) /\ Len(t) = Len(s) + 1 /\ \A i \in 1 .. Len(s) : t[i] = s[i]
        /\ Front(t) = s
    BY Pushed
  <1>2. \A i \in 1 .. k - 1 : s[i] \in S /\ t[i] \in S
    BY <1>0, <1>1, ElementOfSeq
  <1>7. k = Len(s) + 1 => SubSeq(t, 1, k - 1) = s
    BY <1>0, <1>1 DEF Front
  <1>. HIDE DEF t
  <1>3. /\ SubSeq(s, 1, k - 1) \in Seq(S) /\ Len(SubSeq(s, 1, k - 1)) = k - 1
        /\ \A i \in 1 .. k - 1 : SubSeq(s, 1, k - 1)[i] = s[i]
    BY <1>0, <1>2, SubSeqProperties
  <1>4. /\ SubSeq(t, 1, k - 1) \in Seq(S) /\ Len(SubSeq(t, 1, k - 1)) = k - 1
        /\ \A i \in 1 .. k - 1 : SubSeq(t, 1, k - 1)[i] = t[i]
    BY <1>0, <1>2, SubSeqProperties
  <1>5. \A i \in 1 .. k - 1 : t[i] = s[i]
    BY <1>0, <1>1
  <1>6. SubSeq(t, 1, k - 1) = SubSeq(s, 1, k - 1)
    BY <1>3, <1>4, <1>5, SeqEqual
  <1>. QED  BY <1>3, <1>6, <1>7 DEF t

----------------------------------------------------------------------------
(* What comes before a path, level by level *)

AllIds == UNION {DOMAIN m.step : m \in Manifests}
PathElts == AllIds \X Nat
Paths == Seq(PathElts)

(* The steps before the n-th of a list, and those of the rounds before the one *)
(* that owner stands for.                                                     *)
Siblings(list, prefix, n) == {Append(prefix, <<list[j], 0>>) : j \in 1 .. n - 1}
Rounds(list, prefix, owner) ==
  {Append(Append(Front(prefix), <<owner[1], i>>), <<list[j], 0>>) :
     i \in 1 .. owner[2] - 1, j \in DOMAIN list}
Mine(list, id) == CHOOSE n \in DOMAIN list : list[n] = id

Level(p, k) ==
  LET list == ListAt(p, k)
      prefix == SubSeq(p, 1, k - 1)
  IN Siblings(list, prefix, Mine(list, p[k][1]))
     \cup IF k = 1 \/ Step(p[k - 1][1]).kind # "for_each" THEN {}
          ELSE Rounds(list, prefix, p[k - 1])

LEMMA BeforeIsLevels == ASSUME NEW p PROVE Before(p) = UNION {Level(p, k) : k \in DOMAIN p}
  BY DEF Before, Level, Siblings, Rounds, Mine

(* The list that is walked below a path: the branch of its last step, or what  *)
(* the loop repeats.                                                          *)
ListBelow(q) ==
  IF q = <<>> THEN manifest.top
  ELSE LET owner == Step(Last(q)[1])
       IN IF owner.kind = "condition" THEN BranchList(owner, Last(q)[2]) ELSE owner.then

LEMMA LevelStays ==
  ASSUME NEW q \in Paths, NEW x \in PathElts, NEW k \in 1 .. Len(q)
  PROVE  Level(Append(q, x), k) = Level(q, k)
  <1>p. PICK p : p = Append(q, x)
    OBVIOUS
  <1>0. Len(q) \in Nat /\ k \in Nat \ {0}
    BY LenProperties DEF Paths
  <1>1. \A i \in 1 .. Len(q) : p[i] = q[i]
    BY <1>p, Pushed DEF Paths
  <1>2. SubSeq(p, 1, k - 1) = SubSeq(q, 1, k - 1)
    BY <1>p, <1>0, SamePrefix DEF Paths
  <1>3. p[k] = q[k] /\ (k # 1 => p[k - 1] = q[k - 1])
    BY <1>0, <1>1
  <1>4. ListAt(p, k) = ListAt(q, k)
    BY <1>3 DEF ListAt
  <1>5. CASE k = 1
    BY <1>p, <1>2, <1>3, <1>4, <1>5 DEF Level
  <1>6. CASE k # 1
    BY <1>p, <1>2, <1>3, <1>4, <1>6 DEF Level
  <1>. QED  BY <1>5, <1>6

(* What comes before the last step of a path, at its own level. *)
LEMMA LastLevel ==
  ASSUME NEW q \in Paths, NEW x \in PathElts, NEW n, NEW list, list = ListBelow(q),
         Distinct(list), n \in DOMAIN list, list[n] = x[1]
  PROVE  Level(Append(q, x), Len(q) + 1) =
           Siblings(list, q, n)
           \cup IF q = <<>> \/ Step(Last(q)[1]).kind # "for_each" THEN {}
                ELSE Rounds(list, q, Last(q))
  <1>0. PICK p, k : p = Append(q, x) /\ k = Len(q) + 1
    OBVIOUS
  <1>1. Len(q) \in Nat /\ k \in Nat \ {0} /\ k - 1 = Len(q) /\ (q = <<>> <=> Len(q) = 0)
    BY <1>0, LenProperties, EmptySeq DEF Paths
  <1>2. /\ p[k] = x /\ SubSeq(p, 1, k - 1) = q /\ (k = 1 <=> q = <<>>)
        /\ \A i \in 1 .. Len(q) : p[i] = q[i]
    <2>1. p[k] = x /\ \A i \in 1 .. Len(q) : p[i] = q[i]
      BY <1>0, AppendProperties DEF Paths
    <2>2. SubSeq(p, 1, k - 1) = q
      BY <1>0, <1>1, SamePrefix DEF Paths
    <2>. QED  BY <1>1, <2>1, <2>2
  <1>3. k # 1 => p[k - 1] = Last(q)
    BY <1>1, <1>2 DEF Last
  <1>4. ListAt(p, k) = list
    BY <1>2, <1>3 DEF ListAt, ListBelow
  <1>5. Mine(list, x[1]) = n
    BY DEF Distinct, Mine
  <1>6. CASE k = 1
    BY <1>0, <1>2, <1>4, <1>5, <1>6 DEF Level
  <1>7. CASE k # 1
    BY <1>0, <1>2, <1>3, <1>4, <1>5, <1>7 DEF Level
  <1>. QED  BY <1>0, <1>6, <1>7

----------------------------------------------------------------------------
(* Frames: what is known of one call of executeSteps *)

(* The path of the step a list is walked for. *)
Owner(q) == Append(Front(q), <<Last(q)[1], 0>>)

(* Everything in the rounds of a loop before the i-th is settled. *)
PastRounds(q, i, S) == Rounds(Step(Last(q)[1]).then, q, <<Last(q)[1], i>>) \subseteq S

FrameFields == {"list", "at", "prefix", "anyFailure", "since", "loop"}

FrameOK(f, S) ==
  /\ DOMAIN f = FrameFields /\ f.at \in Nat \ {0} /\ f.prefix \in Paths
  /\ f.list \in Seq(DOMAIN manifest.step) /\ Distinct(f.list)
  /\ f.list = ListBelow(f.prefix)
  /\ \A j \in 1 .. Len(f.list) : j < f.at => Append(f.prefix, <<f.list[j], 0>>) \in S
  /\ f.prefix # <<>> =>
       /\ Before(f.prefix) \subseteq S
       /\ Step(Last(f.prefix)[1]).kind = "for_each" =>
            PastRounds(f.prefix, Last(f.prefix)[2], S)

InList(f) == f.at \in 1 .. Len(f.list)

(* The path of the step a frame stands at (n = 0), of a branch or a round of it. *)
Under(f, n) == Append(f.prefix, <<f.list[f.at], n>>)

LEMMA ManifestLists ==
  ASSUME manifest \in Manifests
  PROVE  /\ DOMAIN manifest.step \subseteq AllIds
         /\ manifest.top \in Seq(DOMAIN manifest.step) /\ Distinct(manifest.top)
         /\ \A id \in DOMAIN manifest.step :
              /\ Step(id).then \in Seq(DOMAIN manifest.step) /\ Distinct(Step(id).then)
              /\ Step(id).else \in Seq(DOMAIN manifest.step) /\ Distinct(Step(id).else)
  BY WalkAssumption DEF AllIds, ListsOf, Step

(* Where a frame stands, everything before it is settled.                     *)
LEMMA BeforeHere ==
  ASSUME manifest \in Manifests, NEW S, NEW f, FrameOK(f, S), InList(f), NEW n \in Nat
  PROVE  /\ f.list[f.at] \in DOMAIN manifest.step /\ Under(f, n) \in Paths /\ Under(f, n) # <<>>
         /\ Last(Under(f, n)) = <<f.list[f.at], n>> /\ Front(Under(f, n)) = f.prefix
         /\ Owner(Under(f, n)) = Under(f, 0)
         /\ Before(Under(f, n)) \subseteq S
  <1>q. PICK id, q : id = f.list[f.at] /\ q = Under(f, n)
    OBVIOUS
  <1>0. PICK prefix, list, at : prefix = f.prefix /\ list = f.list /\ at = f.at
    OBVIOUS
  <1>1. /\ prefix \in Paths /\ list \in Seq(DOMAIN manifest.step) /\ at \in 1 .. Len(list)
        /\ Distinct(list) /\ list = ListBelow(prefix)
    BY <1>0 DEF FrameOK, InList
  <1>2. DOMAIN list = 1 .. Len(list) /\ Len(list) \in Nat
    BY <1>1, LenProperties
  <1>3. id \in DOMAIN manifest.step
    BY <1>q, <1>0, <1>1, ElementOfSeq
  <1>4. PICK x \in PathElts : x = <<id, n>>
    BY <1>3, ManifestLists DEF PathElts
  <1>5. /\ q \in Paths /\ q # <<>> /\ Last(q) = x /\ Front(q) = prefix
        /\ Len(q) = Len(prefix) + 1
    <2>1. q = Append(prefix, x)
      BY <1>q, <1>0, <1>4 DEF Under
    <2>2. prefix \in Seq(PathElts)
      BY <1>1 DEF Paths
    <2>3. /\ Append(prefix, x) \in Seq(PathElts) /\ Append(prefix, x) # <<>>
          /\ Last(Append(prefix, x)) = x /\ Front(Append(prefix, x)) = prefix
          /\ Len(Append(prefix, x)) = Len(prefix) + 1
      BY <2>2, Pushed
    <2>. QED  BY <2>1, <2>3 DEF Paths
  <1>6. Owner(q) = Append(prefix, <<id, 0>>)
    <2>1. x[1] = id
      BY <1>4
    <2>. QED  BY <1>5, <2>1 DEF Owner
  <1>7. Len(prefix) \in Nat /\ DOMAIN q = 1 .. Len(prefix) + 1 /\ DOMAIN prefix = 1 .. Len(prefix)
    BY <1>1, <1>5, LenProperties DEF Paths
  <1>8. ASSUME NEW k \in 1 .. Len(prefix) PROVE Level(q, k) \subseteq S
    <2>1. Level(q, k) = Level(prefix, k)
      <3>1. q = Append(prefix, x)
        BY <1>q, <1>0, <1>4 DEF Under
      <3>. QED  BY <1>1, <3>1, LevelStays
    <2>2. prefix # <<>>
      BY <1>7, <1>8, EmptySeq
    <2>3. Before(prefix) \subseteq S
      BY <1>0, <2>2 DEF FrameOK
    <2>4. Level(prefix, k) \subseteq Before(prefix)
      BY <1>7, BeforeIsLevels
    <2>. QED  BY <2>1, <2>3, <2>4
  <1>9. Level(q, Len(prefix) + 1) \subseteq S
    <2>1. at \in DOMAIN list /\ list[at] = x[1]
      BY <1>q, <1>0, <1>1, <1>2, <1>4
    <2>2. Level(q, Len(prefix) + 1) =
            Siblings(list, prefix, at)
            \cup IF prefix = <<>> \/ Step(Last(prefix)[1]).kind # "for_each" THEN {}
                 ELSE Rounds(list, prefix, Last(prefix))
      <3>1. q = Append(prefix, x)
        BY <1>q, <1>0, <1>4 DEF Under
      <3>. QED  BY <1>1, <2>1, <3>1, LastLevel
    <2>3. Siblings(list, prefix, at) \subseteq S
      <3>1. ASSUME NEW j \in 1 .. at - 1 PROVE Append(prefix, <<list[j], 0>>) \in S
        <4>1. j \in 1 .. Len(list) /\ j < at
          BY <1>1, <1>2
        <4>. QED  BY <1>0, <4>1 DEF FrameOK
      <3>. QED  BY <3>1 DEF Siblings
    <2>4. ASSUME prefix # <<>>, Step(Last(prefix)[1]).kind = "for_each"
          PROVE  Rounds(list, prefix, Last(prefix)) \subseteq S
      <3>1. list = Step(Last(prefix)[1]).then
        BY <1>1, <2>4 DEF ListBelow
      <3>2. PastRounds(prefix, Last(prefix)[2], S)
        BY <1>0, <2>4 DEF FrameOK
      <3>3. Last(prefix) = <<Last(prefix)[1], Last(prefix)[2]>>
        <4>1. prefix \in Seq(PathElts)
          BY <1>1 DEF Paths
        <4>2. Last(prefix) \in PathElts
          BY <2>4, <4>1, Popped
        <4>. QED  BY <4>2 DEF PathElts
      <3>. QED  BY <3>1, <3>2, <3>3 DEF PastRounds
    <2>. QED  BY <2>2, <2>3, <2>4
  <1>10. Before(q) \subseteq S
    <2>1. ASSUME NEW k \in DOMAIN q PROVE Level(q, k) \subseteq S
      <3>1. k \in 1 .. Len(prefix) \/ k = Len(prefix) + 1
        BY <1>7
      <3>. QED  BY <1>8, <1>9, <3>1
    <2>2. Before(q) = UNION {Level(q, k) : k \in DOMAIN q}
      BY BeforeIsLevels
    <2>. QED  BY <2>1, <2>2
  <1>. QED  BY <1>q, <1>0, <1>3, <1>4, <1>5, <1>6, <1>10 DEF Under

LEMMA FrameGrows ==
  ASSUME NEW f, NEW S, NEW S2, S \subseteq S2, FrameOK(f, S)
  PROVE  FrameOK(f, S2)
  BY DEF FrameOK, PastRounds

(* The step a frame stands at has settled: on to the next. *)
LEMMA FrameOnward ==
  ASSUME NEW f, NEW g, NEW S, NEW S2, S \subseteq S2, FrameOK(f, S), InList(f),
         Under(f, 0) \in S2,
         DOMAIN g = FrameFields, g.list = f.list, g.prefix = f.prefix, g.at = f.at + 1
  PROVE  FrameOK(g, S2)
  <1>1. /\ g.at \in Nat \ {0}
        /\ \A j \in 1 .. Len(g.list) : j < g.at => Append(g.prefix, <<g.list[j], 0>>) \in S2
    <2>1. f.at \in Nat \ {0}
      BY DEF FrameOK
    <2>2. Len(f.list) \in Nat
      BY LenProperties DEF FrameOK
    <2>3. ASSUME NEW j \in 1 .. Len(f.list), j < f.at + 1
          PROVE  Append(f.prefix, <<f.list[j], 0>>) \in S2
      <3>1. j < f.at \/ j = f.at
        BY <2>1, <2>2, <2>3
      <3>. QED  BY <3>1 DEF FrameOK, Under
    <2>. QED  BY <2>1, <2>3
  <1>. QED  BY <1>1 DEF FrameOK, PastRounds

(* A list is called below the step a frame stands at. *)
LEMMA FrameCalled ==
  ASSUME manifest \in Manifests, NEW S, NEW f, FrameOK(f, S), InList(f), NEW n \in Nat,
         NEW list, NEW since, NEW loop,
         \/ /\ Step(f.list[f.at]).kind = "condition"
            /\ list = BranchList(Step(f.list[f.at]), n)
         \/ /\ Step(f.list[f.at]).kind = "for_each"
            /\ list = Step(f.list[f.at]).then /\ PastRounds(Under(f, n), n, S)
  PROVE  FrameOK(Frame(list, Under(f, n), since, loop), S)
  <1>0. PICK id, q : id = f.list[f.at] /\ q = Under(f, n)
    OBVIOUS
  <1>1. /\ id \in DOMAIN manifest.step /\ q \in Paths /\ q # <<>> /\ Last(q) = <<id, n>>
        /\ Before(q) \subseteq S
    BY <1>0, BeforeHere
  <1>2. list \in Seq(DOMAIN manifest.step) /\ Distinct(list)
    BY <1>0, <1>1, ManifestLists DEF BranchList
  <1>3. list = ListBelow(q)
    BY <1>0, <1>1 DEF ListBelow
  <1>4. PICK g : g = Frame(list, q, since, loop)
    OBVIOUS
  <1>5. /\ DOMAIN g = FrameFields /\ g.at = 1 /\ g.prefix = q /\ g.list = list
    BY <1>4 DEF Frame, FrameFields
  <1>6. Step(Last(q)[1]).kind = "for_each" => PastRounds(q, Last(q)[2], S)
    BY <1>0, <1>1
  <1>7. \A j \in 1 .. Len(list) : ~(j < 1)
    BY <1>2, LenProperties
  <1>8. FrameOK(g, S)
    <2>1. /\ g.at \in Nat \ {0}
          /\ \A j \in 1 .. Len(g.list) : j < g.at => Append(g.prefix, <<g.list[j], 0>>) \in S
      BY <1>5, <1>7
    <2>. QED  BY <1>1, <1>2, <1>3, <1>5, <1>6, <2>1 DEF FrameOK
  <1>. QED  BY <1>0, <1>4, <1>8

----------------------------------------------------------------------------
(* The stack of calls *)

Calls(f, g) == g.prefix # <<>> /\ InList(f) /\ Owner(g.prefix) = Under(f, 0)

StackOK(stack, S) ==
  /\ \E T : stack \in Seq(T)
  /\ \A k \in 1 .. Len(stack) : FrameOK(stack[k], S)
  /\ \A k \in 2 .. Len(stack) : Calls(stack[k - 1], stack[k])

LEMMA StackGrows ==
  ASSUME NEW stack, NEW S, NEW S2, S \subseteq S2, StackOK(stack, S)
  PROVE  StackOK(stack, S2)
  BY FrameGrows DEF StackOK

LEMMA StackTop ==
  ASSUME NEW stack, NEW S, StackOK(stack, S), stack # <<>>
  PROVE  /\ Len(stack) \in Nat \ {0} /\ Last(stack) = stack[Len(stack)]
         /\ FrameOK(Last(stack), S)
         /\ Len(stack) # 1 => Calls(stack[Len(stack) - 1], Last(stack))
  <1>1. PICK T : stack \in Seq(T)
    BY DEF StackOK
  <1>2. Len(stack) \in Nat \ {0} /\ Last(stack) = stack[Len(stack)]
    BY <1>1, Popped
  <1>3. Len(stack) \in 1 .. Len(stack) /\ (Len(stack) # 1 => Len(stack) \in 2 .. Len(stack))
    BY <1>2
  <1>. QED  BY <1>2, <1>3 DEF StackOK

(* The top frame is replaced by one for the same step. *)
LEMMA TopMoves ==
  ASSUME NEW stack, NEW S, NEW S2, S \subseteq S2, StackOK(stack, S), stack # <<>>,
         NEW g, FrameOK(g, S2), g.prefix # <<>> <=> Last(stack).prefix # <<>>,
         Owner(g.prefix) = Owner(Last(stack).prefix)
  PROVE  StackOK(OnTop(stack, g), S2) /\ OnTop(stack, g) # <<>> /\ Last(OnTop(stack, g)) = g
  <1>1. PICK T : stack \in Seq(T)
    BY DEF StackOK
  <1>2. PICK T2 : T2 = T \cup {g}
    OBVIOUS
  <1>3. stack \in Seq(T2) /\ g \in T2
    BY <1>1, <1>2, SeqMonotonic
  <1>4. PICK n \in Nat \ {0} : n = Len(stack)
    BY <1>3, Popped
  <1>5. PICK front : front = Front(stack)
    OBVIOUS
  <1>6. /\ front \in Seq(T2) /\ Len(front) = n - 1
        /\ \A k \in 1 .. n - 1 : front[k] = stack[k]
        /\ Last(stack) = stack[n]
    BY <1>3, <1>4, <1>5, Popped
  <1>7. PICK new : new = OnTop(stack, g)
    OBVIOUS
  <1>8. /\ new \in Seq(T2) /\ new # <<>> /\ Len(new) = n /\ Last(new) = g
        /\ \A k \in 1 .. n - 1 : new[k] = stack[k]
    <2>1. new = Append(front, g)
      BY <1>5, <1>7 DEF OnTop
    <2>2. /\ Append(front, g) \in Seq(T2) /\ Append(front, g) # <<>>
          /\ Len(Append(front, g)) = Len(front) + 1 /\ Last(Append(front, g)) = g
          /\ \A k \in 1 .. Len(front) : Append(front, g)[k] = front[k]
      BY <1>3, <1>6, Pushed
    <2>. QED  BY <1>4, <1>6, <2>1, <2>2
  <1>9. new[n] = g
    BY <1>8 DEF Last
  <1>10. ASSUME NEW k \in 1 .. n PROVE FrameOK(new[k], S2)
    <2>1. CASE k = n
      BY <1>9, <2>1
    <2>2. CASE k # n
      <3>1. FrameOK(stack[k], S) /\ new[k] = stack[k]
        BY <1>4, <1>8, <2>2 DEF StackOK
      <3>. QED  BY <3>1, FrameGrows
    <2>. QED  BY <2>1, <2>2
  <1>11. ASSUME NEW k \in 2 .. n PROVE Calls(new[k - 1], new[k])
    <2>1. Calls(stack[k - 1], stack[k]) /\ new[k - 1] = stack[k - 1]
      BY <1>4, <1>8 DEF StackOK
    <2>2. CASE k = n
      BY <1>6, <1>9, <2>1, <2>2 DEF Calls
    <2>3. CASE k # n
      BY <1>4, <1>8, <2>1, <2>3
    <2>. QED  BY <2>2, <2>3
  <1>12. StackOK(new, S2)
    BY <1>8, <1>10, <1>11 DEF StackOK
  <1>. QED  BY <1>7, <1>8, <1>12

LEMMA CallPushes ==
  ASSUME NEW stack, NEW S, StackOK(stack, S), stack # <<>>,
         NEW g, FrameOK(g, S), Calls(Last(stack), g)
  PROVE  StackOK(Append(stack, g), S) /\ Append(stack, g) # <<>>
  <1>1. PICK T : stack \in Seq(T)
    BY DEF StackOK
  <1>2. PICK T2 : T2 = T \cup {g}
    OBVIOUS
  <1>3. stack \in Seq(T2) /\ g \in T2
    BY <1>1, <1>2, SeqMonotonic
  <1>4. PICK n \in Nat \ {0} : n = Len(stack) /\ Last(stack) = stack[n]
    BY <1>3, Popped
  <1>5. PICK new : new = Append(stack, g)
    OBVIOUS
  <1>6. /\ new \in Seq(T2) /\ new # <<>> /\ Len(new) = n + 1 /\ Last(new) = g
        /\ \A k \in 1 .. n : new[k] = stack[k]
    BY <1>3, <1>4, <1>5, Pushed
  <1>7. new[n + 1] = g
    BY <1>6 DEF Last
  <1>8. ASSUME NEW k \in 1 .. n + 1 PROVE FrameOK(new[k], S)
    <2>1. CASE k = n + 1
      BY <1>7, <2>1
    <2>2. CASE k # n + 1
      BY <1>4, <1>6, <2>2 DEF StackOK
    <2>. QED  BY <2>1, <2>2
  <1>9. ASSUME NEW k \in 2 .. n + 1 PROVE Calls(new[k - 1], new[k])
    <2>1. CASE k = n + 1
      BY <1>4, <1>6, <1>7, <2>1
    <2>2. CASE k # n + 1
      <3>1. k \in 2 .. Len(stack) /\ new[k] = stack[k] /\ new[k - 1] = stack[k - 1]
        BY <1>4, <1>6, <2>2
      <3>. QED  BY <3>1 DEF StackOK
    <2>. QED  BY <2>1, <2>2
  <1>10. StackOK(new, S)
    BY <1>6, <1>8, <1>9 DEF StackOK
  <1>. QED  BY <1>5, <1>6, <1>10

LEMMA ReturnPops ==
  ASSUME NEW stack, NEW S, StackOK(stack, S), stack # <<>>, Len(stack) # 1
  PROVE  /\ StackOK(Front(stack), S) /\ Front(stack) # <<>>
         /\ Calls(Last(Front(stack)), Last(stack))
  <1>1. PICK T : stack \in Seq(T)
    BY DEF StackOK
  <1>2. PICK n \in Nat \ {0} : n = Len(stack) /\ Last(stack) = stack[n]
    BY <1>1, Popped
  <1>3. PICK front : front = Front(stack)
    OBVIOUS
  <1>4. /\ front \in Seq(T) /\ Len(front) = n - 1 /\ n # 1
        /\ \A k \in 1 .. n - 1 : front[k] = stack[k]
    BY <1>1, <1>2, <1>3, Popped
  <1>5. front # <<>> /\ Last(front) = stack[n - 1]
    <2>1. front # <<>>
      BY <1>4, EmptySeq
    <2>. QED  BY <1>4, <2>1 DEF Last
  <1>6. Calls(stack[n - 1], stack[n])
    BY <1>2, <1>4 DEF StackOK
  <1>7. /\ \A k \in 1 .. n - 1 : FrameOK(front[k], S)
        /\ \A k \in 2 .. n - 1 : Calls(front[k - 1], front[k])
    <2>1. ASSUME NEW k \in 1 .. n - 1 PROVE FrameOK(front[k], S)
      <3>1. k \in 1 .. Len(stack) /\ front[k] = stack[k]
        BY <1>2, <1>4
      <3>. QED  BY <3>1 DEF StackOK
    <2>2. ASSUME NEW k \in 2 .. n - 1 PROVE Calls(front[k - 1], front[k])
      <3>1. /\ k \in 2 .. Len(stack) /\ k \in 1 .. n - 1 /\ k - 1 \in 1 .. n - 1
            /\ front[k] = stack[k] /\ front[k - 1] = stack[k - 1]
        BY <1>2, <1>4
      <3>. QED  BY <3>1 DEF StackOK
    <2>. QED  BY <2>1, <2>2
  <1>8. StackOK(front, S)
    BY <1>4, <1>7 DEF StackOK
  <1>. QED  BY <1>2, <1>3, <1>5, <1>6, <1>8

----------------------------------------------------------------------------
(* The state of a run and the walk in memory *)

StateFields == {"done", "status", "iteration", "delay", "approval", "failed", "elapsed"}

StateOK(st, S) ==
  /\ DOMAIN st = StateFields
  /\ st.done \subseteq S
  /\ \A p \in DOMAIN st.iteration :
       st.iteration[p] \in Nat \ {0} /\ PastRounds(p, st.iteration[p], S)

WalkOK(w, S) ==
  /\ DOMAIN w = {"stack", "state", "ret"}
  /\ w.stack # <<>> => StackOK(w.stack, S)
  /\ StateOK(w.state, S)
  /\ w.ret = "completed" => w.stack # <<>> /\ Last(w.stack).at > Len(Last(w.stack).list)

(* What holds of the walk at every moment. *)
WalkInv ==
  /\ manifest \in Manifests
  /\ WalkOK(walk, settled)
  /\ DOMAIN run = {"status", "state"} /\ StateOK(run.state, settled)
  /\ \A p \in DOMAIN effects : Before(p) \subseteq settled

(* None of it is about anything that changes but its arguments. *)
LEMMA BeforeKeeps ==
  ASSUME UNCHANGED manifest, NEW p
  PROVE  Before(p)' = Before(p)
  BY DEF Before, ListAt, Step, BranchList

LEMMA StateKeeps ==
  ASSUME UNCHANGED manifest, NEW st, NEW S
  PROVE  StateOK(st, S) => StateOK(st, S)'
  BY DEF StateOK, PastRounds, Step

LEMMA WalkKeeps ==
  ASSUME UNCHANGED manifest, NEW w, NEW S
  PROVE  WalkOK(w, S) => WalkOK(w, S)'
  <1>1. ASSUME NEW f, FrameOK(f, S) PROVE FrameOK(f, S)'
    <2>1. PICK q : q = f.prefix
      OBVIOUS
    <2>2. Before(q)' = Before(q) /\ ListBelow(q)' = ListBelow(q)
      BY BeforeKeeps DEF ListBelow, Step, BranchList
    <2>. QED  BY <1>1, <2>1, <2>2 DEF FrameOK, PastRounds, Step
  <1>2. \A stack : StackOK(stack, S) => StackOK(stack, S)'
    BY <1>1 DEF StackOK, Calls, InList, Owner, Under
  <1>. QED  BY <1>2, StateKeeps DEF WalkOK

(* The invariant after a step, shown of the values of the variables before it. *)
LEMMA InvKeeps ==
  ASSUME WalkInv, UNCHANGED manifest, NEW w, NEW S, NEW st, NEW E,
         w = walk', S = settled', E = DOMAIN effects',
         DOMAIN run' = {"status", "state"}, st = run'.state,
         WalkOK(w, S), StateOK(st, S), \A p \in E : Before(p) \subseteq S
  PROVE  WalkInv'
  <1>1. WalkOK(w, S)' /\ StateOK(st, S)' /\ \A p \in E : Before(p)' \subseteq S
    BY WalkKeeps, StateKeeps, BeforeKeeps
  <1>2. WalkOK(walk, settled)' /\ StateOK(run.state, settled)'
    BY <1>1
  <1>. QED  BY <1>1, <1>2 DEF WalkInv

----------------------------------------------------------------------------
(* The end of a step *)

LEMMA StateMoves ==
  ASSUME NEW S, NEW S2, S \subseteq S2, NEW st, NEW new, StateOK(st, S),
         DOMAIN new = StateFields, new.done \subseteq S2, new.iteration = st.iteration
  PROVE  StateOK(new, S2)
  BY DEF StateOK, PastRounds

(* The step the top frame stands at is settled: the walk goes on behind it. *)
LEMMA GoesOn ==
  ASSUME NEW S, NEW S2, S \subseteq S2, NEW stack, stack # <<>>, StackOK(stack, S),
         InList(Last(stack)), Under(Last(stack), 0) \in S2,
         NEW g, DOMAIN g = FrameFields, g.list = Last(stack).list,
         g.prefix = Last(stack).prefix, g.at = Last(stack).at + 1
  PROVE  StackOK(OnTop(stack, g), S2) /\ OnTop(stack, g) # <<>>
  <1>1. PICK top : top = Last(stack)
    OBVIOUS
  <1>2. FrameOK(top, S) /\ InList(top) /\ Under(top, 0) \in S2
    BY <1>1, StackTop
  <1>3. FrameOK(g, S2)
    BY <1>1, <1>2, FrameOnward
  <1>4. Owner(g.prefix) = Owner(Last(stack).prefix) /\ (g.prefix # <<>> <=> Last(stack).prefix # <<>>)
    OBVIOUS
  <1>. QED  BY <1>3, <1>4, TopMoves

(* The results that settle a step, and what the walk is after any of them.    *)
Settles(p, result) ==
  result \in {"completed", "skipped"} \/ (result = "failed" /\ StepOf(p).onError = "continue")

Goes(w, state, p, result, S) ==
  /\ WalkOK(w, S) /\ w.stack # <<>>
  /\ state.done \subseteq w.state.done
  /\ result = "completed" => p \in w.state.done

LEMMA FinishedOK ==
  ASSUME NEW S, NEW S2, S \subseteq S2, NEW stack, stack # <<>>, StackOK(stack, S),
         InList(Last(stack)), NEW state, StateOK(state, S), NEW p, p = Under(Last(stack), 0),
         NEW result, NEW since, NEW ran,
         Settles(p, result) => p \in S2
  PROVE  Goes(Finished(stack, state, p, result, since, ran), state, p, result, S2)
  <1>. SUFFICES ASSUME NEW W, W = Finished(stack, state, p, result, since, ran)
                PROVE  /\ WalkOK(W, S2) /\ W.stack # <<>>
                       /\ state.done \subseteq W.state.done
                       /\ result = "completed" => p \in W.state.done
    BY DEF Goes
  <1>1. PICK top : top = Last(stack) /\ DOMAIN top = FrameFields
    BY StackTop DEF FrameOK
  <1>2. PICK st : st = [state EXCEPT !.elapsed = @ + (ran - since)]
    OBVIOUS
  <1>3. DOMAIN st = StateFields /\ st.done = state.done /\ st.iteration = state.iteration
    BY <1>2 DEF StateOK, StateFields
  <1>4. PICK onward : onward = [top EXCEPT !.at = @ + 1]
    OBVIOUS
  <1>5. /\ DOMAIN onward = FrameFields /\ onward.list = top.list /\ onward.prefix = top.prefix
        /\ onward.at = top.at + 1
    BY <1>1, <1>4 DEF FrameFields
  <1>6. state.done \subseteq S2 /\ StackOK(stack, S2)
    BY StackGrows DEF StateOK
  <1>7. CASE result \in {"completed", "skipped"}
    <2>1. PICK new : new = [st EXCEPT !.done = @ \cup {p},
                              !.status = Extend(@, Last(p)[1],
                                IF result = "skipped" THEN "skipped" ELSE "succeeded")]
      OBVIOUS
    <2>2. W = Walking(OnTop(stack, onward), new, "none")
      BY <1>1, <1>2, <1>4, <1>7, <2>1 DEF Finished
    <2>3. DOMAIN new = StateFields /\ new.done = st.done \cup {p} /\ new.iteration = st.iteration
      BY <1>3, <2>1 DEF StateFields
    <2>4. p \in S2
      BY <1>7 DEF Settles
    <2>5. StateOK(new, S2)
      BY <1>3, <1>6, <2>3, <2>4, StateMoves
    <2>6. StackOK(OnTop(stack, onward), S2) /\ OnTop(stack, onward) # <<>>
      BY <1>1, <1>5, <2>4, GoesOn
    <2>. QED  BY <1>3, <2>2, <2>3, <2>5, <2>6 DEF WalkOK, Walking
  <1>8. CASE result = "failed"
    <2>1. PICK marked : marked = [st EXCEPT !.status = Extend(@, Last(p)[1], "failed")]
      OBVIOUS
    <2>2. DOMAIN marked = StateFields /\ marked.done = st.done /\ marked.iteration = st.iteration
      BY <1>3, <2>1 DEF StateFields
    <2>3. CASE Step(Last(p)[1]).onError = "continue"
      <3>1. PICK g : g = [onward EXCEPT !.anyFailure = TRUE]
        OBVIOUS
      <3>2. /\ DOMAIN g = FrameFields /\ g.list = top.list /\ g.prefix = top.prefix
            /\ g.at = top.at + 1
        BY <1>5, <3>1 DEF FrameFields
      <3>3. PICK new : new = [marked EXCEPT !.failed = @ \/ Len(stack) = 1]
        OBVIOUS
      <3>4. DOMAIN new = StateFields /\ new.done = st.done /\ new.iteration = st.iteration
        BY <2>2, <3>3 DEF StateFields
      <3>5. W = Walking(OnTop(stack, g), new, "none")
        BY <1>1, <1>2, <1>4, <1>8, <2>1, <2>3, <3>1, <3>3 DEF Finished
      <3>6. p \in S2
        BY <1>8, <2>3 DEF StepOf, Settles
      <3>7. StateOK(new, S2)
        BY <1>3, <1>6, <3>4, StateMoves
      <3>8. StackOK(OnTop(stack, g), S2) /\ OnTop(stack, g) # <<>>
        BY <1>1, <3>2, <3>6, GoesOn
      <3>. QED  BY <1>3, <1>8, <3>4, <3>5, <3>7, <3>8 DEF WalkOK, Walking
    <2>4. CASE Step(Last(p)[1]).onError # "continue"
      <3>1. W = Walking(stack, marked, "failed")
        BY <1>1, <1>2, <1>4, <1>8, <2>1, <2>4 DEF Finished
      <3>2. StateOK(marked, S2)
        BY <1>3, <1>6, <2>2, StateMoves
      <3>. QED  BY <1>3, <1>6, <1>8, <2>2, <3>1, <3>2 DEF WalkOK, Walking
    <2>. QED  BY <2>3, <2>4
  <1>9. CASE result \notin {"completed", "skipped", "failed"}
    <2>1. W = Walking(stack, st, result)
      BY <1>2, <1>9 DEF Finished
    <2>2. StateOK(st, S2)
      BY <1>3, <1>6, StateMoves
    <2>. QED  BY <1>3, <1>6, <1>9, <2>1, <2>2 DEF WalkOK, Walking
  <1>. QED  BY <1>7, <1>8, <1>9

----------------------------------------------------------------------------
(* The steps of the walk *)

(* What the run has in _done: in memory while an execution walks it. *)
Done == IF InWalk THEN walk.state.done ELSE run.state.done

(* An execution stands at a step of its innermost list. *)
LEMMA Standing ==
  ASSUME WalkInv, AtStepOf
  PROVE  /\ walk.stack # <<>> /\ StackOK(walk.stack, settled) /\ StateOK(walk.state, settled)
         /\ Top = Last(walk.stack) /\ FrameOK(Top, settled) /\ InList(Top)
         /\ Here = Under(Top, 0) /\ walk.ret = "none"
  <1>1. walk.stack # <<>> /\ StackOK(walk.stack, settled) /\ StateOK(walk.state, settled)
    BY DEF WalkInv, WalkOK, AtStepOf, InWalk
  <1>2. Top = Last(walk.stack) /\ FrameOK(Top, settled)
    BY <1>1, StackTop DEF Top
  <1>3. Top.at \in Nat \ {0} /\ Len(Top.list) \in Nat /\ ~(Top.at > Len(Top.list))
    <2>1. Len(Top.list) \in Nat
      BY <1>2, LenProperties DEF FrameOK
    <2>. QED  BY <1>2, <2>1 DEF FrameOK, AtStepOf, AtEnd
  <1>. QED  BY <1>1, <1>2, <1>3 DEF InList, Here, Under, AtStepOf

(* A step that leaves the run and the effects alone. *)
LEMMA MovesOn ==
  ASSUME WalkInv, InWalk, UNCHANGED <<manifest, run, effects>>, NEW w, NEW S,
         w = walk', S = settled', settled \subseteq S, WalkOK(w, S), w.stack # <<>>,
         walk.state.done \subseteq w.state.done
  PROVE  WalkInv' /\ Done \subseteq Done'
  <1>1. Done \subseteq Done'
    BY DEF Done, InWalk
  <1>2. PICK st, E : st = run.state /\ E = DOMAIN effects
    OBVIOUS
  <1>3. StateOK(st, S) /\ \A p \in E : Before(p) \subseteq S
    BY <1>2, StateMoves DEF WalkInv, StateOK
  <1>4. DOMAIN run' = {"status", "state"} /\ st = run'.state /\ E = DOMAIN effects'
    BY <1>2 DEF WalkInv
  <1>5. WalkInv'
    BY <1>3, <1>4, InvKeeps
  <1>. QED  BY <1>1, <1>5

(* A step ends where the walk stands. *)
LEMMA EndsHereKeeps ==
  ASSUME WalkInv, AtStepOf, NEW result, NEW state, NEW t, EndsHere(result, state, t),
         DOMAIN state = StateFields, state.done = walk.state.done,
         state.iteration = walk.state.iteration, NEW w, NEW S, w = walk', S = settled'
  PROVE  /\ settled \subseteq S /\ WalkOK(w, S) /\ w.stack # <<>>
         /\ walk.state.done \subseteq w.state.done
         /\ result = "completed" => Here \in w.state.done
  <1>1. PICK stack, p : stack = walk.stack /\ p = Here
    OBVIOUS
  <1>2. /\ stack # <<>> /\ StackOK(stack, settled) /\ StateOK(walk.state, settled)
        /\ InList(Last(stack)) /\ p = Under(Last(stack), 0)
    BY <1>1, Standing
  <1>3. StateOK(state, settled)
    BY <1>2, StateMoves DEF StateOK
  <1>4. w = Finished(stack, state, p, result, 0, t) /\ S = SettledBy(p, result)
    BY <1>1 DEF EndsHere
  <1>5. settled \subseteq S /\ (Settles(p, result) => p \in S)
    BY <1>4 DEF SettledBy, Settles
  <1>6. Goes(Finished(stack, state, p, result, 0, t), state, p, result, S)
    BY <1>2, <1>3, <1>5, FinishedOK
  <1>7. /\ WalkOK(w, S) /\ w.stack # <<>> /\ state.done \subseteq w.state.done
        /\ result = "completed" => p \in w.state.done
    BY <1>4, <1>6 DEF Goes
  <1>. QED  BY <1>1, <1>5, <1>7

(* The walk passes a step that has settled. *)
LEMMA PassesKeeps ==
  ASSUME WalkInv, AtStepOf, Here \in walk.state.done, NEW w,
         w = [walk EXCEPT !.stack = OnTop(@, [Top EXCEPT !.at = @ + 1])]
  PROVE  WalkOK(w, settled) /\ w.stack # <<>> /\ w.state = walk.state
  <1>1. PICK stack : stack = walk.stack
    OBVIOUS
  <1>2. PICK g : g = [Top EXCEPT !.at = @ + 1]
    OBVIOUS
  <1>3. /\ stack # <<>> /\ StackOK(stack, settled) /\ StateOK(walk.state, settled)
        /\ InList(Last(stack)) /\ Here = Under(Last(stack), 0) /\ Top = Last(stack)
        /\ FrameOK(Top, settled) /\ walk.ret = "none"
    BY <1>1, Standing
  <1>4. /\ DOMAIN g = FrameFields /\ g.list = Last(stack).list
        /\ g.prefix = Last(stack).prefix /\ g.at = Last(stack).at + 1
    BY <1>2, <1>3 DEF FrameOK, FrameFields
  <1>5. Under(Last(stack), 0) \in settled
    BY <1>3 DEF StateOK
  <1>6. StackOK(OnTop(stack, g), settled) /\ OnTop(stack, g) # <<>>
    BY <1>3, <1>4, <1>5, GoesOn
  <1>7. /\ DOMAIN w = {"stack", "state", "ret"} /\ w.stack = OnTop(stack, g)
        /\ w.state = walk.state /\ w.ret = "none"
    BY <1>1, <1>2, <1>3 DEF WalkInv, WalkOK
  <1>. QED  BY <1>3, <1>6, <1>7 DEF WalkOK

LEMMA StackOfOne ==
  ASSUME NEW S, NEW g, FrameOK(g, S), g.prefix = <<>>
  PROVE  StackOK(<<g>>, S) /\ <<g>> # <<>>
  <1>1. PICK s : s = <<g>>
    OBVIOUS
  <1>2. s \in Seq({g}) /\ Len(s) = 1 /\ s[1] = g /\ s # <<>>
    BY <1>1
  <1>3. \A k \in 1 .. Len(s) : k = 1
    BY <1>2
  <1>4. \A k \in 2 .. Len(s) : FALSE
    BY <1>2
  <1>5. StackOK(s, S)
    BY <1>2, <1>3, <1>4 DEF StackOK
  <1>. QED  BY <1>1, <1>2, <1>5

LEMMA StartKeeps ==
  ASSUME WalkInv, Start
  PROVE  WalkInv' /\ Done \subseteq Done'
  <1>1. PICK g : g = Frame(manifest.top, <<>>, clock.ran, NoLoop)
    OBVIOUS
  <1>2. /\ DOMAIN g = FrameFields /\ g.at = 1 /\ g.prefix = <<>> /\ g.list = manifest.top
    BY <1>1 DEF Frame, FrameFields
  <1>3. FrameOK(g, settled)
    <2>1. manifest.top \in Seq(DOMAIN manifest.step) /\ Distinct(manifest.top)
      BY ManifestLists DEF WalkInv
    <2>2. \A j \in 1 .. Len(g.list) : ~(j < g.at)
      BY <1>2, <2>1, LenProperties
    <2>3. <<>> \in Paths
      BY EmptySeq DEF Paths
    <2>. QED  BY <1>2, <2>1, <2>2, <2>3 DEF FrameOK, ListBelow
  <1>4. PICK w, S, st : w = walk' /\ S = settled /\ st = run.state
    OBVIOUS
  <1>5. w = Walking(<<g>>, run.state, "none")
    BY <1>1, <1>4 DEF Start
  <1>6. WalkOK(w, S) /\ w.stack # <<>> /\ w.state = run.state
    <2>1. StackOK(<<g>>, S) /\ <<g>> # <<>>
      BY <1>2, <1>3, <1>4, StackOfOne
    <2>. QED  BY <1>4, <1>5, <2>1 DEF WalkOK, Walking, WalkInv
  <1>7. Done \subseteq Done'
    BY <1>4, <1>6 DEF Done, InWalk, Start
  <1>8. PICK E : E = DOMAIN effects
    OBVIOUS
  <1>9. StateOK(st, S) /\ \A p \in E : Before(p) \subseteq S
    BY <1>4, <1>8 DEF WalkInv
  <1>10. /\ DOMAIN run' = {"status", "state"} /\ st = run'.state /\ E = DOMAIN effects'
         /\ S = settled' /\ UNCHANGED manifest
    BY <1>4, <1>8 DEF WalkInv, Start
  <1>11. WalkInv'
    BY <1>4, <1>6, <1>9, <1>10, InvKeeps
  <1>. QED  BY <1>7, <1>11

(* The list is over, or the run is. *)
LEMMA ReturnsKeeps ==
  ASSUME WalkInv, ListEnds \/ RunTimesOut \/ GuardFails
  PROVE  WalkInv' /\ Done \subseteq Done'
  <1>1. PICK ret : /\ walk' = [walk EXCEPT !.ret = ret]
                   /\ ret = "completed" => AtEnd
    BY DEF ListEnds, RunTimesOut, GuardFails
  <1>2. InWalk /\ UNCHANGED <<manifest, run, effects>> /\ settled' = settled
    BY DEF ListEnds, RunTimesOut, GuardFails, AtStepOf
  <1>3. PICK w, S : w = walk' /\ S = settled
    OBVIOUS
  <1>4. /\ DOMAIN w = {"stack", "state", "ret"} /\ w.stack = walk.stack /\ w.state = walk.state
        /\ w.ret = ret
    BY <1>1, <1>3 DEF WalkInv, WalkOK
  <1>5. WalkOK(w, S) /\ w.stack # <<>> /\ walk.state.done \subseteq w.state.done
    BY <1>1, <1>2, <1>3, <1>4 DEF WalkInv, WalkOK, InWalk, AtEnd, Top
  <1>. QED  BY <1>2, <1>3, <1>5, MovesOn

LEMMA PassKeeps ==
  ASSUME WalkInv, SkipStep \/ PassDone
  PROVE  WalkInv' /\ Done \subseteq Done'
  <1>1. /\ AtStepOf /\ InWalk /\ UNCHANGED <<manifest, run, effects>>
    BY DEF SkipStep, PassDone, AtStepOf
  <1>2. CASE Here \in walk.state.done
    <2>1. PICK w : w = [walk EXCEPT !.stack = OnTop(@, [Top EXCEPT !.at = @ + 1])]
      OBVIOUS
    <2>2. w = walk' /\ settled' = settled
      BY <1>2, <2>1 DEF SkipStep, PassDone
    <2>3. WalkOK(w, settled) /\ w.stack # <<>> /\ w.state = walk.state
      BY <1>1, <1>2, <2>1, PassesKeeps
    <2>4. PICK S : S = settled
      OBVIOUS
    <2>. QED  BY <1>1, <2>2, <2>3, <2>4, MovesOn
  <1>3. CASE Here \notin walk.state.done
    <2>1. PICK stack, p, w, S : /\ stack = walk.stack /\ p = Here /\ w = walk' /\ S = settled'
      OBVIOUS
    <2>2. w = Finished(stack, walk.state, p, "skipped", 0, 0) /\ S = settled \cup {p}
      BY <1>3, <2>1 DEF SkipStep, PassDone
    <2>3. /\ stack # <<>> /\ StackOK(stack, settled) /\ StateOK(walk.state, settled)
          /\ InList(Last(stack)) /\ p = Under(Last(stack), 0)
      BY <1>1, <2>1, Standing
    <2>4. Goes(Finished(stack, walk.state, p, "skipped", 0, 0), walk.state, p, "skipped", S)
      BY <2>2, <2>3, FinishedOK
    <2>5. /\ WalkOK(w, S) /\ w.stack # <<>> /\ walk.state.done \subseteq w.state.done
          /\ settled \subseteq S
      BY <2>2, <2>4 DEF Goes
    <2>. QED  BY <1>1, <2>1, <2>5, MovesOn
  <1>. QED  BY <1>2, <1>3

LEMMA EffectKeeps ==
  ASSUME WalkInv, EffectStep \/ StatementThrows
  PROVE  WalkInv' /\ Done \subseteq Done'
  <1>1. /\ AtStepOf /\ InWalk /\ UNCHANGED manifest
    BY DEF EffectStep, StatementThrows, ToExecute, AtStepOf
  <1>2. PICK w, S, E, st : w = walk' /\ S = settled' /\ E = DOMAIN effects' /\ st = run'.state
    OBVIOUS
  <1>3. E \subseteq DOMAIN effects \cup {Here}
    BY <1>2 DEF EffectStep, StatementThrows, Extend
  <1>4. /\ settled \subseteq S /\ WalkOK(w, S) /\ Done \subseteq Done'
        /\ DOMAIN run' = {"status", "state"} /\ StateOK(st, S)
    <2>1. CASE EffectStep
      <3>1. PICK ok \in BOOLEAN, t \in 0 .. 1 :
              EndsHere(IF ok THEN "completed" ELSE "failed", walk.state, t)
        BY <2>1 DEF EffectStep
      <3>2. DOMAIN walk.state = StateFields
        BY <1>1, Standing DEF StateOK
      <3>3. /\ settled \subseteq S /\ WalkOK(w, S) /\ w.stack # <<>>
            /\ walk.state.done \subseteq w.state.done
        BY <1>1, <1>2, <3>1, <3>2, EndsHereKeeps
      <3>4. run' = run
        BY <2>1 DEF EffectStep
      <3>. QED  BY <1>1, <1>2, <3>3, <3>4, StateMoves DEF Done, InWalk, WalkInv, StateOK
    <2>2. CASE StatementThrows /\ TopLevel
      <3>1. /\ walk' = NoWalk /\ settled' = settled
            /\ run' = [status |-> "failed", state |-> walk.state]
        BY <2>2 DEF StatementThrows
      <3>2. WalkOK(NoWalk, S)
        BY DEF WalkOK, NoWalk, Walking, StateOK, FreshWalkState, StateFields, EmptyMap
      <3>. QED  BY <1>1, <1>2, <3>1, <3>2 DEF Done, InWalk, WalkInv, WalkOK, NoWalk, Walking
    <2>3. CASE StatementThrows /\ ~TopLevel
      <3>1. walk' = [walk EXCEPT !.ret = "failed"] /\ settled' = settled /\ run' = run
        BY <2>3 DEF StatementThrows
      <3>2. /\ DOMAIN w = {"stack", "state", "ret"} /\ w.stack = walk.stack /\ w.state = walk.state
            /\ w.ret = "failed"
        BY <1>2, <3>1 DEF WalkInv, WalkOK
      <3>. QED  BY <1>1, <1>2, <3>1, <3>2 DEF Done, InWalk, WalkInv, WalkOK
    <2>. QED  BY <2>1, <2>2, <2>3
  <1>5. Before(Here) \subseteq settled
    <2>1. PICK f : f = Top
      OBVIOUS
    <2>2. FrameOK(f, settled) /\ InList(f) /\ Here = Under(f, 0) /\ manifest \in Manifests
      BY <1>1, <2>1, Standing DEF WalkInv
    <2>. QED  BY <2>2, BeforeHere
  <1>6. \A p \in E : Before(p) \subseteq S
    BY <1>3, <1>4, <1>5 DEF WalkInv
  <1>7. WalkInv'
    BY <1>1, <1>2, <1>4, <1>6, InvKeeps
  <1>. QED  BY <1>4, <1>7

(* Delays and gates. *)
LEMMA ParkKeeps ==
  ASSUME WalkInv, WaitStep \/ AskStep
  PROVE  WalkInv' /\ Done \subseteq Done'
  <1>1. AtStepOf /\ InWalk /\ UNCHANGED <<manifest, run, effects>>
    BY DEF WaitStep, AskStep, ToExecute, AtStepOf
  <1>2. DOMAIN walk.state = StateFields
    BY <1>1, Standing DEF StateOK
  <1>3. PICK result, state : /\ EndsHere(result, state, 0)
                             /\ DOMAIN state = StateFields /\ state.done = walk.state.done
                             /\ state.iteration = walk.state.iteration
    <2>1. PICK waits, goes, asks, told :
            /\ waits = [walk.state EXCEPT !.delay = Here]
            /\ goes = [walk.state EXCEPT !.delay = <<>>]
            /\ asks = [walk.state EXCEPT !.approval = Here]
            /\ told = [walk.state EXCEPT !.approval = <<>>]
      OBVIOUS
    <2>2. \A s \in {walk.state, waits, goes, asks, told} :
            /\ DOMAIN s = StateFields /\ s.done = walk.state.done
            /\ s.iteration = walk.state.iteration
      BY <1>2, <2>1 DEF StateFields
    <2>3. CASE WaitStep
      <3>1. \E x : \E s \in {walk.state, waits, goes, asks, told} : EndsHere(x, s, 0)
        BY <2>1, <2>3 DEF WaitStep
      <3>. QED  BY <2>2, <3>1
    <2>4. CASE AskStep
      <3>1. \E x : \E s \in {walk.state, waits, goes, asks, told} : EndsHere(x, s, 0)
        BY <2>1, <2>4 DEF AskStep
      <3>. QED  BY <2>2, <3>1
    <2>. QED  BY <2>3, <2>4
  <1>4. PICK w, S : w = walk' /\ S = settled'
    OBVIOUS
  <1>5. /\ settled \subseteq S /\ WalkOK(w, S) /\ w.stack # <<>>
        /\ walk.state.done \subseteq w.state.done
    BY <1>1, <1>3, <1>4, EndsHereKeeps
  <1>. QED  BY <1>1, <1>4, <1>5, MovesOn

(* A branch or a round is entered. *)
LEMMA CallKeeps ==
  ASSUME WalkInv, AtStepOf, UNCHANGED <<manifest, run, effects, settled>>,
         NEW n \in Nat, NEW list, NEW state, NEW since, NEW loop,
         walk' = Walking(Append(walk.stack, Frame(list, Under(Top, n), since, loop)), state, "none"),
         FrameOK(Frame(list, Under(Top, n), since, loop), settled),
         StateOK(state, settled), state.done = walk.state.done
  PROVE  WalkInv' /\ Done \subseteq Done'
  <1>1. PICK stack, f, q : stack = walk.stack /\ f = Top /\ q = Under(f, n)
    OBVIOUS
  <1>2. PICK g : g = Frame(list, q, since, loop)
    OBVIOUS
  <1>3. /\ stack # <<>> /\ StackOK(stack, settled) /\ f = Last(stack)
        /\ FrameOK(f, settled) /\ InList(f) /\ manifest \in Manifests
    BY <1>1, Standing DEF WalkInv
  <1>4. q # <<>> /\ Owner(q) = Under(f, 0)
    <2>1. Under(f, n) # <<>> /\ Owner(Under(f, n)) = Under(f, 0)
      BY <1>3, BeforeHere
    <2>. QED  BY <1>1, <2>1
  <1>5. FrameOK(g, settled) /\ Calls(Last(stack), g)
    <2>1. g.prefix = q
      BY <1>2 DEF Frame
    <2>. QED  BY <1>1, <1>2, <1>3, <1>4, <2>1 DEF Calls
  <1>6. StackOK(Append(stack, g), settled) /\ Append(stack, g) # <<>>
    BY <1>3, <1>5, CallPushes
  <1>7. PICK w, S : w = walk' /\ S = settled
    OBVIOUS
  <1>8. WalkOK(w, S) /\ w.stack # <<>> /\ walk.state.done \subseteq w.state.done
    <2>1. w = Walking(Append(stack, g), state, "none")
      BY <1>1, <1>2, <1>7
    <2>2. /\ DOMAIN w = {"stack", "state", "ret"} /\ w.stack = Append(stack, g)
          /\ w.state = state /\ w.ret = "none"
      BY <2>1 DEF Walking
    <2>. QED  BY <1>6, <1>7, <2>2 DEF WalkOK
  <1>9. InWalk
    BY DEF AtStepOf
  <1>. QED  BY <1>7, <1>8, <1>9, MovesOn

LEMMA BranchKeeps ==
  ASSUME WalkInv, ConditionStep
  PROVE  WalkInv' /\ Done \subseteq Done'
  <1>1. /\ AtStepOf /\ InWalk /\ UNCHANGED <<manifest, run, effects>> /\ StepOf(Here).kind = "condition"
    BY DEF ConditionStep, ToExecute, AtStepOf
  <1>2. CASE \E x \in {"failed", "completed"} : EndsHere(x, walk.state, 0)
    <2>1. PICK x : EndsHere(x, walk.state, 0)
      BY <1>2
    <2>2. PICK w, S : w = walk' /\ S = settled'
      OBVIOUS
    <2>3. DOMAIN walk.state = StateFields
      BY <1>1, Standing DEF StateOK
    <2>4. /\ settled \subseteq S /\ WalkOK(w, S) /\ w.stack # <<>>
          /\ walk.state.done \subseteq w.state.done
      BY <1>1, <2>1, <2>2, <2>3, EndsHereKeeps
    <2>. QED  BY <1>1, <2>2, <2>4, MovesOn
  <1>3. CASE ~ \E x \in {"failed", "completed"} : EndsHere(x, walk.state, 0)
    <2>1. PICK step, n, list : /\ step = StepOf(Here) /\ n = BranchOf(step, walk.state)
                               /\ list = BranchList(step, n)
      OBVIOUS
    <2>2. /\ Call(list, Append(Top.prefix, <<Top.list[Top.at], n>>), clock.ran, NoLoop, walk.state)
          /\ settled' = settled
      BY <1>3, <2>1 DEF ConditionStep
    <2>3. n \in Nat
      BY <2>1 DEF BranchOf
    <2>4. PICK since, loop, state : since = clock.ran /\ loop = NoLoop /\ state = walk.state
      OBVIOUS
    <2>5. walk' = Walking(Append(walk.stack, Frame(list, Under(Top, n), since, loop)), state, "none")
      BY <2>2, <2>4 DEF Call, Under
    <2>6. FrameOK(Frame(list, Under(Top, n), since, loop), settled)
      <3>1. PICK f, S : f = Top /\ S = settled
        OBVIOUS
      <3>2. /\ FrameOK(f, S) /\ InList(f) /\ manifest \in Manifests
            /\ Here = Under(f, 0)
        BY <1>1, <3>1, Standing DEF WalkInv
      <3>3. Last(Here)[1] = f.list[f.at]
        <4>1. Last(Under(f, 0)) = <<f.list[f.at], 0>>
          BY <3>2, BeforeHere
        <4>. QED  BY <3>2, <4>1
      <3>4. Step(f.list[f.at]).kind = "condition" /\ list = BranchList(Step(f.list[f.at]), n)
        BY <1>1, <2>1, <3>3 DEF StepOf
      <3>5. FrameOK(Frame(list, Under(f, n), since, loop), S)
        BY <2>3, <3>2, <3>4, FrameCalled
      <3>. QED  BY <3>1, <3>5
    <2>7. StateOK(state, settled) /\ state.done = walk.state.done
      BY <1>1, <2>4, Standing
    <2>. QED  BY <1>1, <2>2, <2>3, <2>5, <2>6, <2>7, CallKeeps
  <1>. QED  BY <1>2, <1>3

(* A loop of one more round, or of none. *)
LEMMA LaterRound ==
  ASSUME NEW q, NEW r, NEW i \in Nat, NEW S, Front(q) = Front(r), Last(q)[1] = Last(r)[1]
  PROVE  PastRounds(q, i, S) <=> PastRounds(r, i, S)
  <1>1. PICK id, x : id = Last(q)[1] /\ x = <<id, i>>
    OBVIOUS
  <1>2. PICK list : list = Step(id).then
    OBVIOUS
  <1>3. Rounds(list, q, x) = Rounds(list, r, x)
    BY DEF Rounds
  <1>. QED  BY <1>1, <1>2, <1>3 DEF PastRounds

LEMMA FirstRound ==
  ASSUME NEW q, NEW S
  PROVE  PastRounds(q, 1, S)
  <1>1. PICK id, y : id = Last(q)[1] /\ y = <<id, 1>>
    OBVIOUS
  <1>2. PICK list : list = Step(id).then
    OBVIOUS
  <1>3. ASSUME NEW r \in Rounds(list, q, y) PROVE FALSE
    <2>1. \E k \in 1 .. y[2] - 1 : \E j \in DOMAIN list :
            r = Append(Append(Front(q), <<y[1], k>>), <<list[j], 0>>)
      BY Z3 DEF Rounds
    <2>2. PICK k \in 1 .. y[2] - 1 : TRUE
      BY <2>1
    <2>3. y[2] = 1
      BY <1>1
    <2>. QED  BY <2>2, <2>3
  <1>. QED  BY <1>1, <1>2, <1>3 DEF PastRounds

LEMMA LoopKeeps ==
  ASSUME WalkInv, ForEachStep
  PROVE  WalkInv' /\ Done \subseteq Done'
  <1>1. /\ AtStepOf /\ InWalk /\ UNCHANGED <<manifest, run, effects>> /\ StepOf(Here).kind = "for_each"
    BY DEF ForEachStep, ToExecute, AtStepOf
  <1>2. CASE \E x \in {"failed", "completed"} : EndsHere(x, walk.state, 0)
    <2>1. PICK x : EndsHere(x, walk.state, 0)
      BY <1>2
    <2>2. PICK w, S : w = walk' /\ S = settled'
      OBVIOUS
    <2>3. DOMAIN walk.state = StateFields
      BY <1>1, Standing DEF StateOK
    <2>4. /\ settled \subseteq S /\ WalkOK(w, S) /\ w.stack # <<>>
          /\ walk.state.done \subseteq w.state.done
      BY <1>1, <2>1, <2>2, <2>3, EndsHereKeeps
    <2>. QED  BY <1>1, <2>2, <2>4, MovesOn
  <1>3. CASE ~ \E x \in {"failed", "completed"} : EndsHere(x, walk.state, 0)
    <2>1. PICK step, i, list, p : /\ step = StepOf(Here) /\ i = FirstOpen(Here)
                                  /\ list = step.then /\ p = Here
      OBVIOUS
    <2>2. PICK since, loop, state :
            /\ since = clock.ran /\ loop = NoLoop
            /\ state = [walk.state EXCEPT !.iteration = Extend(@, p, i)]
      OBVIOUS
    <2>3. /\ Call(list, Append(Top.prefix, <<Top.list[Top.at], i>>), since, loop, state)
          /\ settled' = settled
      BY <1>3, <2>1, <2>2 DEF ForEachStep
    <2>4. walk' = Walking(Append(walk.stack, Frame(list, Under(Top, i), since, loop)), state, "none")
      BY <2>3 DEF Call, Under
    <2>5. PICK f, S : f = Top /\ S = settled
      OBVIOUS
    <2>6. /\ FrameOK(f, S) /\ InList(f) /\ manifest \in Manifests /\ StateOK(walk.state, S)
          /\ p = Under(f, 0)
      BY <1>1, <2>1, <2>5, Standing DEF WalkInv
    <2>7. i \in Nat \ {0} /\ PastRounds(p, i, S)
      <3>1. CASE p \in DOMAIN walk.state.iteration
        BY <2>1, <2>6, <3>1 DEF FirstOpen, At, StateOK
      <3>2. CASE p \notin DOMAIN walk.state.iteration
        BY <2>1, <3>2, FirstRound DEF FirstOpen, At
      <3>. QED  BY <3>1, <3>2
    <2>8. /\ Last(p) = <<f.list[f.at], 0>> /\ Front(p) = f.prefix
          /\ Last(Under(f, i)) = <<f.list[f.at], i>> /\ Front(Under(f, i)) = f.prefix
      <3>1. Last(Under(f, 0)) = <<f.list[f.at], 0>> /\ Front(Under(f, 0)) = f.prefix
        BY <2>6, BeforeHere
      <3>2. Last(Under(f, i)) = <<f.list[f.at], i>> /\ Front(Under(f, i)) = f.prefix
        BY <2>6, <2>7, BeforeHere
      <3>. QED  BY <2>6, <3>1, <3>2
    <2>9. FrameOK(Frame(list, Under(f, i), since, loop), S)
      <3>1. PICK q : q = Under(f, i)
        OBVIOUS
      <3>2. PastRounds(q, i, S)
        <4>1. Front(p) = Front(q) /\ Last(p)[1] = Last(q)[1] /\ i \in Nat
          BY <2>7, <2>8, <3>1
        <4>. QED  BY <2>7, <4>1, LaterRound
      <3>3. Step(f.list[f.at]).kind = "for_each" /\ list = Step(f.list[f.at]).then
        BY <1>1, <2>1, <2>8 DEF StepOf
      <3>. QED  BY <2>6, <2>7, <3>1, <3>2, <3>3, FrameCalled
    <2>10. StateOK(state, S) /\ state.done = walk.state.done
      <3>1. /\ DOMAIN state = StateFields /\ state.done = walk.state.done
            /\ state.iteration = Extend(walk.state.iteration, p, i)
        BY <2>2, <2>6 DEF StateOK, StateFields
      <3>2. ASSUME NEW r \in DOMAIN state.iteration
            PROVE  state.iteration[r] \in Nat \ {0} /\ PastRounds(r, state.iteration[r], S)
        <4>1. CASE r = p
          BY <2>7, <3>1, <4>1 DEF Extend
        <4>2. CASE r # p
          BY <2>6, <3>1, <3>2, <4>2 DEF Extend, StateOK
        <4>. QED  BY <4>1, <4>2
      <3>. QED  BY <2>6, <3>1, <3>2 DEF StateOK
    <2>11. FrameOK(Frame(list, Under(Top, i), since, loop), settled) /\ StateOK(state, settled)
      BY <2>5, <2>9, <2>10
    <2>. QED  BY <1>1, <2>3, <2>4, <2>7, <2>10, <2>11, CallKeeps
  <1>. QED  BY <1>2, <1>3

----------------------------------------------------------------------------
(* The returns to the step that made the call *)

(* A list that is walked to its end below a loop settles one more round.      *)
LEMMA RoundDone ==
  ASSUME NEW f, NEW S, FrameOK(f, S), f.prefix # <<>>, f.at > Len(f.list),
         Step(Last(f.prefix)[1]).kind = "for_each", NEW i \in Nat, i = Last(f.prefix)[2]
  PROVE  PastRounds(f.prefix, i + 1, S)
  <1>1. PICK q, id, list : q = f.prefix /\ id = Last(q)[1] /\ list = f.list
    OBVIOUS
  <1>2. PICK x, y : x = <<id, i>> /\ y = <<id, i + 1>>
    OBVIOUS
  <1>3. /\ q \in Paths /\ q # <<>> /\ list = Step(id).then
        /\ Rounds(list, q, x) \subseteq S
        /\ f.at \in Nat /\ f.at > Len(list) /\ Len(list) \in Nat /\ DOMAIN list = 1 .. Len(list)
    <2>1. list = Step(id).then
      BY <1>1 DEF FrameOK, ListBelow
    <2>2. Rounds(Step(id).then, q, <<id, i>>) \subseteq S
      BY <1>1 DEF FrameOK, PastRounds
    <2>3. list \in Seq(DOMAIN manifest.step)
      BY <1>1 DEF FrameOK
    <2>. QED  BY <1>1, <1>2, <2>1, <2>2, <2>3, LenProperties DEF FrameOK
  <1>4. Last(q) = <<id, i>> /\ q = Append(Front(q), x)
    <2>1. Last(q) \in PathElts /\ q = Append(Front(q), Last(q))
      BY <1>3, Popped DEF Paths
    <2>2. Last(q) = <<Last(q)[1], Last(q)[2]>>
      BY <2>1 DEF PathElts
    <2>3. Last(q) = x
      BY <1>1, <1>2, <2>2
    <2>. QED  BY <1>2, <2>1, <2>3
  <1>5. ASSUME NEW r \in Rounds(list, q, y) PROVE r \in S
    <2>1. PICK k \in 1 .. y[2] - 1, j \in DOMAIN list :
            r = Append(Append(Front(q), <<y[1], k>>), <<list[j], 0>>)
      BY DEF Rounds
    <2>2. k \in 1 .. i /\ y[1] = id /\ x[1] = id /\ x[2] = i
      BY <1>2, <2>1
    <2>3. CASE k = i
      <3>1. r = Append(q, <<list[j], 0>>)
        BY <1>2, <1>4, <2>1, <2>2, <2>3
      <3>2. j \in 1 .. Len(list) /\ j < f.at
        BY <1>3
      <3>. QED  BY <1>1, <3>1, <3>2 DEF FrameOK
    <2>4. CASE k # i
      <3>1. k \in 1 .. x[2] - 1
        BY <2>2, <2>4
      <3>2. r \in Rounds(list, q, x)
        BY <2>1, <2>2, <3>1 DEF Rounds
      <3>. QED  BY <1>3, <3>2
    <2>. QED  BY <2>3, <2>4
  <1>6. Rounds(Step(id).then, q, <<id, i + 1>>) \subseteq S
    BY <1>2, <1>3, <1>5
  <1>. QED  BY <1>1, <1>6 DEF PastRounds

(* The frame that returns, and the step it was called for. *)
LEMMA ReturningTo ==
  ASSUME WalkInv, Returning
  PROVE  /\ walk.stack # <<>> /\ StackOK(walk.stack, settled) /\ StateOK(walk.state, settled)
         /\ Top = Last(walk.stack) /\ FrameOK(Top, settled) /\ Top.prefix # <<>>
         /\ StackOK(Front(walk.stack), settled) /\ Front(walk.stack) # <<>>
         /\ InList(Last(Front(walk.stack)))
         /\ OwnerPath(Top) = Under(Last(Front(walk.stack)), 0)
         /\ OwnerPath(Top) = Owner(Top.prefix)
  <1>1. PICK stack, f, g, q : /\ stack = walk.stack /\ f = Last(stack) /\ g = Last(Front(stack))
                              /\ q = f.prefix
    OBVIOUS
  <1>2. stack # <<>> /\ Len(stack) # 1 /\ StackOK(stack, settled) /\ StateOK(walk.state, settled)
    BY <1>1 DEF WalkInv, WalkOK, Returning, InWalk, TopLevel
  <1>3. FrameOK(f, settled)
    BY <1>1, <1>2, StackTop
  <1>4. /\ StackOK(Front(stack), settled) /\ Front(stack) # <<>>
        /\ Calls(g, f)
    BY <1>1, <1>2, ReturnPops
  <1>5. OwnerPath(f) = Owner(q)
    <2>1. q \in Seq(PathElts) /\ q # <<>>
      BY <1>1, <1>3, <1>4 DEF FrameOK, Paths, Calls
    <2>2. PICK front, x, y : front = Front(q) /\ x = Last(q) /\ y = <<x[1], 0>>
      OBVIOUS
    <2>3. PICK T : T = PathElts \cup {y}
      OBVIOUS
    <2>4. q \in Seq(T) /\ y \in T
      BY <2>1, <2>3, SeqMonotonic
    <2>5. /\ Len(q) \in Nat \ {0} /\ front \in Seq(T) /\ Len(front) = Len(q) - 1
          /\ \A i \in 1 .. Len(q) - 1 : front[i] = q[i]
      BY <2>1, <2>2, <2>4, Popped
    <2>6. PICK n \in Nat \ {0} : n = Len(q)
      BY <2>5
    <2>7. PICK new, own : new = [q EXCEPT ![n] = y] /\ own = Append(front, y)
      OBVIOUS
    <2>8. own \in Seq(T) /\ Len(own) = n /\ \A i \in 1 .. n - 1 : own[i] = q[i]
      <3>1. /\ Append(front, y) \in Seq(T) /\ Len(Append(front, y)) = Len(front) + 1
            /\ \A i \in 1 .. Len(front) : Append(front, y)[i] = front[i]
        BY <2>4, <2>5, Pushed
      <3>. QED  BY <2>5, <2>6, <2>7, <3>1
    <2>9. own[n] = y
      <3>1. Last(Append(front, y)) = y /\ Append(front, y) # <<>>
        BY <2>4, <2>5, Pushed
      <3>. QED  BY <2>7, <2>8, <3>1 DEF Last
    <2>10. /\ new \in Seq(T) /\ Len(new) = n /\ new[n] = y
           /\ \A i \in 1 .. n - 1 : new[i] = q[i]
      BY <2>4, <2>6, <2>7
    <2>11. \A i \in 1 .. n : new[i] = own[i]
      BY <2>8, <2>9, <2>10
    <2>12. new = own
      BY <2>8, <2>10, <2>11, SeqEqual
    <2>. QED  BY <1>1, <2>2, <2>6, <2>7, <2>12 DEF OwnerPath, Owner
  <1>. QED  BY <1>1, <1>2, <1>3, <1>4, <1>5 DEF Calls, Top

(* The step that made the call ends with what its list came to. *)
LEMMA OwnerKeeps ==
  ASSUME WalkInv, Returning, UNCHANGED <<manifest, run, effects>>, NEW result, NEW state,
         OwnerEnds(result, state), StateOK(state, settled), state.done = walk.state.done
  PROVE  WalkInv' /\ Done \subseteq Done'
  <1>1. PICK stack, p, w, S, since, ran :
          /\ stack = Front(walk.stack) /\ p = OwnerPath(Top) /\ w = walk' /\ S = settled'
          /\ since = Top.since /\ ran = clock.ran
    OBVIOUS
  <1>2. w = Finished(stack, state, p, result, since, ran) /\ S = SettledBy(p, result)
    BY <1>1 DEF OwnerEnds
  <1>3. /\ stack # <<>> /\ StackOK(stack, settled) /\ InList(Last(stack))
        /\ p = Under(Last(stack), 0)
    BY <1>1, ReturningTo
  <1>4. settled \subseteq S /\ (Settles(p, result) => p \in S)
    BY <1>2 DEF SettledBy, Settles
  <1>5. Goes(Finished(stack, state, p, result, since, ran), state, p, result, S)
    BY <1>3, <1>4, FinishedOK
  <1>6. /\ WalkOK(w, S) /\ w.stack # <<>> /\ walk.state.done \subseteq w.state.done
    BY <1>2, <1>5 DEF Goes
  <1>7. InWalk
    BY DEF Returning
  <1>. QED  BY <1>1, <1>4, <1>6, <1>7, MovesOn

LEMMA ResultKeeps ==
  ASSUME WalkInv, ReturnResult
  PROVE  WalkInv' /\ Done \subseteq Done'
  <1>1. /\ Returning /\ UNCHANGED <<manifest, run, effects>> /\ OwnerEnds(walk.ret, walk.state)
        /\ StateOK(walk.state, settled)
    BY DEF ReturnResult, WalkInv, WalkOK
  <1>. QED  BY <1>1, OwnerKeeps

LEMMA RoundKeeps ==
  ASSUME WalkInv, IterationEnds
  PROVE  WalkInv' /\ Done \subseteq Done'
  <1>1. /\ Returning /\ InWalk /\ walk.ret = "completed" /\ UNCHANGED <<manifest, run, effects>>
        /\ StepOf(OwnerPath(Top)).kind = "for_each"
    BY DEF IterationEnds, Returning
  <1>2. PICK stack, f, p, q, i :
          /\ stack = walk.stack /\ f = Top /\ p = OwnerPath(Top) /\ q = f.prefix /\ i = Last(q)[2]
    OBVIOUS
  <1>3. /\ stack # <<>> /\ StackOK(stack, settled) /\ StateOK(walk.state, settled)
        /\ f = Last(stack) /\ FrameOK(f, settled) /\ q # <<>> /\ p = Owner(q)
    BY <1>1, <1>2, ReturningTo
  <1>4. f.at > Len(f.list)
    BY <1>1, <1>2, <1>3 DEF WalkInv, WalkOK
  <1>5. PICK id : id = Last(q)[1]
    OBVIOUS
  <1>6. /\ q \in Paths /\ Front(q) \in Paths /\ Last(q) = <<id, i>> /\ i \in Nat /\ id \in AllIds
        /\ q = Append(Front(q), <<id, i>>)
    <2>1. q \in Seq(PathElts) /\ q # <<>>
      BY <1>2, <1>3 DEF FrameOK, Paths
    <2>2. Last(q) \in PathElts /\ Front(q) \in Seq(PathElts) /\ q = Append(Front(q), Last(q))
      BY <2>1, Popped
    <2>3. Last(q) = <<id, i>> /\ i \in Nat /\ id \in AllIds
      BY <1>2, <1>5, <2>2 DEF PathElts
    <2>. QED  BY <2>1, <2>2, <2>3 DEF Paths
  <1>7. Front(p) = Front(q) /\ Last(p) = <<id, 0>>
    <2>1. PICK front, x : front = Front(q) /\ x = <<id, 0>>
      OBVIOUS
    <2>2. front \in Seq(PathElts) /\ x \in PathElts
      BY <1>6, <2>1 DEF PathElts, Paths
    <2>3. Front(Append(front, x)) = front /\ Last(Append(front, x)) = x
      BY <2>2, Pushed
    <2>4. p = Append(front, x)
      BY <1>3, <1>5, <2>1 DEF Owner
    <2>. QED  BY <2>1, <2>3, <2>4
  <1>8. Step(id).kind = "for_each" /\ Last(p)[1] = id
    BY <1>1, <1>2, <1>7 DEF StepOf
  <1>9. PastRounds(q, i + 1, settled) /\ PastRounds(p, i + 1, settled)
    <2>1. Step(Last(q)[1]).kind = "for_each"
      BY <1>5, <1>8
    <2>2. PastRounds(q, i + 1, settled)
      BY <1>2, <1>3, <1>4, <1>6, <2>1, RoundDone
    <2>3. Front(p) = Front(q) /\ Last(p)[1] = Last(q)[1] /\ i + 1 \in Nat
      BY <1>5, <1>6, <1>7
    <2>. QED  BY <2>2, <2>3, LaterRound
  <1>10. PICK st : st = [walk.state EXCEPT !.iteration = Without(@, p)]
    OBVIOUS
  <1>11. /\ DOMAIN st = StateFields /\ st.done = walk.state.done
         /\ st.iteration = Without(walk.state.iteration, p)
    BY <1>3, <1>10 DEF StateOK, StateFields
  <1>12. StateOK(st, settled)
    BY <1>3, <1>11 DEF StateOK, Without
  <1>13. CASE i < StepOf(p).items
    <2>1. PICK loop, since, list : loop = Verdict(f) /\ since = f.since /\ list = f.list
      OBVIOUS
    <2>2. PICK r, g : r = Append(Front(q), <<id, i + 1>>) /\ g = Frame(list, r, since, loop)
      OBVIOUS
    <2>3. PICK new : new = [st EXCEPT !.iteration = Extend(@, p, i + 1)]
      OBVIOUS
    <2>4. /\ walk' = Walking(OnTop(stack, g), new, "none")
          /\ settled' = settled
      BY <1>2, <1>8, <1>10, <1>13, <2>1, <2>2, <2>3 DEF IterationEnds
    <2>5. PICK h, S, n :
            /\ h = Last(Front(walk.stack)) /\ S = settled /\ n = i + 1
      OBVIOUS
    <2>6. /\ FrameOK(h, S) /\ InList(h) /\ p = Under(h, 0) /\ manifest \in Manifests
          /\ n \in Nat \ {0}
      BY <1>1, <1>2, <1>6, <2>5, ReturningTo, StackTop DEF WalkInv
    <2>7. h.list[h.at] = id /\ h.prefix = Front(q)
      <3>1. Last(Under(h, 0)) = <<h.list[h.at], 0>> /\ Front(Under(h, 0)) = h.prefix
        BY <2>6, BeforeHere
      <3>. QED  BY <1>7, <2>6, <3>1
    <2>8. r = Under(h, n)
      BY <2>2, <2>5, <2>7 DEF Under
    <2>9. /\ r # <<>> /\ Front(r) = h.prefix /\ Last(r) = <<h.list[h.at], n>> /\ Owner(r) = p
      <3>1. /\ Under(h, n) # <<>> /\ Front(Under(h, n)) = h.prefix
            /\ Last(Under(h, n)) = <<h.list[h.at], n>> /\ Owner(Under(h, n)) = Under(h, 0)
        BY <2>6, BeforeHere
      <3>. QED  BY <2>6, <2>8, <3>1
    <2>10. PastRounds(r, n, S)
      <3>1. Front(r) = Front(q) /\ Last(r)[1] = Last(q)[1] /\ n \in Nat
        BY <1>5, <2>6, <2>7, <2>9
      <3>. QED  BY <1>9, <2>5, <3>1, LaterRound
    <2>11. FrameOK(g, S)
      <3>1. Step(h.list[h.at]).kind = "for_each" /\ list = Step(h.list[h.at]).then
        <4>1. list = Step(id).then
          BY <1>2, <1>3, <1>5, <1>8, <2>1 DEF FrameOK, ListBelow
        <4>. QED  BY <1>8, <2>7, <4>1
      <3>2. PastRounds(Under(h, n), n, S)
        BY <2>8, <2>10
      <3>3. FrameOK(Frame(list, Under(h, n), since, loop), S)
        BY <2>6, <3>1, <3>2, FrameCalled
      <3>. QED  BY <2>2, <2>8, <3>3
    <2>12. /\ StackOK(OnTop(stack, g), S) /\ OnTop(stack, g) # <<>>
      <3>1. g.prefix = r
        BY <2>2 DEF Frame
      <3>2. g.prefix # <<>> /\ Last(stack).prefix # <<>>
            /\ Owner(g.prefix) = Owner(Last(stack).prefix)
        BY <1>2, <1>3, <2>9, <3>1
      <3>3. StackOK(stack, S)
        BY <1>3, <2>5
      <3>. QED  BY <1>3, <2>11, <3>2, <3>3, TopMoves
    <2>13. StateOK(new, S) /\ new.done = walk.state.done
      <3>1. /\ DOMAIN new = StateFields /\ new.done = walk.state.done
            /\ new.iteration = Extend(st.iteration, p, n)
        BY <1>11, <2>3, <2>5 DEF StateFields
      <3>2. PastRounds(p, n, S)
        BY <1>9, <2>5
      <3>3. ASSUME NEW x \in DOMAIN new.iteration
            PROVE  new.iteration[x] \in Nat \ {0} /\ PastRounds(x, new.iteration[x], S)
        <4>1. CASE x = p
          BY <2>6, <3>1, <3>2, <4>1 DEF Extend
        <4>2. CASE x # p
          BY <1>12, <2>5, <3>1, <3>3, <4>2 DEF Extend, StateOK
        <4>. QED  BY <4>1, <4>2
      <3>. QED  BY <1>3, <2>5, <3>1, <3>3 DEF StateOK
    <2>14. PICK w : w = walk'
      OBVIOUS
    <2>15. WalkOK(w, S) /\ w.stack # <<>> /\ walk.state.done \subseteq w.state.done
      <3>1. /\ DOMAIN w = {"stack", "state", "ret"} /\ w.stack = OnTop(stack, g)
            /\ w.state = new /\ w.ret = "none"
        BY <2>4, <2>14 DEF Walking
      <3>. QED  BY <2>12, <2>13, <3>1 DEF WalkOK
    <2>. QED  BY <1>1, <2>4, <2>5, <2>14, <2>15, MovesOn
  <1>14. CASE ~(i < StepOf(p).items)
    <2>1. PICK result : OwnerEnds(result, st)
      BY <1>2, <1>10, <1>14 DEF IterationEnds
    <2>. QED  BY <1>1, <1>11, <1>12, <2>1, OwnerKeeps
  <1>. QED  BY <1>13, <1>14

LEMMA EndKeeps ==
  ASSUME WalkInv, WalkEnds
  PROVE  WalkInv' /\ Done \subseteq Done'
  <1>1. PICK w, S, E, st : w = NoWalk /\ S = settled /\ E = DOMAIN effects /\ st = walk.state
    OBVIOUS
  <1>2. /\ w = walk' /\ S = settled' /\ E = DOMAIN effects' /\ DOMAIN run' = {"status", "state"}
        /\ st = run'.state /\ UNCHANGED manifest
    BY <1>1 DEF WalkEnds
  <1>3. WalkOK(w, S)
    BY <1>1 DEF WalkOK, NoWalk, Walking, StateOK, FreshWalkState, StateFields, EmptyMap
  <1>4. StateOK(st, S) /\ \A p \in E : Before(p) \subseteq S
    BY <1>1 DEF WalkInv, WalkOK
  <1>5. WalkInv'
    BY <1>2, <1>3, <1>4, InvKeeps
  <1>6. Done \subseteq Done'
    BY <1>1, <1>2 DEF Done, InWalk, WalkEnds, NoWalk, Walking
  <1>. QED  BY <1>5, <1>6

(* Time, decisions, and steps of others. *)
LEMMA OthersKeep ==
  ASSUME WalkInv, UNCHANGED <<manifest, walk, effects, settled>>,
         run' = run \/ \E s : run' = [run EXCEPT !.status = s]
  PROVE  WalkInv' /\ Done \subseteq Done'
  <1>1. PICK w, S, E, st : w = walk /\ S = settled /\ E = DOMAIN effects /\ st = run.state
    OBVIOUS
  <1>2. DOMAIN run' = {"status", "state"} /\ st = run'.state
    BY <1>1 DEF WalkInv
  <1>3. WalkOK(w, S) /\ StateOK(st, S) /\ \A p \in E : Before(p) \subseteq S
    BY <1>1 DEF WalkInv
  <1>4. w = walk' /\ S = settled' /\ E = DOMAIN effects'
    BY <1>1
  <1>5. WalkInv'
    BY <1>2, <1>3, <1>4, InvKeeps
  <1>. QED  BY <1>1, <1>2, <1>5 DEF Done, InWalk

LEMMA WalkStep ==
  ASSUME WalkInv, [WalkNext]_walkVars
  PROVE  WalkInv' /\ Done \subseteq Done'
  <1>1. CASE Start
    BY <1>1, StartKeeps
  <1>2. CASE ListEnds \/ RunTimesOut \/ GuardFails
    BY <1>2, ReturnsKeeps
  <1>3. CASE SkipStep \/ PassDone
    BY <1>3, PassKeeps
  <1>4. CASE EffectStep \/ StatementThrows
    BY <1>4, EffectKeeps
  <1>5. CASE WaitStep \/ AskStep
    BY <1>5, ParkKeeps
  <1>6. CASE ConditionStep
    BY <1>6, BranchKeeps
  <1>7. CASE ForEachStep
    BY <1>7, LoopKeeps
  <1>8. CASE ReturnResult
    BY <1>8, ResultKeeps
  <1>9. CASE IterationEnds
    BY <1>9, RoundKeeps
  <1>10. CASE WalkEnds
    BY <1>10, EndKeeps
  <1>11. CASE TimePasses
    BY <1>11, OthersKeep DEF TimePasses
  <1>12. CASE Decide
    <2>1. run' = run \/ \E s : run' = [run EXCEPT !.status = s]
      BY <1>12 DEF Decide
    <2>. QED  BY <1>12, <2>1, OthersKeep DEF Decide
  <1>13. CASE UNCHANGED walkVars
    BY <1>13, OthersKeep DEF walkVars
  <1>. QED  BY <1>1, <1>2, <1>3, <1>4, <1>5, <1>6, <1>7, <1>8, <1>9, <1>10, <1>11, <1>12, <1>13
            DEF WalkNext

LEMMA WalkStarts == WalkInit => WalkInv
  BY DEF WalkInit, WalkInv, WalkOK, NoWalk, Walking, StateOK, FreshWalkState, StateFields, EmptyMap

LEMMA WalkHolds == WalkSpec => []WalkInv
  BY WalkStarts, WalkStep, PTL DEF WalkSpec

(* No effect overtakes its predecessors (executeSteps, run-executor.ts): when  *)
(* a step was executed, everything before it, at each level of nesting and in  *)
(* each earlier round of a loop, had completed, been skipped, or failed with   *)
(* on_error continue.                                                         *)
THEOREM EffectsKeepTheirOrder == WalkSpec => []WalkedInOrder
  <1>1. WalkInv => WalkedInOrder
    BY DEF WalkInv, WalkedInOrder
  <1>. QED  BY <1>1, WalkHolds, PTL

----------------------------------------------------------------------------
(* What completed is not executed again *)

(* What one effect may have come to: once when it is in _done, and once more   *)
(* for each statement that threw.                                             *)
Paid(e, throws, p, D) ==
  /\ DOMAIN e = {"ok", "bad"} /\ e.ok \in Nat
  /\ e.ok <= throws + (IF p \in D THEN 1 ELSE 0)

OnceInv ==
  /\ DOMAIN clock = {"ran", "resumes", "throws"} /\ clock.throws \in Nat
  /\ \A p \in DOMAIN effects : Paid(effects[p], clock.throws, p, Done)

LEMMA PaidStill ==
  ASSUME NEW e, NEW throws \in Nat, NEW more \in Nat, NEW p, NEW D, NEW D2,
         Paid(e, throws, p, D), throws <= more, D \subseteq D2
  PROVE  Paid(e, more, p, D2)
  BY DEF Paid

(* A step that leaves the effects alone. *)
LEMMA OnceMoves ==
  ASSUME OnceInv, Done \subseteq Done', effects' = effects,
         DOMAIN clock' = {"ran", "resumes", "throws"}, clock'.throws = clock.throws
  PROVE  OnceInv'
  <1>1. PICK n, m : n = clock.throws /\ m = clock'.throws
    OBVIOUS
  <1>2. n \in Nat /\ m = n
    BY <1>1 DEF OnceInv
  <1>3. ASSUME NEW p \in DOMAIN effects PROVE Paid(effects[p], m, p, Done')
    <2>1. PICK e, D, D2 : e = effects[p] /\ D = Done /\ D2 = Done'
      OBVIOUS
    <2>2. Paid(e, n, p, D) /\ D \subseteq D2
      BY <1>1, <2>1 DEF OnceInv
    <2>3. Paid(e, m, p, D2)
      BY <1>2, <2>2, PaidStill
    <2>. QED  BY <2>1, <2>3
  <1>. QED  BY <1>1, <1>2, <1>3 DEF OnceInv

(* An effect is executed, or it is and the statement behind it throws. *)
LEMMA OnceEffect ==
  ASSUME WalkInv, OnceInv, EffectStep \/ StatementThrows
  PROVE  OnceInv'
  <1>1. Done \subseteq Done'
    BY EffectKeeps
  <1>2. /\ AtStepOf /\ InWalk /\ Here \notin Done
    BY DEF EffectStep, StatementThrows, ToExecute, AtStepOf, Done
  <1>3. PICK h, e, n, m : /\ h = Here /\ e = At(effects, h, [ok |-> 0, bad |-> 0])
                          /\ n = clock.throws /\ m = clock'.throws
    OBVIOUS
  <1>4. n \in Nat /\ DOMAIN e = {"ok", "bad"} /\ e.ok \in Nat /\ e.ok <= n
    <2>1. CASE h \in DOMAIN effects
      <3>1. Paid(effects[h], n, h, Done) /\ h \notin Done /\ n \in Nat /\ e = effects[h]
        BY <1>2, <1>3, <2>1 DEF OnceInv, At
      <3>. QED  BY <3>1 DEF Paid
    <2>2. CASE h \notin DOMAIN effects
      BY <1>3, <2>2 DEF At, OnceInv
    <2>. QED  BY <2>1, <2>2
  <1>5. PICK e2 : /\ effects' = effects \/ effects' = Extend(effects, h, e2)
                  /\ DOMAIN clock' = {"ran", "resumes", "throws"} /\ m \in Nat /\ n <= m
                  /\ effects' # effects => Paid(e2, m, h, Done')
    <2>1. CASE EffectStep
      <3>1. PICK ok \in BOOLEAN, t \in 0 .. 1 :
              /\ EndsHere(IF ok THEN "completed" ELSE "failed", walk.state, t)
              /\ effects' = Extend(effects, h, IF ok THEN [e EXCEPT !.ok = @ + 1]
                                                     ELSE [e EXCEPT !.bad = @ + 1])
        BY <1>3, <2>1 DEF EffectStep
      <3>2. clock' = [clock EXCEPT !.ran = @ + t]
        BY <3>1 DEF EndsHere
      <3>3. DOMAIN clock' = {"ran", "resumes", "throws"} /\ m = n
        BY <1>3, <3>2 DEF OnceInv
      <3>4. CASE ok = TRUE
        <4>1. h \in Done'
          <5>1. PICK w, S : w = walk' /\ S = settled'
            OBVIOUS
          <5>2. DOMAIN walk.state = StateFields
            BY <1>2, Standing DEF StateOK
          <5>3. EndsHere("completed", walk.state, t)
            BY <3>1, <3>4
          <5>4. w.stack # <<>> /\ Here \in w.state.done
            BY <1>2, <5>1, <5>2, <5>3, EndsHereKeeps
          <5>. QED  BY <1>3, <5>1, <5>4 DEF Done, InWalk
        <4>2. PICK new : new = [e EXCEPT !.ok = @ + 1]
          OBVIOUS
        <4>3. DOMAIN new = {"ok", "bad"} /\ new.ok = e.ok + 1
          BY <1>4, <4>2
        <4>4. Paid(new, m, h, Done')
          BY <1>4, <3>3, <4>1, <4>3 DEF Paid
        <4>5. effects' = Extend(effects, h, new)
          BY <3>1, <3>4, <4>2
        <4>. QED  BY <1>4, <3>3, <4>4, <4>5
      <3>5. CASE ok = FALSE
        <4>1. PICK new : new = [e EXCEPT !.bad = @ + 1]
          OBVIOUS
        <4>2. DOMAIN new = {"ok", "bad"} /\ new.ok = e.ok
          BY <1>4, <4>1
        <4>3. Paid(new, m, h, Done')
          BY <1>4, <3>3, <4>2 DEF Paid
        <4>4. effects' = Extend(effects, h, new)
          BY <3>1, <3>5, <4>1
        <4>. QED  BY <1>4, <3>3, <4>3, <4>4
      <3>. QED  BY <3>4, <3>5
    <2>2. CASE StatementThrows
      <3>1. clock' = [clock EXCEPT !.throws = @ + 1]
        BY <2>2 DEF StatementThrows
      <3>2. DOMAIN clock' = {"ran", "resumes", "throws"} /\ m = n + 1
        BY <1>3, <3>1 DEF OnceInv
      <3>3. PICK new : new = [e EXCEPT !.ok = @ + 1]
        OBVIOUS
      <3>4. effects' = effects \/ effects' = Extend(effects, h, new)
        BY <1>3, <2>2, <3>3 DEF StatementThrows
      <3>5. DOMAIN new = {"ok", "bad"} /\ new.ok = e.ok + 1
        BY <1>4, <3>3
      <3>6. Paid(new, m, h, Done')
        BY <1>4, <3>2, <3>5 DEF Paid
      <3>. QED  BY <1>4, <3>2, <3>4, <3>6
    <2>. QED  BY <2>1, <2>2
  <1>6. ASSUME NEW p \in DOMAIN effects' PROVE Paid(effects'[p], m, p, Done')
    <2>1. CASE effects' # effects /\ p = h
      <3>1. effects' = Extend(effects, h, e2)
        BY <1>5, <2>1
      <3>2. effects'[p] = e2
        BY <2>1, <3>1 DEF Extend
      <3>. QED  BY <1>5, <2>1, <3>2
    <2>2. CASE effects' = effects \/ p # h
      <3>1. p \in DOMAIN effects /\ effects'[p] = effects[p]
        BY <1>5, <1>6, <2>2 DEF Extend
      <3>2. PICK x, D, D2 : x = effects[p] /\ D = Done /\ D2 = Done'
        OBVIOUS
      <3>3. Paid(x, n, p, D) /\ D \subseteq D2
        BY <1>1, <1>3, <3>1, <3>2 DEF OnceInv
      <3>4. Paid(x, m, p, D2)
        BY <1>4, <1>5, <3>3, PaidStill
      <3>. QED  BY <3>1, <3>2, <3>4
    <2>. QED  BY <2>1, <2>2
  <1>. QED  BY <1>3, <1>5, <1>6 DEF OnceInv

LEMMA OnceStep ==
  ASSUME WalkInv, OnceInv, [WalkNext]_walkVars
  PROVE  OnceInv'
  <1>1. CASE EffectStep \/ StatementThrows
    BY <1>1, OnceEffect
  <1>2. CASE Start
    <2>1. effects' = effects /\ clock' = [clock EXCEPT !.resumes = @ + 1]
      BY <1>2 DEF Start
    <2>2. DOMAIN clock' = {"ran", "resumes", "throws"} /\ clock'.throws = clock.throws
      BY <2>1 DEF OnceInv
    <2>. QED  BY <2>1, <2>2, WalkStep, OnceMoves
  <1>3. CASE WaitStep \/ AskStep \/ ConditionStep \/ ForEachStep
    <2>1. effects' = effects
      BY <1>3 DEF WaitStep, AskStep, ConditionStep, ForEachStep
    <2>2. clock' = clock \/ \E t : clock' = [clock EXCEPT !.ran = @ + t]
      <3>1. CASE WaitStep
        BY <3>1 DEF WaitStep, EndsHere
      <3>2. CASE AskStep
        BY <3>2 DEF AskStep, EndsHere
      <3>3. CASE ConditionStep
        BY <3>3 DEF ConditionStep, EndsHere
      <3>4. CASE ForEachStep
        BY <3>4 DEF ForEachStep, EndsHere
      <3>. QED  BY <1>3, <3>1, <3>2, <3>3, <3>4
    <2>3. DOMAIN clock' = {"ran", "resumes", "throws"} /\ clock'.throws = clock.throws
      BY <2>2 DEF OnceInv
    <2>. QED  BY <2>1, <2>3, WalkStep, OnceMoves
  <1>4. CASE \/ ListEnds \/ RunTimesOut \/ GuardFails \/ SkipStep \/ PassDone
             \/ ReturnResult \/ IterationEnds \/ WalkEnds \/ TimePasses \/ Decide
             \/ UNCHANGED walkVars
    <2>1. UNCHANGED <<effects, clock>>
      BY <1>4 DEF ListEnds, RunTimesOut, GuardFails, SkipStep, PassDone, ReturnResult,
                  IterationEnds, WalkEnds, TimePasses, Decide, walkVars
    <2>2. DOMAIN clock' = {"ran", "resumes", "throws"} /\ clock'.throws = clock.throws
      BY <2>1 DEF OnceInv
    <2>. QED  BY <2>1, <2>2, WalkStep, OnceMoves
  <1>. QED  BY <1>1, <1>2, <1>3, <1>4 DEF WalkNext

(* A step that completed is never executed again (_done, run-executor.ts),     *)
(* however often the run parks, is resumed early, or executes again what       *)
(* failed around it; only a statement that throws behind an effect repeats it. *)
THEOREM NothingIsDoneTwice == WalkSpec => []SucceededOnce
  <1>1. WalkInit => OnceInv
    BY DEF WalkInit, OnceInv, EmptyMap
  <1>2. OnceInv => SucceededOnce
    <2>1. ASSUME OnceInv, NEW p \in DOMAIN effects PROVE effects[p].ok <= 1 + clock.throws
      <3>1. PICK n \in Nat : n = clock.throws
        BY <2>1 DEF OnceInv
      <3>2. Paid(effects[p], n, p, Done)
        BY <2>1, <3>1 DEF OnceInv
      <3>. QED  BY <3>1, <3>2 DEF Paid
    <2>. QED  BY <2>1 DEF SucceededOnce
  <1>. QED  BY <1>1, <1>2, OnceStep, WalkHolds, PTL DEF WalkSpec

----------------------------------------------------------------------------
(* How a step changes the calls *)

LEMMA OnTopIs ==
  ASSUME NEW T, NEW stack \in Seq(T), stack # <<>>, NEW g
  PROVE  /\ Len(OnTop(stack, g)) = Len(stack) /\ OnTop(stack, g)[Len(stack)] = g
         /\ OnTop(stack, g) # <<>> /\ Last(OnTop(stack, g)) = g
         /\ \A k \in 1 .. Len(stack) - 1 : OnTop(stack, g)[k] = stack[k]
  <1>1. PICK T2 : T2 = T \cup {g}
    OBVIOUS
  <1>2. stack \in Seq(T2) /\ g \in T2
    BY <1>1, SeqMonotonic
  <1>3. PICK n \in Nat \ {0} : n = Len(stack)
    BY <1>2, Popped
  <1>4. PICK front : front = Front(stack)
    OBVIOUS
  <1>5. front \in Seq(T2) /\ Len(front) = n - 1 /\ \A k \in 1 .. n - 1 : front[k] = stack[k]
    BY <1>2, <1>3, <1>4, Popped
  <1>6. PICK new : new = Append(front, g)
    OBVIOUS
  <1>7. /\ new \in Seq(T2) /\ new # <<>> /\ Len(new) = Len(front) + 1 /\ Last(new) = g
        /\ \A k \in 1 .. Len(front) : new[k] = front[k]
    BY <1>2, <1>5, <1>6, Pushed
  <1>8. Len(new) = n /\ new[n] = g /\ \A k \in 1 .. n - 1 : new[k] = stack[k]
    <2>1. Len(new) = n
      BY <1>5, <1>7
    <2>2. new[n] = g
      BY <1>7, <2>1 DEF Last
    <2>3. \A k \in 1 .. n - 1 : new[k] = stack[k]
      BY <1>5, <1>7
    <2>. QED  BY <2>1, <2>2, <2>3
  <1>. QED  BY <1>3, <1>4, <1>6, <1>7, <1>8 DEF OnTop

LEMMA AppendIs ==
  ASSUME NEW T, NEW stack \in Seq(T), NEW g
  PROVE  /\ Len(Append(stack, g)) = Len(stack) + 1 /\ Append(stack, g)[Len(stack) + 1] = g
         /\ Append(stack, g) # <<>>
         /\ \A k \in 1 .. Len(stack) : Append(stack, g)[k] = stack[k]
  <1>1. PICK T2 : T2 = T \cup {g}
    OBVIOUS
  <1>2. stack \in Seq(T2) /\ g \in T2
    BY <1>1, SeqMonotonic
  <1>3. PICK new : new = Append(stack, g)
    OBVIOUS
  <1>4. /\ new # <<>> /\ Len(new) = Len(stack) + 1 /\ Last(new) = g
        /\ \A k \in 1 .. Len(stack) : new[k] = stack[k]
    BY <1>2, <1>3, Pushed
  <1>. QED  BY <1>3, <1>4 DEF Last

(* The end of a step: the state after it. *)
SettlesAs(result) == IF result = "completed" THEN "succeeded" ELSE result

Writes(st, st2, p, result, t) ==
  /\ st2.elapsed = st.elapsed + t
  /\ st2.done = IF result \in {"completed", "skipped"} THEN st.done \cup {p} ELSE st.done
  /\ st2.status = IF result \in {"completed", "skipped", "failed"}
                  THEN Extend(st.status, Last(p)[1], SettlesAs(result)) ELSE st.status

LEMMA FinishedState ==
  ASSUME NEW stack, NEW state, DOMAIN state = StateFields, NEW p, NEW result, NEW since, NEW ran,
         NEW w, w = Finished(stack, state, p, result, since, ran)
  PROVE  /\ DOMAIN w.state = StateFields /\ w.state.iteration = state.iteration
         /\ w.state.approval = state.approval /\ Writes(state, w.state, p, result, ran - since)
  <1>. DEFINE st == [state EXCEPT !.elapsed = @ + (ran - since)]
              id == Last(p)[1]
  <1>1. /\ DOMAIN st = StateFields /\ st.iteration = state.iteration /\ st.done = state.done
        /\ st.status = state.status /\ st.elapsed = state.elapsed + (ran - since)
        /\ st.approval = state.approval
    BY DEF StateFields
  <1>2. CASE result \in {"completed", "skipped"}
    <2>1. PICK s : s = IF result = "skipped" THEN "skipped" ELSE "succeeded"
      OBVIOUS
    <2>2. w.state = [st EXCEPT !.done = @ \cup {p}, !.status = Extend(@, id, s)]
      BY <1>2, <2>1 DEF Finished, Walking
    <2>3. s = SettlesAs(result)
      BY <1>2, <2>1 DEF SettlesAs
    <2>. HIDE DEF st, id
    <2>4. /\ DOMAIN w.state = StateFields /\ w.state.iteration = st.iteration
          /\ w.state.elapsed = st.elapsed /\ w.state.approval = st.approval
          /\ w.state.done = st.done \cup {p} /\ w.state.status = Extend(st.status, id, s)
      BY <1>1, <2>2 DEF StateFields
    <2>. QED  BY <1>1, <1>2, <2>3, <2>4 DEF id, Writes
  <1>3. CASE result = "failed"
    <2>1. PICK marked : marked = [st EXCEPT !.status = Extend(@, id, "failed")]
      OBVIOUS
    <2>2. /\ DOMAIN marked = StateFields /\ marked.iteration = st.iteration
          /\ marked.elapsed = st.elapsed /\ marked.approval = st.approval
          /\ marked.done = st.done /\ marked.status = Extend(st.status, id, "failed")
      <3>. HIDE DEF st, id
      <3>. QED  BY <1>1, <2>1 DEF StateFields
    <2>3. \/ w.state = marked
          \/ w.state = [marked EXCEPT !.failed = @ \/ Len(stack) = 1]
      BY <1>3, <2>1 DEF Finished, Walking
    <2>4. /\ DOMAIN w.state = StateFields /\ w.state.iteration = marked.iteration
          /\ w.state.elapsed = marked.elapsed /\ w.state.approval = marked.approval
          /\ w.state.done = marked.done /\ w.state.status = marked.status
      BY <2>2, <2>3 DEF StateFields
    <2>. QED  BY <1>1, <1>3, <2>2, <2>4 DEF SettlesAs, Writes
  <1>4. CASE result \notin {"completed", "skipped", "failed"}
    <2>1. w.state = st
      BY <1>4 DEF Finished, Walking
    <2>. QED  BY <1>1, <1>4, <2>1 DEF Writes
  <1>. QED  BY <1>2, <1>3, <1>4

(* The end of a step: the calls after it. *)
LEMMA FinishedStack ==
  ASSUME NEW stack, NEW S, StackOK(stack, S), stack # <<>>,
         NEW state, NEW p, NEW result, NEW since, NEW ran,
         NEW w, w = Finished(stack, state, p, result, since, ran)
  PROVE  /\ Settles(p, result) =>
              /\ w.ret = "none"
              /\ \E g : /\ w.stack = OnTop(stack, g) /\ g.at = Last(stack).at + 1
                        /\ g.list = Last(stack).list /\ g.prefix = Last(stack).prefix
                        /\ g.since = Last(stack).since
         /\ ~Settles(p, result) => w.stack = stack /\ w.ret = result
  <1>1. PICK top : top = Last(stack) /\ DOMAIN top = FrameFields
    BY StackTop DEF FrameOK
  <1>2. PICK onward : onward = [top EXCEPT !.at = @ + 1]
    OBVIOUS
  <1>3. /\ DOMAIN onward = FrameFields /\ onward.list = top.list /\ onward.prefix = top.prefix
        /\ onward.at = top.at + 1 /\ onward.since = top.since
    BY <1>1, <1>2 DEF FrameFields
  <1>4. PICK g : g = [onward EXCEPT !.anyFailure = TRUE]
    OBVIOUS
  <1>5. /\ g.list = top.list /\ g.prefix = top.prefix /\ g.at = top.at + 1 /\ g.since = top.since
    BY <1>3, <1>4 DEF FrameFields
  <1>6. CASE result \in {"completed", "skipped"}
    <2>1. w.stack = OnTop(stack, onward) /\ w.ret = "none"
      BY <1>1, <1>2, <1>6 DEF Finished, Walking
    <2>. QED  BY <1>1, <1>3, <1>6, <2>1 DEF Settles
  <1>7. CASE result = "failed"
    <2>1. CASE Step(Last(p)[1]).onError = "continue"
      <3>1. w.stack = OnTop(stack, g) /\ w.ret = "none"
        BY <1>1, <1>2, <1>4, <1>7, <2>1 DEF Finished, Walking
      <3>. QED  BY <1>1, <1>5, <1>7, <2>1, <3>1 DEF Settles, StepOf
    <2>2. CASE Step(Last(p)[1]).onError # "continue"
      <3>1. w.stack = stack /\ w.ret = "failed"
        BY <1>7, <2>2 DEF Finished, Walking
      <3>. QED  BY <1>7, <2>2, <3>1 DEF Settles, StepOf
    <2>. QED  BY <2>1, <2>2
  <1>8. CASE result \notin {"completed", "skipped", "failed"}
    <2>1. w.stack = stack /\ w.ret = result
      BY <1>8 DEF Finished, Walking
    <2>. QED  BY <1>8, <2>1 DEF Settles
  <1>. QED  BY <1>6, <1>7, <1>8

----------------------------------------------------------------------------
(* The rows of the steps *)

RowFields == {"status", "attempt"}
RowsTyped == \A p \in DOMAIN stepRows : DOMAIN stepRows[p] = RowFields /\ stepRows[p].attempt \in Nat \ {0}

(* The row a path gets when its step starts, or is passed over. *)
NextRow(p, row, status) ==
  /\ DOMAIN row = RowFields /\ row.attempt \in Nat \ {0} /\ row.status = status
  /\ p \in DOMAIN stepRows =>
       \/ row.attempt = stepRows[p].attempt + 1
       \/ stepRows[p].status \in OpenRow /\ row.attempt = stepRows[p].attempt

LEMMA RowStartedIs ==
  ASSUME RowsTyped, NEW p
  PROVE  /\ \E row : RowStarted(p) = Extend(stepRows, p, row) /\ NextRow(p, row, "running")
         /\ RowStarted(p)[p].status = "running"
  <1>1. PICK row : row = IF p \notin DOMAIN stepRows THEN [status |-> "running", attempt |-> 1]
              ELSE [status |-> "running",
                    attempt |-> stepRows[p].attempt + (IF stepRows[p].status \in OpenRow THEN 0 ELSE 1)]
    OBVIOUS
  <1>2. RowStarted(p) = Extend(stepRows, p, row)
    BY <1>1 DEF RowStarted
  <1>3. NextRow(p, row, "running")
    <2>1. CASE p \notin DOMAIN stepRows
      BY <1>1, <2>1 DEF NextRow, RowFields
    <2>2. CASE p \in DOMAIN stepRows
      <3>1. PICK n \in Nat \ {0} : n = stepRows[p].attempt
        BY <2>2 DEF RowsTyped
      <3>2. PICK m \in Nat : /\ m = n + (IF stepRows[p].status \in OpenRow THEN 0 ELSE 1)
                             /\ m = n + 1 \/ (stepRows[p].status \in OpenRow /\ m = n)
        BY <3>1
      <3>3. row = [status |-> "running", attempt |-> m]
        BY <1>1, <2>2, <3>1, <3>2
      <3>4. DOMAIN row = RowFields /\ row.attempt = m /\ row.status = "running" /\ m # 0
        BY <3>1, <3>2, <3>3 DEF RowFields
      <3>. QED  BY <3>1, <3>2, <3>4 DEF NextRow
    <2>. QED  BY <2>1, <2>2
  <1>4. RowStarted(p)[p] = row
    BY <1>2 DEF Extend
  <1>. QED  BY <1>2, <1>3, <1>4 DEF NextRow

LEMMA RowEndedIs ==
  ASSUME RowsTyped, NEW p, NEW result
  PROVE  \E row : RowEnded(p, result) = Extend(stepRows, p, row) /\ NextRow(p, row, RowStatus(result))
  <1>1. PICK old : RowStarted(p) = Extend(stepRows, p, old) /\ NextRow(p, old, "running")
    BY RowStartedIs
  <1>2. RowStarted(p)[p] = old
    BY <1>1 DEF Extend
  <1>3. PICK row : row = [old EXCEPT !.status = RowStatus(result)]
    OBVIOUS
  <1>4. DOMAIN row = RowFields /\ row.attempt = old.attempt /\ row.status = RowStatus(result)
    BY <1>1, <1>3 DEF NextRow, RowFields
  <1>5. NextRow(p, row, RowStatus(result))
    BY <1>1, <1>4 DEF NextRow
  <1>. QED  BY <1>2, <1>3, <1>5 DEF RowEnded

LEMMA RowSetIs ==
  ASSUME RowsTyped, NEW p, NEW status
  PROVE  \E row : /\ RowSet(p, status) = Extend(stepRows, p, row)
                  /\ DOMAIN row = RowFields /\ row.attempt \in Nat \ {0} /\ row.status = status
                  /\ p \in DOMAIN stepRows => row.attempt = stepRows[p].attempt
  <1>1. PICK old : old = At(stepRows, p, [status |-> status, attempt |-> 1])
    OBVIOUS
  <1>2. /\ DOMAIN old = RowFields /\ old.attempt \in Nat \ {0}
        /\ p \in DOMAIN stepRows => old.attempt = stepRows[p].attempt
    BY <1>1 DEF At, RowsTyped, RowFields
  <1>3. PICK row : row = [old EXCEPT !.status = status]
    OBVIOUS
  <1>4. DOMAIN row = RowFields /\ row.attempt = old.attempt /\ row.status = status
    BY <1>2, <1>3 DEF RowFields
  <1>5. RowSet(p, status) = Extend(stepRows, p, row)
    BY <1>1, <1>3 DEF RowSet
  <1>. QED  BY <1>2, <1>4, <1>5

----------------------------------------------------------------------------
(* The shapes of a step *)

ClockTyped == DOMAIN clock = {"ran", "resumes", "throws"} /\ clock.ran \in Nat /\ clock.throws \in Nat

(* Nothing but the memory of the walk changes. *)
OnlyWalk == UNCHANGED <<manifest, run, stepRows, tasks, past, effects, settled, decided, clock>>

(* The walk passes a step that is done. *)
Passes ==
  /\ AtStepOf /\ Here \in walk.state.done
  /\ walk' = [walk EXCEPT !.stack = OnTop(@, [Top EXCEPT !.at = @ + 1])]
  /\ OnlyWalk

(* A step ends where the walk stands. *)
Stops(result, state, t, row) ==
  /\ AtStepOf /\ StepOf(Here).if # "bad" /\ Here \notin walk.state.done
  /\ DOMAIN state = StateFields
  /\ state.done = walk.state.done /\ state.status = walk.state.status
  /\ state.iteration = walk.state.iteration /\ state.elapsed = walk.state.elapsed
  /\ walk' = Finished(walk.stack, state, Here, result, 0, t)
  /\ stepRows' = Extend(stepRows, Here, row) /\ NextRow(Here, row, RowStatus(result))
  /\ settled' = SettledBy(Here, result)
  /\ t \in 0 .. 1 /\ clock'.ran = clock.ran + t /\ clock'.throws = clock.throws
  /\ DOMAIN clock' = {"ran", "resumes", "throws"}
  /\ UNCHANGED <<manifest, run>>

(* The steps it may be, and what they may come to. *)
Outcome(result) ==
  \/ /\ result = "skipped" /\ SkipStep /\ UNCHANGED <<tasks, effects, decided>>
  \/ /\ EffectStep /\ result \in {"completed", "failed"} /\ UNCHANGED <<tasks, decided>>
  \/ /\ WaitStep /\ result \in {"waiting", "completed"} /\ UNCHANGED <<tasks, effects, decided>>
  \/ /\ AskStep /\ result \in {"paused", "completed", "failed", "skipped"} /\ UNCHANGED <<effects, decided>>
  \/ /\ ConditionStep /\ StepOf(Here).on = "bad" /\ result = "failed"
     /\ UNCHANGED <<tasks, effects, decided>>
  \/ /\ ConditionStep /\ StepOf(Here).on # "bad" /\ result = "completed"
     /\ BranchList(StepOf(Here), BranchOf(StepOf(Here), walk.state)) = <<>>
     /\ decided' = decided \cup {<<Here, BranchOf(StepOf(Here), walk.state)>>}
     /\ UNCHANGED <<tasks, effects>>
  \/ /\ ForEachStep /\ StepOf(Here).on = "bad" /\ result = "failed"
     /\ UNCHANGED <<tasks, effects, decided>>
  \/ /\ ForEachStep /\ StepOf(Here).on # "bad" /\ result = "completed"
     /\ FirstOpen(Here) > StepOf(Here).items /\ UNCHANGED <<tasks, effects, decided>>

(* A branch or a round is entered. *)
Enters(n, list, state) ==
  /\ AtStepOf /\ StepOf(Here).if # "bad" /\ Here \notin walk.state.done
  /\ StepOf(Here).on # "bad" /\ n \in Nat \ {0}
  /\ walk' = Walking(Append(walk.stack, Frame(list, Under(Top, n), clock.ran, NoLoop)), state, "none")
  /\ stepRows' = RowStarted(Here)
  /\ UNCHANGED <<manifest, run, tasks, past, effects, settled, clock>>
  /\ \/ /\ StepOf(Here).kind = "condition" /\ n = BranchOf(StepOf(Here), walk.state)
        /\ list = BranchList(StepOf(Here), n) /\ state = walk.state
        /\ decided' = decided \cup {<<Here, n>>}
     \/ /\ StepOf(Here).kind = "for_each" /\ n = FirstOpen(Here) /\ n <= StepOf(Here).items
        /\ list = StepOf(Here).then /\ decided' = decided
        /\ state = [walk.state EXCEPT !.iteration = Extend(@, Here, n)]

(* The step that made a call ends. *)
Leaves(result, state) ==
  /\ Returning /\ OwnerEnds(result, state)
  /\ UNCHANGED <<manifest, run, tasks, past, effects, decided, clock>>
  /\ DOMAIN state = StateFields
  /\ state.done = walk.state.done /\ state.status = walk.state.status
  /\ state.elapsed = walk.state.elapsed
  /\ \/ /\ result = walk.ret /\ state = walk.state
        /\ result \in {"failed", "waiting", "paused"} \/ StepOf(OwnerPath(Top)).kind = "condition"
     \/ /\ walk.ret = "completed" /\ result \in {"completed", "failed"}
        /\ StepOf(OwnerPath(Top)).kind = "for_each"
        /\ state.iteration = Without(walk.state.iteration, OwnerPath(Top))

(* A loop goes to its next round. *)
Repeats(n, loop, state) ==
  /\ Returning /\ walk.ret = "completed" /\ StepOf(OwnerPath(Top)).kind = "for_each"
  /\ n = Last(Top.prefix)[2] + 1 /\ Last(Top.prefix)[2] < StepOf(OwnerPath(Top)).items
  /\ walk' = Walking(OnTop(walk.stack, Frame(Top.list, Append(Front(Top.prefix), <<Last(OwnerPath(Top))[1], n>>),
                                             Top.since, loop)), state, "none")
  /\ DOMAIN state = StateFields
  /\ state.done = walk.state.done /\ state.status = walk.state.status
  /\ state.elapsed = walk.state.elapsed
  /\ state.iteration = Extend(Without(walk.state.iteration, OwnerPath(Top)), OwnerPath(Top), n)
  /\ OnlyWalk

LEMMA GuardTrue == ASSUME NEW guard, NEW st, Truthy(guard, st) PROVE guard # "bad"
  BY DEF Truthy

Shape ==
  \/ Start
  \/ ListEnds \/ RunTimesOut \/ GuardFails
  \/ Passes
  \/ \E result, state, t, row : Stops(result, state, t, row) /\ Outcome(result)
  \/ \E n, list, state : Enters(n, list, state)
  \/ \E result, state : Leaves(result, state)
  \/ \E n, loop, state : Repeats(n, loop, state)
  \/ WalkEnds \/ StatementThrows \/ TimePasses \/ Decide \/ UNCHANGED walkVars

(* The state with another delay or another task. *)
Like(state) ==
  /\ DOMAIN state = StateFields
  /\ state.done = walk.state.done /\ state.status = walk.state.status
  /\ state.iteration = walk.state.iteration /\ state.elapsed = walk.state.elapsed

LEMMA LikeState ==
  ASSUME DOMAIN walk.state = StateFields, NEW x
  PROVE  Like(walk.state) /\ Like([walk.state EXCEPT !.delay = x]) /\ Like([walk.state EXCEPT !.approval = x])
  <1>1. PICK s : s = walk.state
    OBVIOUS
  <1>2. PICK s1 : s1 = [s EXCEPT !.delay = x]
    OBVIOUS
  <1>3. PICK s2 : s2 = [s EXCEPT !.approval = x]
    OBVIOUS
  <1>4. Like(s1)
    BY <1>1, <1>2 DEF Like, StateFields
  <1>5. Like(s2)
    BY <1>1, <1>3 DEF Like, StateFields
  <1>6. Like(s)
    BY <1>1 DEF Like
  <1>. QED  BY <1>1, <1>2, <1>3, <1>4, <1>5, <1>6

LEMMA EndsHereStops ==
  ASSUME WalkInv, RowsTyped, ClockTyped, NEW kind, ToExecute(kind), NEW result, NEW state, Like(state),
         NEW t \in 0 .. 1, EndsHere(result, state, t), UNCHANGED <<manifest, run>>
  PROVE  \E row : Stops(result, state, t, row)
  <1>1. /\ AtStepOf /\ Truthy(StepOf(Here).if, walk.state) /\ Here \notin walk.state.done
    BY DEF ToExecute
  <1>2. StepOf(Here).if # "bad"
    BY <1>1, GuardTrue
  <1>3. PICK row : /\ RowEnded(Here, result) = Extend(stepRows, Here, row)
                   /\ NextRow(Here, row, RowStatus(result))
    BY RowEndedIs
  <1>4. clock' = [clock EXCEPT !.ran = @ + t]
    BY DEF EndsHere
  <1>5. /\ clock'.ran = clock.ran + t /\ clock'.throws = clock.throws
        /\ DOMAIN clock' = {"ran", "resumes", "throws"}
    BY <1>4 DEF ClockTyped
  <1>. QED  BY <1>1, <1>2, <1>3, <1>5 DEF EndsHere, Stops, Like

LEMMA SkipShape ==
  ASSUME WalkInv, RowsTyped, ClockTyped, SkipStep \/ PassDone
  PROVE  Shape
  <1>1. AtStepOf /\ DOMAIN walk.state = StateFields
    <2>1. AtStepOf
      BY DEF SkipStep, PassDone
    <2>. QED  BY <2>1, Standing DEF StateOK
  <1>2. CASE Here \in walk.state.done
    <2>1. Passes
      BY <1>1, <1>2 DEF SkipStep, PassDone, Passes, OnlyWalk
    <2>. QED  BY <2>1 DEF Shape
  <1>3. CASE Here \notin walk.state.done
    <2>1. SkipStep /\ StepOf(Here).if # "bad"
      BY <1>3 DEF SkipStep, PassDone
    <2>2. PICK row : row = [status |-> "skipped", attempt |-> At(stepRows, Here, [attempt |-> 0]).attempt + 1]
      OBVIOUS
    <2>3. NextRow(Here, row, "skipped")
      <3>1. CASE Here \in DOMAIN stepRows
        <4>1. PICK n \in Nat \ {0} : n = stepRows[Here].attempt
          BY <3>1 DEF RowsTyped
        <4>2. row = [status |-> "skipped", attempt |-> n + 1]
          BY <2>2, <3>1, <4>1 DEF At
        <4>. QED  BY <4>1, <4>2 DEF NextRow, RowFields
      <3>2. CASE Here \notin DOMAIN stepRows
        <4>1. row = [status |-> "skipped", attempt |-> 1]
          BY <2>2, <3>2 DEF At
        <4>. QED  BY <3>2, <4>1 DEF NextRow, RowFields
      <3>. QED  BY <3>1, <3>2
    <2>4. /\ walk' = Finished(walk.stack, walk.state, Here, "skipped", 0, 0)
          /\ stepRows' = Extend(stepRows, Here, row) /\ settled' = settled \cup {Here}
          /\ UNCHANGED <<manifest, run, tasks, past, effects, decided, clock>>
      BY <1>3, <2>1, <2>2 DEF SkipStep
    <2>5. PICK zero, state : zero = 0 /\ state = walk.state
      OBVIOUS
    <2>6. PICK result \in {"skipped"} : TRUE
      OBVIOUS
    <2>7. /\ zero \in 0 .. 1 /\ clock'.ran = clock.ran + zero /\ clock'.throws = clock.throws
          /\ DOMAIN clock' = {"ran", "resumes", "throws"}
      BY <2>4, <2>5 DEF ClockTyped
    <2>8. RowStatus(result) = result /\ SettledBy(Here, result) = settled \cup {Here}
      BY <2>6 DEF RowStatus, SettledBy
    <2>9. Stops(result, state, zero, row)
      BY <1>1, <1>3, <2>1, <2>3, <2>4, <2>5, <2>6, <2>7, <2>8 DEF Stops
    <2>10. Outcome(result)
      BY <2>1, <2>4, <2>6 DEF Outcome
    <2>. QED  BY <2>9, <2>10 DEF Shape
  <1>. QED  BY <1>2, <1>3

LEMMA EffectShape ==
  ASSUME WalkInv, RowsTyped, ClockTyped, EffectStep
  PROVE  Shape
  <1>1. PICK ok \in BOOLEAN, t \in 0 .. 1 : EndsHere(IF ok THEN "completed" ELSE "failed", walk.state, t)
    BY DEF EffectStep
  <1>2. ToExecute("effect") /\ AtStepOf /\ UNCHANGED <<manifest, run, tasks, decided>>
    BY DEF EffectStep, ToExecute
  <1>3. Like(walk.state)
    BY <1>2, Standing, LikeState DEF StateOK
  <1>4. PICK result \in {"completed", "failed"} : EndsHere(result, walk.state, t)
    BY <1>1
  <1>5. PICK state : state = walk.state
    OBVIOUS
  <1>6. PICK row : Stops(result, state, t, row)
    BY <1>2, <1>3, <1>4, <1>5, EndsHereStops
  <1>7. Outcome(result)
    BY <1>2, <1>4 DEF Outcome
  <1>. QED  BY <1>6, <1>7 DEF Shape

LEMMA ParkShape ==
  ASSUME WalkInv, RowsTyped, ClockTyped, WaitStep \/ AskStep
  PROVE  Shape
  <1>1. AtStepOf /\ UNCHANGED <<manifest, run, effects, decided>> /\ \E kind : ToExecute(kind)
    BY DEF WaitStep, AskStep, ToExecute
  <1>2. DOMAIN walk.state = StateFields
    BY <1>1, Standing DEF StateOK
  <1>3. PICK t : t = 0
    OBVIOUS
  <1>4. CASE WaitStep
    <2>1. PICK result, state : /\ result \in {"waiting", "completed"}
                               /\ EndsHere(result, state, t) /\ Like(state)
      <3>1. PICK waits, goes : /\ waits = [walk.state EXCEPT !.delay = Here]
                               /\ goes = [walk.state EXCEPT !.delay = <<>>]
        OBVIOUS
      <3>2. Like(walk.state) /\ Like(waits) /\ Like(goes)
        BY <1>2, <3>1, LikeState
      <3>3. \/ EndsHere("waiting", waits, t) \/ EndsHere("waiting", walk.state, t)
            \/ EndsHere("completed", goes, t)
        BY <1>3, <1>4, <3>1 DEF WaitStep
      <3>. QED  BY <3>2, <3>3
    <2>2. PICK row : Stops(result, state, t, row)
      BY <1>1, <1>3, <2>1, EndsHereStops
    <2>3. Outcome(result)
      BY <1>1, <1>4, <2>1 DEF Outcome, WaitStep
    <2>. QED  BY <2>2, <2>3 DEF Shape
  <1>5. CASE AskStep
    <2>1. PICK result, state : /\ result \in {"paused", "completed", "failed", "skipped"}
                               /\ EndsHere(result, state, t) /\ Like(state)
      <3>1. PICK asks, told : /\ asks = [walk.state EXCEPT !.approval = Here]
                              /\ told = [walk.state EXCEPT !.approval = <<>>]
        OBVIOUS
      <3>2. Like(walk.state) /\ Like(asks) /\ Like(told)
        BY <1>2, <3>1, LikeState
      <3>3. \/ EndsHere("paused", asks, t) \/ EndsHere("paused", walk.state, t)
            \/ EndsHere("completed", told, t) \/ EndsHere("failed", told, t)
            \/ EndsHere("skipped", told, t) \/ EndsHere("failed", walk.state, t)
        BY <1>3, <1>5, <3>1 DEF AskStep
      <3>. QED  BY <3>2, <3>3
    <2>2. PICK row : Stops(result, state, t, row)
      BY <1>1, <1>3, <2>1, EndsHereStops
    <2>3. Outcome(result)
      BY <1>1, <1>5, <2>1 DEF Outcome, AskStep
    <2>. QED  BY <2>2, <2>3 DEF Shape
  <1>. QED  BY <1>4, <1>5

LEMMA BranchShape ==
  ASSUME WalkInv, RowsTyped, ClockTyped, ConditionStep
  PROVE  Shape
  <1>1. /\ AtStepOf /\ ToExecute("condition") /\ StepOf(Here).kind = "condition"
        /\ UNCHANGED <<manifest, run, tasks, past, effects>>
        /\ Truthy(StepOf(Here).if, walk.state) /\ Here \notin walk.state.done
    BY DEF ConditionStep, ToExecute
  <1>2. Like(walk.state)
    BY <1>1, Standing, LikeState DEF StateOK
  <1>3. PICK step, n, state, t : /\ step = StepOf(Here) /\ n = BranchOf(step, walk.state)
                                 /\ state = walk.state /\ t = 0
    OBVIOUS
  <1>4. n \in Nat \ {0}
    BY <1>3 DEF BranchOf
  <1>5. CASE step.on = "bad"
    <2>1. PICK result \in {"failed"} : EndsHere(result, state, t) /\ decided' = decided
      BY <1>3, <1>5 DEF ConditionStep
    <2>2. PICK row : Stops(result, state, t, row)
      BY <1>1, <1>2, <1>3, <2>1, EndsHereStops
    <2>3. Outcome(result)
      BY <1>1, <1>3, <1>5, <2>1 DEF Outcome
    <2>. QED  BY <2>2, <2>3 DEF Shape
  <1>6. CASE step.on # "bad" /\ BranchList(step, n) = <<>>
    <2>1. PICK result \in {"completed"} : EndsHere(result, state, t) /\ decided' = decided \cup {<<Here, n>>}
      BY <1>3, <1>6 DEF ConditionStep
    <2>2. PICK row : Stops(result, state, t, row)
      BY <1>1, <1>2, <1>3, <2>1, EndsHereStops
    <2>3. Outcome(result)
      BY <1>1, <1>3, <1>6, <2>1 DEF Outcome
    <2>. QED  BY <2>2, <2>3 DEF Shape
  <1>7. CASE step.on # "bad" /\ BranchList(step, n) # <<>>
    <2>1. PICK list : list = BranchList(step, n)
      OBVIOUS
    <2>2. /\ Call(list, Append(Top.prefix, <<Top.list[Top.at], n>>), clock.ran, NoLoop, state)
          /\ stepRows' = RowStarted(Here) /\ UNCHANGED <<settled, clock>>
          /\ decided' = decided \cup {<<Here, n>>}
      BY <1>3, <1>7, <2>1 DEF ConditionStep
    <2>3. StepOf(Here).if # "bad"
      BY <1>1, GuardTrue
    <2>4. walk' = Walking(Append(walk.stack, Frame(list, Under(Top, n), clock.ran, NoLoop)), state, "none")
      BY <2>2 DEF Call, Under
    <2>5. Enters(n, list, state)
      BY <1>1, <1>3, <1>4, <1>7, <2>1, <2>2, <2>3, <2>4 DEF Enters
    <2>. QED  BY <2>5 DEF Shape
  <1>. QED  BY <1>5, <1>6, <1>7

LEMMA LoopShape ==
  ASSUME WalkInv, RowsTyped, ClockTyped, ForEachStep
  PROVE  Shape
  <1>1. /\ AtStepOf /\ ToExecute("for_each") /\ StepOf(Here).kind = "for_each"
        /\ UNCHANGED <<manifest, run, tasks, past, effects, decided>>
        /\ Truthy(StepOf(Here).if, walk.state) /\ Here \notin walk.state.done
    BY DEF ForEachStep, ToExecute
  <1>2. Like(walk.state)
    BY <1>1, Standing, LikeState DEF StateOK
  <1>3. PICK step, n, state, t : /\ step = StepOf(Here) /\ n = FirstOpen(Here)
                                 /\ state = walk.state /\ t = 0
    OBVIOUS
  <1>4. n \in Nat \ {0}
    <2>1. StateOK(walk.state, settled)
      BY <1>1, Standing
    <2>2. CASE Here \in DOMAIN walk.state.iteration
      BY <1>3, <2>1, <2>2 DEF FirstOpen, At, StateOK
    <2>3. CASE Here \notin DOMAIN walk.state.iteration
      BY <1>3, <2>3 DEF FirstOpen, At
    <2>. QED  BY <2>2, <2>3
  <1>i. step.items \in Nat
    <2>1. Last(Here)[1] \in DOMAIN manifest.step
      <3>1. PICK f, S : f = Top /\ S = settled
        OBVIOUS
      <3>2. FrameOK(f, S) /\ InList(f) /\ manifest \in Manifests /\ Here = Under(f, 0)
        BY <1>1, <3>1, Standing DEF WalkInv
      <3>3. f.list[f.at] \in DOMAIN manifest.step /\ Last(Under(f, 0)) = <<f.list[f.at], 0>>
        BY <3>2, BeforeHere
      <3>. QED  BY <3>2, <3>3
    <2>. QED  BY <1>3, <2>1, WalkAssumption DEF StepOf, Step, WalkInv
  <1>5. CASE step.on = "bad"
    <2>1. PICK result \in {"failed"} : EndsHere(result, state, t)
      BY <1>3, <1>5 DEF ForEachStep
    <2>2. PICK row : Stops(result, state, t, row)
      BY <1>1, <1>2, <1>3, <2>1, EndsHereStops
    <2>3. Outcome(result)
      BY <1>1, <1>3, <1>5, <2>1 DEF Outcome
    <2>. QED  BY <2>2, <2>3 DEF Shape
  <1>6. CASE step.on # "bad" /\ n > step.items
    <2>1. PICK result \in {"completed"} : EndsHere(result, state, t)
      BY <1>3, <1>4, <1>i, <1>6 DEF ForEachStep
    <2>2. PICK row : Stops(result, state, t, row)
      BY <1>1, <1>2, <1>3, <2>1, EndsHereStops
    <2>3. Outcome(result)
      BY <1>1, <1>3, <1>6, <2>1 DEF Outcome
    <2>. QED  BY <2>2, <2>3 DEF Shape
  <1>7. CASE step.on # "bad" /\ ~(n > step.items)
    <2>1. PICK list, new : list = step.then /\ new = [walk.state EXCEPT !.iteration = Extend(@, Here, n)]
      OBVIOUS
    <2>2. /\ Call(list, Append(Top.prefix, <<Top.list[Top.at], n>>), clock.ran, NoLoop, new)
          /\ stepRows' = RowStarted(Here) /\ UNCHANGED <<settled, clock>> /\ n <= step.items
      BY <1>3, <1>4, <1>i, <1>7, <2>1 DEF ForEachStep
    <2>3. StepOf(Here).if # "bad"
      BY <1>1, GuardTrue
    <2>4. walk' = Walking(Append(walk.stack, Frame(list, Under(Top, n), clock.ran, NoLoop)), new, "none")
      BY <2>2 DEF Call, Under
    <2>5. Enters(n, list, new)
      BY <1>1, <1>3, <1>4, <1>7, <2>1, <2>2, <2>3, <2>4 DEF Enters
    <2>. QED  BY <2>5 DEF Shape
  <1>. QED  BY <1>5, <1>6, <1>7

LEMMA ReturnShape ==
  ASSUME WalkInv, ReturnResult \/ IterationEnds
  PROVE  Shape
  <1>1. Returning
    BY DEF ReturnResult, IterationEnds
  <1>2. DOMAIN walk.state = StateFields
    BY <1>1, ReturningTo DEF StateOK
  <1>3. CASE ReturnResult
    <2>1. PICK result, state : result = walk.ret /\ state = walk.state
      OBVIOUS
    <2>2. Leaves(result, state)
      BY <1>1, <1>2, <1>3, <2>1 DEF ReturnResult, Leaves
    <2>. QED  BY <2>2 DEF Shape
  <1>4. CASE IterationEnds
    <2>1. PICK p, i, st, loop : /\ p = OwnerPath(Top) /\ i = Last(Top.prefix)[2] /\ loop = Verdict(Top)
                                /\ st = [walk.state EXCEPT !.iteration = Without(@, p)]
      OBVIOUS
    <2>2. /\ DOMAIN st = StateFields /\ st.done = walk.state.done /\ st.status = walk.state.status
          /\ st.iteration = Without(walk.state.iteration, p) /\ st.elapsed = walk.state.elapsed
      BY <1>2, <2>1 DEF StateFields
    <2>3. /\ walk.ret = "completed" /\ StepOf(p).kind = "for_each"
          /\ UNCHANGED <<manifest, run, tasks, past, effects, decided, clock>>
      BY <1>4, <2>1 DEF IterationEnds
    <2>4. CASE i < StepOf(p).items
      <3>1. PICK n, new : n = i + 1 /\ new = [st EXCEPT !.iteration = Extend(@, p, n)]
        OBVIOUS
      <3>2. /\ walk' = Walking(OnTop(walk.stack,
                          Frame(Top.list, Append(Front(Top.prefix), <<Last(p)[1], n>>), Top.since, loop)), new, "none")
            /\ UNCHANGED <<stepRows, settled>>
        BY <1>4, <2>1, <2>4, <3>1 DEF IterationEnds
      <3>3. /\ DOMAIN new = StateFields /\ new.done = st.done /\ new.status = st.status
            /\ new.elapsed = st.elapsed /\ new.iteration = Extend(st.iteration, p, n)
        BY <2>2, <3>1 DEF StateFields
      <3>4. Repeats(n, loop, new)
        BY <1>1, <2>1, <2>2, <2>3, <2>4, <3>1, <3>2, <3>3 DEF Repeats, OnlyWalk
      <3>. QED  BY <3>4 DEF Shape
    <2>5. CASE ~(i < StepOf(p).items)
      <3>1. PICK result \in {"completed", "failed"} : OwnerEnds(result, st)
        BY <1>4, <2>1, <2>5 DEF IterationEnds
      <3>2. Leaves(result, st)
        BY <1>1, <2>1, <2>2, <2>3, <3>1 DEF Leaves
      <3>. QED  BY <3>2 DEF Shape
    <2>. QED  BY <2>4, <2>5
  <1>. QED  BY <1>3, <1>4

LEMMA StepShapes ==
  ASSUME WalkInv, RowsTyped, ClockTyped, [WalkNext]_walkVars
  PROVE  Shape
  <1>1. CASE SkipStep \/ PassDone
    BY <1>1, SkipShape
  <1>2. CASE EffectStep
    BY <1>2, EffectShape
  <1>3. CASE WaitStep \/ AskStep
    BY <1>3, ParkShape
  <1>4. CASE ConditionStep
    BY <1>4, BranchShape
  <1>5. CASE ForEachStep
    BY <1>5, LoopShape
  <1>6. CASE ReturnResult \/ IterationEnds
    BY <1>6, ReturnShape
  <1>7. CASE \/ Start \/ ListEnds \/ RunTimesOut \/ GuardFails \/ WalkEnds \/ StatementThrows
             \/ TimePasses \/ Decide \/ UNCHANGED walkVars
    BY <1>7 DEF Shape
  <1>. QED  BY <1>1, <1>2, <1>3, <1>4, <1>5, <1>6, <1>7 DEF WalkNext

----------------------------------------------------------------------------
(* Where the calls after a step come from *)

SameCall(f, g) == g.list = f.list /\ g.prefix = f.prefix /\ g.since = f.since

(* Every call but the innermost is as it was. *)
Stays(s, t) ==
  /\ Len(t) \in Nat /\ Len(t) <= Len(s)
  /\ \A k \in 1 .. Len(t) : SameCall(s[k], t[k])
  /\ \A k \in 1 .. Len(t) : k # Len(t) => t[k] = s[k]

LEMMA OnTopStays ==
  ASSUME NEW T, NEW s \in Seq(T), s # <<>>, NEW g, SameCall(Last(s), g)
  PROVE  Stays(s, OnTop(s, g)) /\ Len(OnTop(s, g)) = Len(s)
  <1>1. PICK t : t = OnTop(s, g)
    OBVIOUS
  <1>2. PICK n \in Nat \ {0} : n = Len(s) /\ Last(s) = s[n]
    BY Popped
  <1>3. Len(t) = n /\ t[n] = g /\ \A k \in 1 .. n - 1 : t[k] = s[k]
    BY <1>1, <1>2, OnTopIs
  <1>4. ASSUME NEW k \in 1 .. n PROVE SameCall(s[k], t[k]) /\ (k # n => t[k] = s[k])
    <2>1. k = n \/ k \in 1 .. n - 1
      BY <1>2
    <2>. QED  BY <1>2, <1>3, <2>1 DEF SameCall
  <1>. QED  BY <1>1, <1>2, <1>3, <1>4 DEF Stays

LEMMA FinishedStays ==
  ASSUME NEW stack, NEW S, StackOK(stack, S), stack # <<>>,
         NEW state, NEW p, NEW result, NEW since, NEW ran,
         NEW w, w = Finished(stack, state, p, result, since, ran)
  PROVE  Stays(stack, w.stack) /\ Len(w.stack) = Len(stack)
  <1>1. PICK T : stack \in Seq(T)
    BY DEF StackOK
  <1>2. Len(stack) \in Nat
    BY <1>1, LenProperties
  <1>3. CASE Settles(p, result)
    <2>1. PICK g : /\ w.stack = OnTop(stack, g)
                   /\ g.list = Last(stack).list /\ g.prefix = Last(stack).prefix
                   /\ g.since = Last(stack).since
      BY <1>3, FinishedStack
    <2>2. SameCall(Last(stack), g)
      BY <2>1 DEF SameCall
    <2>. QED  BY <1>1, <2>1, <2>2, OnTopStays
  <1>4. CASE ~Settles(p, result)
    <2>1. w.stack = stack
      BY <1>4, FinishedStack
    <2>. QED  BY <1>2, <2>1 DEF Stays, SameCall
  <1>. QED  BY <1>3, <1>4

LEMMA FrontStays ==
  ASSUME NEW T, NEW s \in Seq(T), s # <<>>, NEW t, Stays(Front(s), t), Len(t) = Len(Front(s))
  PROVE  Stays(s, t) /\ Len(t) = Len(s) - 1
  <1>1. PICK front, n : front = Front(s) /\ n = Len(s)
    OBVIOUS
  <1>2. n \in Nat \ {0} /\ Len(front) = n - 1 /\ \A i \in 1 .. n - 1 : front[i] = s[i]
    BY <1>1, Popped
  <1>3. Len(t) = n - 1
    BY <1>1, <1>2
  <1>4. ASSUME NEW k \in 1 .. n - 1 PROVE SameCall(s[k], t[k]) /\ (k # n - 1 => t[k] = s[k])
    BY <1>1, <1>2, <1>3 DEF Stays
  <1>. QED  BY <1>1, <1>2, <1>3, <1>4 DEF Stays

(* The frame a call starts with. *)
Fresh(g, list, prefix, since) == g.list = list /\ g.prefix = prefix /\ g.since = since /\ g.at = 1

LEMMA FreshFrame ==
  ASSUME NEW list, NEW prefix, NEW since, NEW loop
  PROVE  Fresh(Frame(list, prefix, since, loop), list, prefix, since)
  BY DEF Fresh, Frame

NextPrefix(n) == Append(Front(Top.prefix), <<Last(OwnerPath(Top))[1], n>>)

(* The k-th call after a step. *)
FrameFrom(k, s, t) ==
  \/ k \in 1 .. Len(s) /\ SameCall(s[k], t[k])
  \/ s = <<>> /\ Start /\ k = 1 /\ Fresh(t[k], manifest.top, <<>>, clock.ran)
  \/ /\ k = Len(s) + 1
     /\ \E n, list, state : Enters(n, list, state) /\ Fresh(t[k], list, Under(Top, n), clock.ran)
  \/ /\ s # <<>> /\ k = Len(s)
     /\ \E n, loop, state : Repeats(n, loop, state) /\ Fresh(t[k], Top.list, NextPrefix(n), Top.since)

LEMMA WalkStack ==
  ASSUME WalkInv
  PROVE  /\ \E T : walk.stack \in Seq(T)
         /\ Len(walk.stack) \in Nat /\ (walk.stack = <<>> <=> Len(walk.stack) = 0)
         /\ InWalk => /\ StackOK(walk.stack, settled) /\ walk.stack # <<>>
                      /\ Top = walk.stack[Len(walk.stack)] /\ Top = Last(walk.stack)
                      /\ Len(walk.stack) \in Nat \ {0}
  <1>1. CASE walk.stack = <<>>
    BY <1>1, EmptySeq, LenProperties DEF InWalk
  <1>2. CASE walk.stack # <<>>
    <2>1. StackOK(walk.stack, settled)
      BY <1>2 DEF WalkInv, WalkOK
    <2>. QED  BY <1>2, <2>1, StackTop, EmptySeq DEF InWalk, Top, StackOK
  <1>. QED  BY <1>1, <1>2

(* Steps that leave the calls as they are, or the innermost of them a step further, *)
(* or gone.                                                                        *)
LEMMA StaysFrom ==
  ASSUME WalkInv, NEW s, NEW t, s = walk.stack, Stays(s, t), NEW k \in 1 .. Len(t)
  PROVE  /\ FrameFrom(k, s, t)
         /\ k # Len(t) => k \in 1 .. Len(s) /\ t[k] = s[k]
  <1>1. Len(s) \in Nat
    BY WalkStack
  <1>2. PICK n \in Nat : n = Len(t) /\ n <= Len(s)
    BY DEF Stays
  <1>3. k \in 1 .. Len(s) /\ SameCall(s[k], t[k]) /\ (k # Len(t) => t[k] = s[k])
    BY <1>1, <1>2 DEF Stays
  <1>. QED  BY <1>3 DEF FrameFrom

LEMMA SelfStays == ASSUME NEW T, NEW s \in Seq(T) PROVE Stays(s, s)
  BY LenProperties DEF Stays, SameCall

LEMMA StopsStays ==
  ASSUME WalkInv, NEW result, NEW state, NEW t, NEW row, Stops(result, state, t, row)
  PROVE  Stays(walk.stack, walk'.stack) /\ Len(walk'.stack) = Len(walk.stack)
  <1>1. PICK s, w, p : s = walk.stack /\ w = walk' /\ p = Here
    OBVIOUS
  <1>2. w = Finished(s, state, p, result, 0, t) /\ AtStepOf
    BY <1>1 DEF Stops
  <1>3. StackOK(s, settled) /\ s # <<>>
    BY <1>1, <1>2, Standing
  <1>. QED  BY <1>1, <1>2, <1>3, FinishedStays

LEMMA LeavesStays ==
  ASSUME WalkInv, NEW result, NEW state, Leaves(result, state)
  PROVE  Stays(walk.stack, walk'.stack) /\ Len(walk'.stack) = Len(walk.stack) - 1
  <1>1. PICK s, w, p : s = Front(walk.stack) /\ w = walk' /\ p = OwnerPath(Top)
    OBVIOUS
  <1>2. PICK since, ran : since = Top.since /\ ran = clock.ran
    OBVIOUS
  <1>3. w = Finished(s, state, p, result, since, ran) /\ Returning
    BY <1>1, <1>2 DEF Leaves, OwnerEnds
  <1>4. StackOK(s, settled) /\ s # <<>> /\ walk.stack # <<>>
    BY <1>1, <1>3, ReturningTo
  <1>5. Stays(s, w.stack) /\ Len(w.stack) = Len(s)
    BY <1>3, <1>4, FinishedStays
  <1>. QED  BY <1>1, <1>4, <1>5, WalkStack, FrontStays

LEMMA FramesFrom ==
  ASSUME WalkInv, Shape, NEW s, NEW t, s = walk.stack, t = walk'.stack, NEW k \in 1 .. Len(t)
  PROVE  /\ FrameFrom(k, s, t)
         /\ k # Len(t) => k \in 1 .. Len(s) /\ t[k] = s[k]
  <1>0. PICK T : s \in Seq(T)
    BY WalkStack
  <1>1. CASE Start
    <2>1. PICK g : g = Frame(manifest.top, <<>>, clock.ran, NoLoop)
      OBVIOUS
    <2>2. t = <<g>> /\ s = <<>>
      BY <1>1, <2>1 DEF Start, Walking, InWalk
    <2>3. Len(t) = 1 /\ t[1] = g /\ k = 1
      BY <2>2
    <2>4. Fresh(g, manifest.top, <<>>, clock.ran)
      BY <2>1, FreshFrame
    <2>. QED  BY <1>1, <2>2, <2>3, <2>4 DEF FrameFrom
  <1>2. CASE t = s
    BY <1>0, <1>2, SelfStays, StaysFrom
  <1>3. CASE Passes
    <2>1. PICK g : g = [Top EXCEPT !.at = @ + 1]
      OBVIOUS
    <2>2. /\ t = OnTop(s, g) /\ s # <<>> /\ Top = Last(s) /\ DOMAIN Top = FrameFields
      <3>1. AtStepOf /\ DOMAIN walk = {"stack", "state", "ret"}
        BY <1>3 DEF Passes, WalkInv, WalkOK
      <3>. QED  BY <1>3, <2>1, <3>1, Standing DEF Passes, FrameOK
    <2>3. SameCall(Last(s), g)
      BY <2>1, <2>2 DEF SameCall, FrameFields
    <2>. QED  BY <1>0, <2>2, <2>3, OnTopStays, StaysFrom
  <1>4. CASE \E result, state, u, row : Stops(result, state, u, row) /\ Outcome(result)
    BY <1>4, StopsStays, StaysFrom
  <1>5. CASE \E result, state : Leaves(result, state)
    BY <1>5, LeavesStays, StaysFrom
  <1>6. CASE \E n, list, state : Enters(n, list, state)
    <2>1. PICK n, list, state : Enters(n, list, state)
      BY <1>6
    <2>2. PICK g : g = Frame(list, Under(Top, n), clock.ran, NoLoop)
      OBVIOUS
    <2>3. t = Append(s, g)
      BY <2>1, <2>2 DEF Enters, Walking
    <2>4. PICK m \in Nat : m = Len(s)
      BY <1>0, LenProperties
    <2>5. Len(t) = m + 1 /\ t[m + 1] = g /\ \A i \in 1 .. m : t[i] = s[i]
      BY <1>0, <2>3, <2>4, AppendIs
    <2>6. CASE k = m + 1
      <3>1. Fresh(t[k], list, Under(Top, n), clock.ran)
        BY <2>2, <2>5, <2>6, FreshFrame
      <3>. QED  BY <2>1, <2>4, <2>5, <2>6, <3>1 DEF FrameFrom
    <2>7. CASE k # m + 1
      BY <2>4, <2>5, <2>7 DEF FrameFrom, SameCall
    <2>. QED  BY <2>6, <2>7
  <1>7. CASE \E n, loop, state : Repeats(n, loop, state)
    <2>1. PICK n, loop, state : Repeats(n, loop, state)
      BY <1>7
    <2>2. PICK g : g = Frame(Top.list, NextPrefix(n), Top.since, loop)
      OBVIOUS
    <2>3. t = OnTop(s, g) /\ s # <<>>
      <3>1. t = OnTop(s, g)
        BY <2>1, <2>2 DEF Repeats, Walking, NextPrefix
      <3>. QED  BY <2>1, <3>1 DEF Repeats, Returning, InWalk
    <2>4. PICK m \in Nat \ {0} : m = Len(s)
      BY <1>0, <2>3, Popped
    <2>5. Len(t) = m /\ t[m] = g /\ \A i \in 1 .. m - 1 : t[i] = s[i]
      BY <1>0, <2>3, <2>4, OnTopIs
    <2>6. CASE k = m
      <3>1. Fresh(t[k], Top.list, NextPrefix(n), Top.since)
        BY <2>2, <2>5, <2>6, FreshFrame
      <3>. QED  BY <2>1, <2>3, <2>4, <2>5, <2>6, <3>1 DEF FrameFrom
    <2>7. CASE k # m
      BY <2>4, <2>5, <2>7 DEF FrameFrom, SameCall
    <2>. QED  BY <2>6, <2>7
  <1>8. CASE t = <<>>
    <2>1. Len(t) = 0
      BY <1>8, EmptySeq
    <2>. QED  BY <2>1
  <1>9. CASE ListEnds \/ RunTimesOut \/ GuardFails
    <2>1. t = s
      BY <1>9 DEF ListEnds, RunTimesOut, GuardFails, WalkInv, WalkOK
    <2>. QED  BY <1>2, <2>1
  <1>10. CASE WalkEnds \/ StatementThrows
    <2>1. t = s \/ t = <<>>
      BY <1>10 DEF WalkEnds, StatementThrows, NoWalk, Walking, WalkInv, WalkOK
    <2>. QED  BY <1>2, <1>8, <2>1
  <1>11. CASE TimePasses \/ Decide \/ UNCHANGED walkVars
    <2>1. t = s
      BY <1>11 DEF TimePasses, Decide, walkVars
    <2>. QED  BY <1>2, <2>1
  <1>. QED  BY <1>1, <1>3, <1>4, <1>5, <1>6, <1>7, <1>9, <1>10, <1>11 DEF Shape

----------------------------------------------------------------------------
(* The levels of a path *)

(* The step at the k-th level, and the path down to it. *)
Down(p, k) == SubSeq(p, 1, k - 1)
StepAt(p, k) == Append(Down(p, k), <<p[k][1], 0>>)

LEMMA AppendLevels ==
  ASSUME NEW q \in Paths, NEW x \in PathElts, NEW p, p = Append(q, x)
  PROVE  /\ p \in Paths /\ Len(q) \in Nat /\ Len(p) = Len(q) + 1
         /\ \A k \in 1 .. Len(q) : /\ p[k] = q[k] /\ Down(p, k) = Down(q, k)
                                   /\ StepAt(p, k) = StepAt(q, k)
         /\ p[Len(p)] = x /\ Down(p, Len(p)) = q /\ StepAt(p, Len(p)) = Append(q, <<x[1], 0>>)
         /\ p # <<>> /\ Last(p) = x /\ Front(p) = q
  <1>1. q \in Seq(PathElts)
    BY DEF Paths
  <1>2. PICK n \in Nat : n = Len(q)
    BY <1>1, LenProperties
  <1>3. /\ p \in Seq(PathElts) /\ Len(p) = n + 1 /\ Last(p) = x /\ Front(p) = q /\ p # <<>>
        /\ \A i \in 1 .. n : p[i] = q[i]
    BY <1>1, <1>2, Pushed
  <1>4. p[n + 1] = x
    BY <1>3 DEF Last
  <1>5. \A k \in 1 .. n : SubSeq(p, 1, k - 1) = SubSeq(q, 1, k - 1)
    <2>1. ASSUME NEW k \in 1 .. n PROVE SubSeq(p, 1, k - 1) = SubSeq(q, 1, k - 1)
      <3>1. k \in 1 .. Len(q) + 1
        BY <1>2
      <3>. QED  BY <1>1, <3>1, SamePrefix
    <2>. QED  BY <2>1
  <1>6. PICK m : m = n + 1
    OBVIOUS
  <1>7. SubSeq(p, 1, m - 1) = q
    <2>1. m \in 1 .. Len(q) + 1 /\ m = Len(q) + 1
      BY <1>2, <1>6
    <2>. QED  BY <1>1, <2>1, SamePrefix
  <1>8. Down(p, m) = q /\ p[m] = x
    BY <1>4, <1>6, <1>7 DEF Down
  <1>9. StepAt(p, m) = Append(q, <<x[1], 0>>)
    BY <1>8 DEF StepAt
  <1>10. \A k \in 1 .. n : p[k] = q[k] /\ Down(p, k) = Down(q, k) /\ StepAt(p, k) = StepAt(q, k)
    BY <1>3, <1>5 DEF Down, StepAt
  <1>. QED  BY <1>2, <1>3, <1>6, <1>8, <1>9, <1>10 DEF Paths

(* What is known of a path: the steps along it are in the lists, and the      *)
(* first n turns were taken: a branch the condition decided for, or a round of *)
(* the loop.                                                                  *)
ListedAt(p, k) == \E j \in DOMAIN ListBelow(Down(p, k)) : ListBelow(Down(p, k))[j] = p[k][1]
TurnOf(id, path, n, D) ==
  \/ Step(id).kind = "condition" /\ <<path, n>> \in D
  \/ Step(id).kind = "for_each" /\ Step(id).on # "bad" /\ n \in 1 .. Step(id).items
Descends(p, n, D) ==
  \A k \in 1 .. Len(p) : ListedAt(p, k) /\ (k <= n => TurnOf(p[k][1], StepAt(p, k), p[k][2], D))

LEMMA DescendsStill ==
  ASSUME NEW p, NEW n, NEW D, NEW E, Descends(p, n, D), D \subseteq E
  PROVE  Descends(p, n, E)
  BY DEF Descends, TurnOf

LEMMA UnderLevels ==
  ASSUME manifest \in Manifests, NEW S, NEW f, FrameOK(f, S), InList(f), NEW n \in Nat, NEW p, p = Under(f, n)
  PROVE  /\ p \in Paths /\ f.prefix \in Paths /\ f.list[f.at] \in DOMAIN manifest.step
         /\ Len(f.prefix) \in Nat /\ Len(p) = Len(f.prefix) + 1
         /\ \A k \in 1 .. Len(f.prefix) : /\ p[k] = f.prefix[k] /\ Down(p, k) = Down(f.prefix, k)
                                          /\ StepAt(p, k) = StepAt(f.prefix, k)
         /\ p[Len(p)] = <<f.list[f.at], n>> /\ Down(p, Len(p)) = f.prefix
         /\ StepAt(p, Len(p)) = Under(f, 0)
         /\ p # <<>> /\ Last(p) = <<f.list[f.at], n>> /\ Front(p) = f.prefix
  <1>1. PICK q, id : q = f.prefix /\ id = f.list[f.at]
    OBVIOUS
  <1>2. q \in Paths /\ id \in DOMAIN manifest.step
    BY <1>1, BeforeHere DEF FrameOK
  <1>3. PICK x : x = <<id, n>>
    OBVIOUS
  <1>4. x \in PathElts /\ x[1] = id
    BY <1>2, <1>3, ManifestLists DEF PathElts
  <1>5. p = Append(q, x) /\ Under(f, 0) = Append(q, <<x[1], 0>>)
    BY <1>1, <1>3, <1>4 DEF Under
  <1>6. /\ p \in Paths /\ Len(q) \in Nat /\ Len(p) = Len(q) + 1
        /\ \A k \in 1 .. Len(q) : /\ p[k] = q[k] /\ Down(p, k) = Down(q, k)
                                  /\ StepAt(p, k) = StepAt(q, k)
        /\ p[Len(p)] = x /\ Down(p, Len(p)) = q /\ StepAt(p, Len(p)) = Append(q, <<x[1], 0>>)
        /\ p # <<>> /\ Last(p) = x /\ Front(p) = q
    BY <1>2, <1>4, <1>5, AppendLevels
  <1>. QED  BY <1>1, <1>2, <1>3, <1>5, <1>6

LEMMA UnderDescends ==
  ASSUME manifest \in Manifests, NEW S, NEW f, FrameOK(f, S), InList(f), NEW n \in Nat, NEW p, p = Under(f, n),
         NEW D, Descends(f.prefix, Len(f.prefix), D)
  PROVE  /\ Descends(p, Len(p) - 1, D)
         /\ TurnOf(f.list[f.at], Under(f, 0), n, D) => Descends(p, Len(p), D)
  <1>1. PICK q, id, m : q = f.prefix /\ id = f.list[f.at] /\ m = Len(q)
    OBVIOUS
  <1>2. /\ m \in Nat /\ Len(p) = m + 1
        /\ \A k \in 1 .. m : p[k] = q[k] /\ Down(p, k) = Down(q, k) /\ StepAt(p, k) = StepAt(q, k)
        /\ p[m + 1] = <<id, n>> /\ Down(p, m + 1) = q /\ StepAt(p, m + 1) = Under(f, 0)
    <2>1. /\ Len(f.prefix) \in Nat /\ Len(p) = Len(f.prefix) + 1
          /\ \A k \in 1 .. Len(f.prefix) : /\ p[k] = f.prefix[k] /\ Down(p, k) = Down(f.prefix, k)
                                           /\ StepAt(p, k) = StepAt(f.prefix, k)
          /\ p[Len(p)] = <<f.list[f.at], n>> /\ Down(p, Len(p)) = f.prefix
          /\ StepAt(p, Len(p)) = Under(f, 0)
      BY UnderLevels
    <2>. QED  BY <1>1, <2>1
  <1>3. ASSUME NEW k \in 1 .. m
        PROVE  ListedAt(p, k) /\ TurnOf(p[k][1], StepAt(p, k), p[k][2], D)
    <2>1. ListedAt(q, k) /\ TurnOf(q[k][1], StepAt(q, k), q[k][2], D)
      BY <1>1, <1>2 DEF Descends
    <2>2. p[k] = q[k] /\ Down(p, k) = Down(q, k) /\ StepAt(p, k) = StepAt(q, k)
      BY <1>2
    <2>. QED  BY <2>1, <2>2 DEF ListedAt
  <1>4. ListedAt(p, m + 1)
    <2>1. f.at \in DOMAIN f.list /\ f.list = ListBelow(q)
      BY <1>1 DEF FrameOK, InList
    <2>2. PICK r, j : r = m + 1 /\ j = f.at
      OBVIOUS
    <2>3. Down(p, r) = q /\ p[r][1] = id /\ j \in DOMAIN ListBelow(q) /\ ListBelow(q)[j] = id
      BY <1>1, <1>2, <2>1, <2>2
    <2>4. ListedAt(p, r)
      BY <2>3 DEF ListedAt
    <2>. QED  BY <2>2, <2>4
  <1>5. ASSUME TurnOf(f.list[f.at], Under(f, 0), n, D)
        PROVE  TurnOf(p[m + 1][1], StepAt(p, m + 1), p[m + 1][2], D)
    BY <1>1, <1>2, <1>5
  <1>6. \A k \in 1 .. m + 1 : k \in 1 .. m \/ k = m + 1
    BY <1>2
  <1>. QED  BY <1>2, <1>3, <1>4, <1>5, <1>6 DEF Descends

(* A call is below the step its caller stands at. *)
LEMMA CallsUnder ==
  ASSUME manifest \in Manifests, NEW S, NEW f, FrameOK(f, S), NEW g, FrameOK(g, S), Calls(f, g)
  PROVE  \E i \in Nat : g.prefix = Under(f, i) /\ Last(g.prefix)[2] = i
  <1>1. PICK q, id, front : q = g.prefix /\ id = f.list[f.at] /\ front = Front(q)
    OBVIOUS
  <1>2. q \in Seq(PathElts) /\ q # <<>> /\ InList(f) /\ Owner(q) = Under(f, 0)
    BY <1>1 DEF Calls, FrameOK, Paths
  <1>3. /\ Last(q) \in PathElts /\ front \in Seq(PathElts) /\ q = Append(front, Last(q))
    BY <1>1, <1>2, Popped
  <1>4. PICK jd, i : Last(q) = <<jd, i>> /\ i \in Nat /\ jd \in AllIds
    BY <1>3 DEF PathElts
  <1>5. Owner(q) = Append(front, <<jd, 0>>)
    BY <1>1, <1>4 DEF Owner
  <1>6. Under(f, 0) = Append(f.prefix, <<id, 0>>)
    BY <1>1 DEF Under
  <1>7. f.prefix \in Seq(PathElts) /\ id \in AllIds
    BY <1>1, <1>2, BeforeHere, ManifestLists DEF FrameOK, Paths
  <1>8. PICK x, y : x = <<jd, 0>> /\ y = <<id, 0>>
    OBVIOUS
  <1>9. x \in PathElts /\ y \in PathElts /\ x[1] = jd /\ y[1] = id
    BY <1>4, <1>7, <1>8 DEF PathElts
  <1>10. /\ Front(Append(front, x)) = front /\ Last(Append(front, x)) = x
         /\ Front(Append(f.prefix, y)) = f.prefix /\ Last(Append(f.prefix, y)) = y
    BY <1>3, <1>7, <1>9, Pushed
  <1>11. front = f.prefix /\ x = y
    BY <1>2, <1>5, <1>6, <1>8, <1>10
  <1>12. q = Append(f.prefix, <<id, i>>)
    BY <1>3, <1>4, <1>9, <1>11
  <1>. QED  BY <1>1, <1>4, <1>12 DEF Under

(* The frame that returns, seen from its caller. *)
LEMMA CalledFrom ==
  ASSUME WalkInv, Returning, NEW f, f = Last(Front(walk.stack))
  PROVE  /\ manifest \in Manifests /\ FrameOK(f, settled) /\ InList(f)
         /\ Len(walk.stack) - 1 \in Nat \ {0} /\ f = walk.stack[Len(walk.stack) - 1]
         /\ OwnerPath(Top) = Under(f, 0) /\ Last(OwnerPath(Top)) = <<f.list[f.at], 0>>
         /\ StepOf(OwnerPath(Top)) = Step(f.list[f.at])
         /\ \E i \in Nat : /\ Top.prefix = Under(f, i) /\ Last(Top.prefix) = <<f.list[f.at], i>>
                           /\ Front(Top.prefix) = f.prefix
  <1>1. PICK s, g, S : s = walk.stack /\ g = Last(s) /\ S = settled
    OBVIOUS
  <1>2. /\ s # <<>> /\ StackOK(s, S) /\ FrameOK(g, S) /\ Top = g
        /\ StackOK(Front(s), S) /\ Front(s) # <<>> /\ InList(f)
        /\ OwnerPath(Top) = Under(f, 0) /\ manifest \in Manifests
    BY <1>1, ReturningTo DEF WalkInv
  <1>3. PICK T : s \in Seq(T)
    BY <1>2 DEF StackOK
  <1>4. PICK n \in Nat \ {0} : n = Len(s)
    BY <1>2, <1>3, Popped
  <1>5. PICK front : front = Front(s)
    OBVIOUS
  <1>6. front \in Seq(T) /\ Len(front) = n - 1 /\ \A i \in 1 .. n - 1 : front[i] = s[i]
    BY <1>2, <1>3, <1>4, <1>5, Popped
  <1>7. n - 1 \in Nat \ {0} /\ f = s[n - 1]
    <2>1. Len(front) \in Nat \ {0} /\ Last(front) = front[Len(front)]
      BY <1>2, <1>5, <1>6, Popped
    <2>2. PICK r \in Nat \ {0} : r = Len(front)
      BY <2>1
    <2>3. r = n - 1 /\ r \in 1 .. n - 1
      BY <1>4, <1>6, <2>2
    <2>4. front[r] = s[r] /\ f = front[r]
      BY <1>1, <1>5, <1>6, <2>1, <2>2, <2>3
    <2>. QED  BY <2>2, <2>3, <2>4
  <1>8. FrameOK(f, S) /\ Calls(f, g)
    <2>1. FrameOK(f, S)
      BY <1>1, <1>2, StackTop
    <2>2. n # 1
      BY <1>7
    <2>3. Calls(f, g)
      BY <1>1, <1>2, <1>4, <2>2, ReturnPops
    <2>. QED  BY <2>1, <2>3
  <1>9. PICK i \in Nat : g.prefix = Under(f, i) /\ Last(g.prefix)[2] = i
    BY <1>2, <1>8, CallsUnder
  <1>10. Last(Under(f, i)) = <<f.list[f.at], i>> /\ Front(Under(f, i)) = f.prefix
    BY <1>2, <1>8, BeforeHere
  <1>11. Last(Under(f, 0)) = <<f.list[f.at], 0>>
    BY <1>2, <1>8, BeforeHere
  <1>12. StepOf(OwnerPath(Top)) = Step(f.list[f.at])
    BY <1>2, <1>11 DEF StepOf
  <1>. QED  BY <1>1, <1>2, <1>4, <1>7, <1>8, <1>9, <1>10, <1>11, <1>12

----------------------------------------------------------------------------
(* Where the calls stand, and what was decided *)

FramePlace(s, k, D) ==
  /\ Len(s[k].prefix) = k - 1
  /\ Descends(s[k].prefix, Len(s[k].prefix), D)
  /\ \A h \in 1 .. k : h # k => Down(s[k].prefix, h) = s[h].prefix

DecidedOK(d) ==
  /\ StepOf(d[1]).kind = "condition" /\ StepOf(d[1]).on # "bad" /\ d[2] \in {1, 2}
  /\ StepOf(d[1]).on = "always" => d[2] = 1
  /\ StepOf(d[1]).on = "never" => d[2] = 2

EffectsTyped ==
  \A p \in DOMAIN effects : DOMAIN effects[p] = {"ok", "bad"} /\ effects[p].bad \in Nat

PlaceInv ==
  /\ RowsTyped /\ ClockTyped /\ EffectsTyped /\ walk.ret \in Returns
  /\ \A d \in decided : DecidedOK(d)
  /\ \A k \in 1 .. Len(walk.stack) : FramePlace(walk.stack, k, decided)

LEMMA PlaceKeeps ==
  ASSUME UNCHANGED manifest, NEW s, NEW k, NEW D, NEW d
  PROVE  /\ FramePlace(s, k, D) => FramePlace(s, k, D)'
         /\ DecidedOK(d) => DecidedOK(d)'
  <1>1. ASSUME NEW q PROVE ListBelow(q)' = ListBelow(q)
    BY DEF ListBelow, Step, BranchList
  <1>2. ASSUME NEW q, NEW n, Descends(q, n, D) PROVE Descends(q, n, D)'
    BY <1>1, <1>2 DEF Descends, ListedAt, TurnOf, Step, StepAt, Down
  <1>3. FramePlace(s, k, D) => FramePlace(s, k, D)'
    BY <1>2 DEF FramePlace, Down
  <1>4. DecidedOK(d) => DecidedOK(d)'
    BY DEF DecidedOK, StepOf, Step
  <1>. QED  BY <1>3, <1>4

(* A call below the m-th. *)
Grows(s, m, f, D, E, n, t) ==
  /\ m \in Nat \ {0} /\ f = s[m] /\ InList(f) /\ \E S : FrameOK(f, S)
  /\ FramePlace(s, m, D) /\ D \subseteq E
  /\ n \in Nat /\ TurnOf(f.list[f.at], Under(f, 0), n, E)
  /\ \A h \in 1 .. m : t[h] = s[h]
  /\ t[m + 1].prefix = Under(f, n)

LEMMA PlaceUnder ==
  ASSUME manifest \in Manifests, NEW s, NEW m, NEW f, NEW D, NEW E, NEW n, NEW t, Grows(s, m, f, D, E, n, t),
         NEW j, j = m + 1
  PROVE  FramePlace(t, j, E)
  <1>0. /\ m \in Nat \ {0} /\ n \in Nat /\ FramePlace(s, m, D) /\ f = s[m] /\ D \subseteq E
        /\ TurnOf(f.list[f.at], Under(f, 0), n, E) /\ InList(f) /\ t[j].prefix = Under(f, n)
        /\ \A h \in 1 .. m : t[h] = s[h]
    BY DEF Grows
  <1>00. PICK S : FrameOK(f, S)
    BY DEF Grows
  <1>1. PICK p : p = Under(f, n)
    OBVIOUS
  <1>2. /\ Len(f.prefix) = m - 1 /\ Descends(f.prefix, Len(f.prefix), D)
        /\ \A h \in 1 .. m : h # m => Down(f.prefix, h) = s[h].prefix
    BY <1>0, <1>00 DEF FramePlace
  <1>3. /\ Len(p) = Len(f.prefix) + 1
        /\ \A k \in 1 .. Len(f.prefix) : Down(p, k) = Down(f.prefix, k)
        /\ Down(p, Len(p)) = f.prefix
    BY <1>0, <1>00, <1>1, UnderLevels
  <1>4. Descends(f.prefix, Len(f.prefix), E)
    BY <1>0, <1>00, <1>2, DescendsStill
  <1>5. Descends(p, Len(p), E)
    BY <1>0, <1>00, <1>1, <1>4, UnderDescends
  <1>6. Len(p) = m
    BY <1>0, <1>00, <1>2, <1>3
  <1>7. ASSUME NEW h \in 1 .. m PROVE Down(p, h) = t[h].prefix
    <2>1. CASE h = m
      BY <1>0, <1>00, <1>3, <1>6, <2>1
    <2>2. CASE h # m
      <3>1. h \in 1 .. Len(f.prefix) /\ h \in 1 .. m
        BY <1>0, <1>00, <1>2, <2>2
      <3>2. Down(p, h) = Down(f.prefix, h)
        BY <1>0, <1>00, <1>3, <3>1
      <3>3. Down(f.prefix, h) = s[h].prefix
        BY <1>0, <1>00, <1>2, <2>2, <3>1
      <3>. QED  BY <1>0, <1>00, <3>2, <3>3
    <2>. QED  BY <1>0, <1>00, <2>1, <2>2
  <1>9. t[j].prefix = p /\ Len(p) = j - 1 /\ \A h \in 1 .. j : h # j => h \in 1 .. m
    BY <1>0, <1>00, <1>1, <1>6
  <1>. QED  BY <1>0, <1>00, <1>5, <1>7, <1>9 DEF FramePlace

LEMMA EntersTurn ==
  ASSUME WalkInv, NEW n, NEW list, NEW state, Enters(n, list, state), NEW D, D = decided'
  PROVE  /\ n \in Nat /\ TurnOf(Top.list[Top.at], Under(Top, 0), n, D)
         /\ FrameOK(Top, settled) /\ InList(Top) /\ manifest \in Manifests /\ InWalk
         /\ decided \subseteq D
  <1>1. AtStepOf /\ InWalk
    BY DEF Enters, AtStepOf
  <1>2. PICK f, S : f = Top /\ S = settled
    OBVIOUS
  <1>3. FrameOK(f, S) /\ InList(f) /\ Here = Under(f, 0) /\ manifest \in Manifests
    BY <1>1, <1>2, Standing DEF WalkInv
  <1>4. Last(Under(f, 0)) = <<f.list[f.at], 0>> /\ f.list[f.at] \in DOMAIN manifest.step
    BY <1>3, BeforeHere
  <1>5. PICK id : id = f.list[f.at]
    OBVIOUS
  <1>6. StepOf(Here) = Step(id)
    BY <1>3, <1>4, <1>5 DEF StepOf
  <1>7. n \in Nat \ {0} /\ decided \subseteq D /\ Step(id).on # "bad"
    BY <1>6 DEF Enters
  <1>8. TurnOf(id, Here, n, D)
    <2>1. CASE Step(id).kind = "condition" /\ decided' = decided \cup {<<Here, n>>}
      BY <2>1 DEF TurnOf
    <2>2. CASE Step(id).kind = "for_each" /\ n <= Step(id).items
      <3>1. PICK m \in Nat : m = Step(id).items
        BY <1>3, <1>4, <1>5, WalkAssumption DEF Step
      <3>2. n \in 1 .. m
        BY <1>7, <2>2, <3>1
      <3>. QED  BY <1>7, <2>2, <3>1, <3>2 DEF TurnOf
    <2>. QED  BY <1>6, <2>1, <2>2 DEF Enters
  <1>. QED  BY <1>1, <1>2, <1>3, <1>5, <1>7, <1>8

(* The path of the next round. *)
LEMMA RepeatsUnder ==
  ASSUME WalkInv, PlaceInv, NEW n, NEW loop, NEW state, Repeats(n, loop, state),
         NEW f, f = Last(Front(walk.stack)), NEW D, decided \subseteq D
  PROVE  /\ n \in Nat \ {0} /\ NextPrefix(n) = Under(f, n) /\ Top.prefix = Under(f, n - 1)
         /\ TurnOf(f.list[f.at], Under(f, 0), n, D)
         /\ Step(f.list[f.at]).kind = "for_each"
  <1>1. Returning /\ InWalk
    BY DEF Repeats, Returning
  <1>2. PICK m, id : m = Len(walk.stack) /\ id = f.list[f.at]
    OBVIOUS
  <1>3. /\ manifest \in Manifests /\ FrameOK(f, settled) /\ InList(f) /\ m - 1 \in Nat \ {0}
        /\ f = walk.stack[m - 1]
        /\ OwnerPath(Top) = Under(f, 0) /\ Last(OwnerPath(Top)) = <<id, 0>>
        /\ StepOf(OwnerPath(Top)) = Step(id)
    BY <1>1, <1>2, CalledFrom
  <1>4. PICK i \in Nat : /\ Top.prefix = Under(f, i) /\ Last(Top.prefix) = <<id, i>>
                         /\ Front(Top.prefix) = f.prefix
    BY <1>1, <1>2, CalledFrom
  <1>5. n = i + 1 /\ i < Step(id).items /\ Step(id).kind = "for_each"
    BY <1>3, <1>4 DEF Repeats
  <1>6. id \in DOMAIN manifest.step
    <2>1. f.list[f.at] \in DOMAIN manifest.step
      BY <1>3, BeforeHere
    <2>. QED  BY <1>2, <2>1
  <1>7. PICK top \in Nat : top = Step(id).items
    BY <1>3, <1>6, WalkAssumption DEF Step
  <1>8. NextPrefix(n) = Under(f, n)
    <2>1. PICK x : x = Last(OwnerPath(Top)) /\ x = <<id, 0>>
      BY <1>3
    <2>2. x[1] = id
      BY <2>1
    <2>3. <<x[1], n>> = <<f.list[f.at], n>>
      BY <1>2, <2>2
    <2>. QED  BY <1>4, <2>1, <2>3 DEF NextPrefix, Under
  <1>9. Step(id).on # "bad"
    <2>1. PICK q : q = Top.prefix
      OBVIOUS
    <2>2. FramePlace(walk.stack, m, decided) /\ Top = walk.stack[m] /\ m \in Nat \ {0}
      <3>1. m \in Nat \ {0} /\ Top = walk.stack[m]
        BY <1>1, <1>2, WalkStack
      <3>2. m \in 1 .. Len(walk.stack)
        BY <1>2, <3>1
      <3>. QED  BY <3>1, <3>2 DEF PlaceInv
    <2>3. Descends(q, Len(q), decided)
      BY <2>1, <2>2 DEF FramePlace
    <2>4. q = Under(f, i)
      BY <1>4, <2>1
    <2>5. Len(q) = Len(f.prefix) + 1 /\ Len(f.prefix) \in Nat /\ q[Len(q)] = <<id, i>>
      <3>1. PICK g : g = f
        OBVIOUS
      <3>2. /\ Len(g.prefix) \in Nat /\ Len(q) = Len(g.prefix) + 1
            /\ q[Len(q)] = <<g.list[g.at], i>>
        BY <1>3, <2>4, <3>1, UnderLevels
      <3>. QED  BY <1>2, <3>1, <3>2
    <2>6. PICK j \in Nat \ {0} : j = Len(q)
      BY <2>5
    <2>7. TurnOf(q[j][1], StepAt(q, j), q[j][2], decided)
      BY <2>3, <2>6 DEF Descends
    <2>8. q[j][1] = id
      BY <2>5, <2>6
    <2>. QED  BY <1>5, <2>7, <2>8 DEF TurnOf
  <1>10. TurnOf(id, Under(f, 0), n, D)
    <2>1. n \in 1 .. top
      BY <1>5, <1>7
    <2>. QED  BY <1>5, <1>7, <1>9, <2>1 DEF TurnOf
  <1>11. n \in Nat \ {0} /\ n - 1 = i
    BY <1>5
  <1>. QED  BY <1>2, <1>4, <1>5, <1>8, <1>10, <1>11

LEMMA RowsAfter ==
  ASSUME RowsTyped, NEW p, NEW row, NEW rows, rows = Extend(stepRows, p, row),
         DOMAIN row = RowFields, row.attempt \in Nat \ {0}
  PROVE  \A q \in DOMAIN rows : DOMAIN rows[q] = RowFields /\ rows[q].attempt \in Nat \ {0}
  <1>1. DOMAIN rows = DOMAIN stepRows \cup {p} /\ rows[p] = row /\ \A q \in DOMAIN stepRows : q # p => rows[q] = stepRows[q]
    BY DEF Extend
  <1>. QED  BY <1>1 DEF RowsTyped

LEMMA RowsStep ==
  ASSUME WalkInv, PlaceInv, Shape
  PROVE  RowsTyped'
  <1>1. CASE UNCHANGED stepRows
    BY <1>1 DEF RowsTyped, PlaceInv
  <1>2. CASE \E p, row : /\ stepRows' = Extend(stepRows, p, row)
                         /\ DOMAIN row = RowFields /\ row.attempt \in Nat \ {0}
    <2>1. PICK rows : rows = stepRows'
      OBVIOUS
    <2>2. \A q \in DOMAIN rows : DOMAIN rows[q] = RowFields /\ rows[q].attempt \in Nat \ {0}
      BY <1>2, <2>1, RowsAfter DEF PlaceInv
    <2>. QED  BY <2>1, <2>2 DEF RowsTyped
  <1>3. CASE \E p : stepRows' = RowStarted(p)
    <2>1. PICK p : stepRows' = RowStarted(p)
      BY <1>3
    <2>2. PICK row : RowStarted(p) = Extend(stepRows, p, row) /\ NextRow(p, row, "running")
      BY RowStartedIs DEF PlaceInv
    <2>. QED  BY <1>2, <2>1, <2>2 DEF NextRow
  <1>4. CASE \E p, status : stepRows' = RowSet(p, status)
    <2>1. PICK p, status : stepRows' = RowSet(p, status)
      BY <1>4
    <2>2. PICK row : /\ RowSet(p, status) = Extend(stepRows, p, row)
                     /\ DOMAIN row = RowFields /\ row.attempt \in Nat \ {0}
      BY RowSetIs DEF PlaceInv
    <2>. QED  BY <1>2, <2>1, <2>2
  <1>5. CASE \E result, state, t, row : Stops(result, state, t, row) /\ Outcome(result)
    BY <1>2, <1>5 DEF Stops, NextRow
  <1>6. CASE StatementThrows \/ \E n, list, state : Enters(n, list, state)
    BY <1>3, <1>6 DEF StatementThrows, Enters
  <1>7. CASE Decide \/ \E result, state : Leaves(result, state)
    <2>1. CASE Decide
      BY <1>1, <1>4, <2>1 DEF Decide
    <2>2. CASE \E result, state : Leaves(result, state)
      BY <1>4, <2>2 DEF Leaves, OwnerEnds
    <2>. QED  BY <1>7, <2>1, <2>2
  <1>8. CASE \/ Start \/ ListEnds \/ RunTimesOut \/ GuardFails \/ Passes
             \/ (\E n, loop, state : Repeats(n, loop, state))
             \/ WalkEnds \/ TimePasses \/ UNCHANGED walkVars
    <2>1. UNCHANGED stepRows
      BY <1>8 DEF Start, ListEnds, RunTimesOut, GuardFails, Passes, Repeats, OnlyWalk, WalkEnds,
                  TimePasses, walkVars
    <2>. QED  BY <1>1, <2>1
  <1>. QED  BY <1>5, <1>6, <1>7, <1>8 DEF Shape

LEMMA ClockStep ==
  ASSUME WalkInv, PlaceInv, Shape
  PROVE  ClockTyped' /\ clock.throws <= clock'.throws /\ clock.ran <= clock'.ran
  <1>0. /\ DOMAIN clock = {"ran", "resumes", "throws"} /\ clock.ran \in Nat /\ clock.throws \in Nat
    BY DEF PlaceInv, ClockTyped
  <1>1. CASE UNCHANGED clock
    BY <1>0, <1>1 DEF ClockTyped
  <1>2. CASE Start
    <2>1. clock' = [clock EXCEPT !.resumes = @ + 1]
      BY <1>2 DEF Start
    <2>. QED  BY <1>0, <2>1 DEF ClockTyped
  <1>3. CASE StatementThrows
    <2>1. clock' = [clock EXCEPT !.throws = @ + 1]
      BY <1>3 DEF StatementThrows
    <2>. QED  BY <1>0, <2>1 DEF ClockTyped
  <1>4. CASE \E result, state, t, row : Stops(result, state, t, row) /\ Outcome(result)
    BY <1>0, <1>4 DEF ClockTyped, Stops
  <1>5. CASE \/ ListEnds \/ RunTimesOut \/ GuardFails \/ Passes
             \/ (\E n, list, state : Enters(n, list, state))
             \/ (\E result, state : Leaves(result, state))
             \/ (\E n, loop, state : Repeats(n, loop, state))
             \/ WalkEnds \/ TimePasses \/ Decide \/ UNCHANGED walkVars
    <2>1. UNCHANGED clock
      BY <1>5 DEF ListEnds, RunTimesOut, GuardFails, Passes, Repeats, OnlyWalk, WalkEnds, Enters, Leaves,
                  TimePasses, Decide, walkVars
    <2>. QED  BY <1>1, <2>1
  <1>. QED  BY <1>2, <1>3, <1>4, <1>5 DEF Shape

LEMMA EffectsStep ==
  ASSUME WalkInv, PlaceInv, Shape
  PROVE  EffectsTyped'
  <1>1. CASE UNCHANGED effects
    BY <1>1 DEF EffectsTyped, PlaceInv
  <1>2. CASE EffectStep \/ StatementThrows
    <2>1. PICK e : e = At(effects, Here, [ok |-> 0, bad |-> 0])
      OBVIOUS
    <2>2. DOMAIN e = {"ok", "bad"} /\ e.bad \in Nat
      BY <2>1 DEF At, PlaceInv, EffectsTyped
    <2>3. PICK good, bad : good = [e EXCEPT !.ok = @ + 1] /\ bad = [e EXCEPT !.bad = @ + 1]
      OBVIOUS
    <2>4. DOMAIN good = {"ok", "bad"} /\ good.bad \in Nat /\ DOMAIN bad = {"ok", "bad"} /\ bad.bad \in Nat
      BY <2>2, <2>3
    <2>5. \/ UNCHANGED effects
          \/ \E new \in {good, bad} : effects' = Extend(effects, Here, new)
      BY <1>2, <2>1, <2>3 DEF EffectStep, StatementThrows
    <2>6. CASE \E new \in {good, bad} : effects' = Extend(effects, Here, new)
      <3>1. PICK new \in {good, bad} : effects' = Extend(effects, Here, new)
        BY <2>6
      <3>2. DOMAIN new = {"ok", "bad"} /\ new.bad \in Nat
        BY <2>4, <3>1
      <3>3. PICK es, p : es = effects' /\ p = Here
        OBVIOUS
      <3>4. es = Extend(effects, p, new)
        BY <3>1, <3>3
      <3>5. DOMAIN es = DOMAIN effects \cup {p} /\ es[p] = new /\ \A q \in DOMAIN effects : q # p => es[q] = effects[q]
        BY <3>4 DEF Extend
      <3>6. \A q \in DOMAIN es : DOMAIN es[q] = {"ok", "bad"} /\ es[q].bad \in Nat
        BY <3>2, <3>5 DEF PlaceInv, EffectsTyped
      <3>. QED  BY <3>3, <3>6 DEF EffectsTyped
    <2>. QED  BY <1>1, <2>5, <2>6
  <1>3. CASE \E result, state, t, row : Stops(result, state, t, row) /\ Outcome(result)
    BY <1>1, <1>2, <1>3 DEF Outcome
  <1>4. CASE \/ Start \/ ListEnds \/ RunTimesOut \/ GuardFails \/ Passes
             \/ (\E n, list, state : Enters(n, list, state))
             \/ (\E result, state : Leaves(result, state))
             \/ (\E n, loop, state : Repeats(n, loop, state))
             \/ WalkEnds \/ TimePasses \/ Decide \/ UNCHANGED walkVars
    <2>1. UNCHANGED effects
      BY <1>4 DEF Start, ListEnds, RunTimesOut, GuardFails, Passes, Repeats, OnlyWalk, WalkEnds, Enters, Leaves,
                  TimePasses, Decide, walkVars
    <2>. QED  BY <1>1, <2>1
  <1>. QED  BY <1>2, <1>3, <1>4 DEF Shape

LEMMA RetStep ==
  ASSUME WalkInv, PlaceInv, Shape
  PROVE  walk'.ret \in Returns
  <1>0. walk.ret \in Returns /\ DOMAIN walk = {"stack", "state", "ret"}
    BY DEF PlaceInv, WalkInv, WalkOK
  <1>1. CASE \E result, state, t, row : Stops(result, state, t, row) /\ Outcome(result)
    <2>1. PICK result, state, t, row : Stops(result, state, t, row) /\ Outcome(result)
      BY <1>1
    <2>2. PICK s, w, p : s = walk.stack /\ w = walk' /\ p = Here
      OBVIOUS
    <2>3. w = Finished(s, state, p, result, 0, t) /\ AtStepOf
      BY <2>1, <2>2 DEF Stops
    <2>4. StackOK(s, settled) /\ s # <<>>
      BY <2>2, <2>3, Standing
    <2>5. w.ret = "none" \/ (w.ret = result /\ ~Settles(p, result))
      BY <2>3, <2>4, FinishedStack
    <2>6. result \in Returns \/ result = "skipped"
      BY <2>1 DEF Outcome, Returns
    <2>7. result = "skipped" => Settles(p, result)
      BY DEF Settles
    <2>. QED  BY <2>2, <2>5, <2>6, <2>7 DEF Returns
  <1>2. CASE \E result, state : Leaves(result, state)
    <2>1. PICK result, state : Leaves(result, state)
      BY <1>2
    <2>2. PICK s, w, p : s = Front(walk.stack) /\ w = walk' /\ p = OwnerPath(Top)
      OBVIOUS
    <2>3. PICK since, ran : since = Top.since /\ ran = clock.ran
      OBVIOUS
    <2>4. w = Finished(s, state, p, result, since, ran) /\ Returning
      BY <2>1, <2>2, <2>3 DEF Leaves, OwnerEnds
    <2>5. StackOK(s, settled) /\ s # <<>>
      BY <2>2, <2>4, ReturningTo
    <2>6. w.ret = "none" \/ w.ret = result
      BY <2>4, <2>5, FinishedStack
    <2>7. result \in Returns
      BY <1>0, <2>1 DEF Leaves, Returns
    <2>. QED  BY <2>2, <2>6, <2>7 DEF Returns
  <1>3. CASE \/ Start \/ (\E n, list, state : Enters(n, list, state))
             \/ (\E n, loop, state : Repeats(n, loop, state)) \/ WalkEnds
    <2>1. CASE Start
      BY <2>1 DEF Start, Walking, Returns
    <2>2. CASE \E n, list, state : Enters(n, list, state)
      BY <2>2 DEF Enters, Walking, Returns
    <2>3. CASE \E n, loop, state : Repeats(n, loop, state)
      BY <2>3 DEF Repeats, Walking, Returns
    <2>4. CASE WalkEnds
      BY <2>4 DEF WalkEnds, NoWalk, Walking, Returns
    <2>. QED  BY <1>3, <2>1, <2>2, <2>3, <2>4
  <1>4. CASE ListEnds \/ RunTimesOut \/ GuardFails \/ Passes \/ StatementThrows
    <2>1. CASE ListEnds \/ RunTimesOut \/ GuardFails
      BY <1>0, <2>1 DEF ListEnds, RunTimesOut, GuardFails, Returns
    <2>2. CASE Passes
      BY <1>0, <2>2 DEF Passes, Returns
    <2>3. CASE StatementThrows
      BY <1>0, <2>3 DEF StatementThrows, NoWalk, Walking, Returns
    <2>. QED  BY <1>4, <2>1, <2>2, <2>3
  <1>5. CASE TimePasses \/ Decide \/ UNCHANGED walkVars
    BY <1>0, <1>5 DEF TimePasses, Decide, walkVars
  <1>. QED  BY <1>1, <1>2, <1>3, <1>4, <1>5 DEF Shape

(* What a condition decides for. *)
LEMMA BranchDecided ==
  ASSUME StepOf(Here).kind = "condition", StepOf(Here).on # "bad",
         NEW d, d = <<Here, BranchOf(StepOf(Here), walk.state)>>
  PROVE  DecidedOK(d)
  <1>1. PICK p, n : p = Here /\ n = BranchOf(StepOf(Here), walk.state)
    OBVIOUS
  <1>2. d[1] = p /\ d[2] = n
    BY <1>1
  <1>3. n \in {1, 2} /\ (StepOf(p).on = "always" => n = 1) /\ (StepOf(p).on = "never" => n = 2)
    BY <1>1 DEF BranchOf, Truthy
  <1>. QED  BY <1>1, <1>2, <1>3 DEF DecidedOK

LEMMA DecidedStep ==
  ASSUME WalkInv, PlaceInv, Shape
  PROVE  decided \subseteq decided' /\ \A d \in decided' : DecidedOK(d)
  <1>1. CASE UNCHANGED decided
    BY <1>1 DEF PlaceInv
  <1>2. CASE /\ StepOf(Here).kind = "condition" /\ StepOf(Here).on # "bad"
             /\ decided' = decided \cup {<<Here, BranchOf(StepOf(Here), walk.state)>>}
    BY <1>2, BranchDecided DEF PlaceInv
  <1>3. CASE \E result, state, t, row : Stops(result, state, t, row) /\ Outcome(result)
    <2>1. PICK result : Outcome(result)
      BY <1>3
    <2>2. ConditionStep => StepOf(Here).kind = "condition"
      BY DEF ConditionStep, ToExecute
    <2>. QED  BY <1>1, <1>2, <2>1, <2>2 DEF Outcome
  <1>4. CASE \E n, list, state : Enters(n, list, state)
    BY <1>1, <1>2, <1>4 DEF Enters
  <1>5. CASE \/ Start \/ ListEnds \/ RunTimesOut \/ GuardFails \/ Passes
             \/ (\E result, state : Leaves(result, state))
             \/ (\E n, loop, state : Repeats(n, loop, state))
             \/ WalkEnds \/ StatementThrows \/ TimePasses \/ Decide \/ UNCHANGED walkVars
    <2>1. UNCHANGED decided
      BY <1>5 DEF Start, ListEnds, RunTimesOut, GuardFails, Passes, Repeats, OnlyWalk, WalkEnds, Leaves,
                  StatementThrows, TimePasses, Decide, walkVars
    <2>. QED  BY <1>1, <2>1
  <1>. QED  BY <1>3, <1>4, <1>5 DEF Shape

LEMMA LaterStack ==
  ASSUME WalkInv', NEW t, t = walk'.stack
  PROVE  Len(t) \in Nat /\ \E T : t \in Seq(T)
  <1>1. CASE t = <<>>
    BY <1>1, EmptySeq, LenProperties
  <1>2. CASE t # <<>>
    <2>1. \E T : t \in Seq(T)
      BY <1>2 DEF WalkInv, WalkOK, StackOK
    <2>. QED  BY <2>1, LenProperties
  <1>. QED  BY <1>1, <1>2

LEMMA FramePlaceStep ==
  ASSUME WalkInv, PlaceInv, Shape, WalkInv', NEW s, NEW t, NEW D, s = walk.stack, t = walk'.stack, D = decided',
         NEW k \in 1 .. Len(t)
  PROVE  FramePlace(t, k, D)
  <1>1. decided \subseteq D
    BY DecidedStep
  <1>2. PICK n \in Nat : n = Len(s)
    BY WalkStack
  <1>3. PICK m \in Nat : m = Len(t) /\ k \in 1 .. m
    BY LaterStack
  <1>4. ASSUME NEW h \in 1 .. k, h # m PROVE h \in 1 .. n /\ t[h] = s[h]
    <2>1. h \in 1 .. Len(t) /\ h # Len(t)
      BY <1>3, <1>4
    <2>. QED  BY <1>2, <2>1, FramesFrom
  <1>5. ASSUME NEW j \in 1 .. n
        PROVE  /\ Len(s[j].prefix) = j - 1
               /\ Descends(s[j].prefix, Len(s[j].prefix), D)
               /\ \A h \in 1 .. j : h # j => Down(s[j].prefix, h) = s[h].prefix
    <2>1. FramePlace(s, j, decided)
      BY <1>2 DEF PlaceInv
    <2>. QED  BY <1>1, <2>1, DescendsStill DEF FramePlace
  <1>6. CASE k \in 1 .. Len(s) /\ SameCall(s[k], t[k])
    <2>1. t[k].prefix = s[k].prefix
      BY <1>6 DEF SameCall
    <2>2. ASSUME NEW h \in 1 .. k, h # k PROVE Down(t[k].prefix, h) = t[h].prefix
      <3>1. h # m
        BY <1>3, <2>2
      <3>2. t[h] = s[h]
        BY <1>4, <3>1
      <3>3. Down(s[k].prefix, h) = s[h].prefix
        BY <1>2, <1>5, <1>6, <2>2
      <3>. QED  BY <2>1, <3>2, <3>3
    <2>. QED  BY <1>2, <1>5, <1>6, <2>1, <2>2 DEF FramePlace
  <1>7. CASE s = <<>> /\ k = 1 /\ Fresh(t[k], manifest.top, <<>>, clock.ran)
    <2>1. t[k].prefix = <<>> /\ Len(<<>>) = 0
      BY <1>7 DEF Fresh
    <2>. QED  BY <1>7, <2>1 DEF FramePlace, Descends
  <1>8. CASE /\ k = Len(s) + 1
             /\ \E i, list, state : Enters(i, list, state) /\ Fresh(t[k], list, Under(Top, i), clock.ran)
    <2>1. PICK i, list, state : Enters(i, list, state) /\ t[k].prefix = Under(Top, i)
      BY <1>8 DEF Fresh
    <2>2. PICK f, S : f = Top /\ S = settled
      OBVIOUS
    <2>3. /\ i \in Nat /\ TurnOf(f.list[f.at], Under(f, 0), i, D) /\ FrameOK(f, S) /\ InList(f)
          /\ manifest \in Manifests /\ InWalk
      BY <2>1, <2>2, EntersTurn
    <2>4. n \in Nat \ {0} /\ f = s[n]
      BY <1>2, <2>2, <2>3, WalkStack
    <2>5. FramePlace(s, n, decided)
      BY <1>2, <2>4 DEF PlaceInv
    <2>6. k = n + 1 /\ \A h \in 1 .. n : t[h] = s[h]
      <3>1. k = n + 1
        BY <1>2, <1>8
      <3>2. \A h \in 1 .. n : h \in 1 .. k /\ h # m
        BY <1>3, <3>1
      <3>. QED  BY <1>4, <3>1, <3>2
    <2>7. PICK E0 : E0 = decided
      OBVIOUS
    <2>8. f = s[n] /\ n \in Nat \ {0} /\ FrameOK(f, S) /\ InList(f) /\ manifest \in Manifests
      BY <2>3, <2>4
    <2>9. FramePlace(s, n, E0) /\ E0 \subseteq D
      BY <1>1, <2>5, <2>7
    <2>10. i \in Nat /\ TurnOf(f.list[f.at], Under(f, 0), i, D)
      BY <2>3
    <2>11. t[k].prefix = Under(f, i)
      BY <2>1, <2>2, <2>3
    <2>12. k = n + 1 /\ \A h \in 1 .. n : t[h] = s[h]
      BY <2>6
    <2>13. Grows(s, n, f, E0, D, i, t) /\ manifest \in Manifests
      BY <2>8, <2>9, <2>10, <2>11, <2>12 DEF Grows
    <2>14. FramePlace(t, k, D)
      BY <2>12, <2>13, PlaceUnder
    <2>. QED  BY <2>14
  <1>9. CASE /\ s # <<>> /\ k = Len(s)
             /\ \E i, loop, state : Repeats(i, loop, state) /\ Fresh(t[k], Top.list, NextPrefix(i), Top.since)
    <2>1. PICK i, loop, state : Repeats(i, loop, state) /\ t[k].prefix = NextPrefix(i)
      BY <1>9 DEF Fresh
    <2>2. PICK f, S : f = Last(Front(walk.stack)) /\ S = settled
      OBVIOUS
    <2>3. i \in Nat /\ NextPrefix(i) = Under(f, i) /\ TurnOf(f.list[f.at], Under(f, 0), i, D)
      BY <1>1, <2>1, <2>2, RepeatsUnder
    <2>4. PICK r \in Nat \ {0} : r = n - 1 /\ f = s[r] /\ FrameOK(f, S) /\ InList(f) /\ manifest \in Manifests
      <3>1. Returning
        BY <2>1 DEF Repeats
      <3>2. /\ manifest \in Manifests /\ FrameOK(f, settled) /\ InList(f)
            /\ Len(walk.stack) - 1 \in Nat \ {0} /\ f = walk.stack[Len(walk.stack) - 1]
        BY <2>2, <3>1, CalledFrom
      <3>. QED  BY <1>2, <2>2, <3>2
    <2>5. FramePlace(s, r, decided)
      <3>0. r = n - 1 /\ r \in Nat \ {0}
        BY <2>4
      <3>1. r \in 1 .. n
        BY <3>0
      <3>2. r \in 1 .. Len(walk.stack)
        BY <1>2, <3>1
      <3>. QED  BY <3>2 DEF PlaceInv
    <2>6. k = r + 1 /\ \A h \in 1 .. r : t[h] = s[h]
      <3>1. k = r + 1
        BY <1>2, <1>9, <2>4
      <3>2. \A h \in 1 .. r : h \in 1 .. k /\ h # m
        BY <1>3, <2>4, <3>1
      <3>. QED  BY <1>4, <3>1, <3>2
    <2>7. PICK E0 : E0 = decided
      OBVIOUS
    <2>8. f = s[r] /\ r \in Nat \ {0} /\ FrameOK(f, S) /\ InList(f) /\ manifest \in Manifests
      BY <2>3, <2>4
    <2>9. FramePlace(s, r, E0) /\ E0 \subseteq D
      BY <1>1, <2>5, <2>7
    <2>10. i \in Nat /\ TurnOf(f.list[f.at], Under(f, 0), i, D)
      BY <2>3
    <2>11. t[k].prefix = Under(f, i)
      BY <2>1, <2>2, <2>3
    <2>12. k = r + 1 /\ \A h \in 1 .. r : t[h] = s[h]
      BY <2>6
    <2>13. Grows(s, r, f, E0, D, i, t) /\ manifest \in Manifests
      BY <2>8, <2>9, <2>10, <2>11, <2>12 DEF Grows
    <2>14. FramePlace(t, k, D)
      BY <2>12, <2>13, PlaceUnder
    <2>. QED  BY <2>14
  <1>10. FrameFrom(k, s, t)
    BY FramesFrom
  <1>. QED  BY <1>6, <1>7, <1>8, <1>9, <1>10 DEF FrameFrom

LEMMA PlaceStep ==
  ASSUME WalkInv, PlaceInv, [WalkNext]_walkVars
  PROVE  PlaceInv' /\ Shape
  <1>1. WalkInv' /\ Shape /\ UNCHANGED manifest
    <2>1. UNCHANGED manifest
      BY DEF WalkNext, Start, ListEnds, RunTimesOut, GuardFails, SkipStep, PassDone, EffectStep, WaitStep,
             AskStep, ConditionStep, ForEachStep, ReturnResult, IterationEnds, WalkEnds, StatementThrows,
             TimePasses, Decide, walkVars
    <2>. QED  BY <2>1, WalkStep, StepShapes DEF PlaceInv
  <1>2. PICK t, D, E : t = walk'.stack /\ D = decided' /\ E = decided'
    OBVIOUS
  <1>3. \A k \in 1 .. Len(t) : FramePlace(t, k, D)
    BY <1>1, <1>2, FramePlaceStep
  <1>4. \A d \in D : DecidedOK(d)
    BY <1>1, <1>2, DecidedStep
  <1>5. \A k \in 1 .. Len(t) : FramePlace(t, k, D)'
    BY <1>1, <1>3, PlaceKeeps
  <1>6. \A d \in D : DecidedOK(d)'
    BY <1>1, <1>4, PlaceKeeps
  <1>7. RowsTyped' /\ ClockTyped' /\ EffectsTyped' /\ walk'.ret \in Returns
    BY <1>1, RowsStep, ClockStep, EffectsStep, RetStep
  <1>8. (\A k \in 1 .. Len(walk.stack) : FramePlace(walk.stack, k, decided))'
    BY <1>2, <1>5
  <1>9. (\A d \in decided : DecidedOK(d))'
    BY <1>2, <1>6
  <1>. QED  BY <1>1, <1>7, <1>8, <1>9 DEF PlaceInv

LEMMA PlaceStarts == WalkInit => PlaceInv
  BY DEF WalkInit, PlaceInv, RowsTyped, ClockTyped, EffectsTyped, EmptyMap, NoWalk, Walking, Returns

LEMMA PlaceHolds == WalkSpec => [](WalkInv /\ PlaceInv)
  BY PlaceStarts, PlaceStep, WalkHolds, PTL DEF WalkSpec


----------------------------------------------------------------------------
(* The state of the run, in memory or at rest *)

StateNow == IF InWalk THEN walk.state ELSE run.state

(* A step that neither ends a step of the manifest nor changes what is known   *)
(* of one.                                                                    *)
Quiet ==
  \/ Start \/ ListEnds \/ RunTimesOut \/ GuardFails \/ Passes
  \/ \E n, list, state : Enters(n, list, state)
  \/ \E n, loop, state : Repeats(n, loop, state)
  \/ WalkEnds \/ StatementThrows \/ TimePasses \/ Decide \/ UNCHANGED walkVars

LEMMA StackKept ==
  ASSUME WalkInv, InWalk, NEW t, Stays(walk.stack, t), Len(t) = Len(walk.stack)
  PROVE  t # <<>>
  <1>1. PICK n \in Nat \ {0} : n = Len(walk.stack)
    BY WalkStack
  <1>2. Len(<<>>) = 0
    OBVIOUS
  <1>. QED  BY <1>1, <1>2

LEMMA QuietState ==
  ASSUME WalkInv, PlaceInv, Quiet, NEW st, NEW st2, st = StateNow, st2 = StateNow'
  PROVE  st2.status = st.status /\ st2.done = st.done /\ st2.elapsed = st.elapsed /\ settled' = settled
  <1>0. DOMAIN walk = {"stack", "state", "ret"} /\ DOMAIN run = {"status", "state"}
    BY DEF WalkInv, WalkOK
  <1>1. CASE Start
    <2>1. Frame(manifest.top, <<>>, clock.ran, NoLoop) = <<Frame(manifest.top, <<>>, clock.ran, NoLoop)>>[1]
      OBVIOUS
    <2>2. walk'.stack # <<>> /\ walk'.state = run.state /\ ~InWalk /\ settled' = settled
      BY <1>1 DEF Start, Walking
    <2>. QED  BY <2>2 DEF StateNow, InWalk
  <1>2. CASE ListEnds \/ RunTimesOut \/ GuardFails
    <2>1. \E ret : walk' = [walk EXCEPT !.ret = ret]
      BY <1>2 DEF ListEnds, RunTimesOut, GuardFails
    <2>2. walk'.stack = walk.stack /\ walk'.state = walk.state /\ settled' = settled /\ run' = run
      BY <1>0, <1>2, <2>1 DEF ListEnds, RunTimesOut, GuardFails
    <2>. QED  BY <2>2 DEF StateNow, InWalk
  <1>3. CASE Passes
    <2>1. PICK T : walk.stack \in Seq(T) /\ walk.stack # <<>>
      BY <1>3, WalkStack DEF Passes, AtStepOf, InWalk
    <2>2. PICK g : walk'.stack = OnTop(walk.stack, g) /\ walk'.state = walk.state
      BY <1>0, <1>3 DEF Passes
    <2>3. walk'.stack # <<>>
      BY <2>1, <2>2, OnTopIs
    <2>. QED  BY <1>3, <2>1, <2>2, <2>3 DEF StateNow, InWalk, Passes, OnlyWalk
  <1>4. CASE \E n, list, state : Enters(n, list, state)
    <2>1. PICK n, list, state : Enters(n, list, state)
      BY <1>4
    <2>2. PICK T : walk.stack \in Seq(T) /\ walk.stack # <<>>
      BY <2>1, WalkStack DEF Enters, AtStepOf, InWalk
    <2>3. PICK g : walk' = Walking(Append(walk.stack, g), state, "none") /\ settled' = settled
      BY <2>1 DEF Enters
    <2>4. walk'.stack # <<>> /\ walk'.state = state
      BY <2>2, <2>3, AppendIs DEF Walking
    <2>5. state.status = walk.state.status /\ state.done = walk.state.done /\ state.elapsed = walk.state.elapsed
      <3>1. DOMAIN walk.state = StateFields
        BY DEF WalkInv, WalkOK, StateOK
      <3>2. state = walk.state \/ \E x : state = [walk.state EXCEPT !.iteration = x]
        BY <2>1 DEF Enters
      <3>. QED  BY <3>1, <3>2 DEF StateFields
    <2>. QED  BY <2>2, <2>3, <2>4, <2>5 DEF StateNow, InWalk
  <1>5. CASE \E n, loop, state : Repeats(n, loop, state)
    <2>1. PICK n, loop, state : Repeats(n, loop, state)
      BY <1>5
    <2>2. PICK T : walk.stack \in Seq(T) /\ walk.stack # <<>>
      BY <2>1, WalkStack DEF Repeats, Returning, InWalk
    <2>3. PICK g : walk' = Walking(OnTop(walk.stack, g), state, "none") /\ settled' = settled
      BY <2>1 DEF Repeats, OnlyWalk
    <2>4. walk'.stack # <<>> /\ walk'.state = state
      BY <2>2, <2>3, OnTopIs DEF Walking
    <2>5. state.status = walk.state.status /\ state.done = walk.state.done /\ state.elapsed = walk.state.elapsed
      BY <2>1 DEF Repeats
    <2>. QED  BY <2>2, <2>3, <2>4, <2>5 DEF StateNow, InWalk
  <1>6. CASE WalkEnds
    BY <1>6 DEF WalkEnds, NoWalk, Walking, StateNow, InWalk
  <1>7. CASE StatementThrows
    <2>1. InWalk /\ settled' = settled
      BY <1>7 DEF StatementThrows, ToExecute, AtStepOf
    <2>2. \/ run'.state = walk.state /\ walk' = NoWalk
          \/ walk' = [walk EXCEPT !.ret = "failed"]
      BY <1>7 DEF StatementThrows
    <2>3. CASE walk' = [walk EXCEPT !.ret = "failed"]
      BY <1>0, <2>1, <2>3 DEF StateNow, InWalk
    <2>. QED  BY <2>1, <2>2, <2>3 DEF NoWalk, Walking, StateNow, InWalk
  <1>8. CASE TimePasses \/ Decide \/ UNCHANGED walkVars
    <2>1. walk' = walk /\ run'.state = run.state /\ settled' = settled
      BY <1>0, <1>8 DEF TimePasses, Decide, walkVars
    <2>. QED  BY <2>1 DEF StateNow, InWalk
  <1>. QED  BY <1>1, <1>2, <1>3, <1>4, <1>5, <1>6, <1>7, <1>8 DEF Quiet

LEMMA StopsState ==
  ASSUME WalkInv, PlaceInv, NEW result, NEW state, NEW t, NEW row, Stops(result, state, t, row),
         NEW st, NEW st2, st = StateNow, st2 = StateNow'
  PROVE  Writes(st, st2, Here, result, t) /\ InWalk /\ InWalk'
  <1>1. PICK w, p : w = walk' /\ p = Here
    OBVIOUS
  <1>2. w = Finished(walk.stack, state, p, result, 0, t) /\ AtStepOf /\ t \in 0 .. 1
    BY <1>1 DEF Stops
  <1>3. w.stack # <<>>
    BY <1>1, <1>2, StopsStays, StackKept DEF AtStepOf
  <1>4. st = walk.state /\ st2 = w.state /\ InWalk /\ InWalk'
    BY <1>1, <1>2, <1>3 DEF StateNow, InWalk, AtStepOf
  <1>5. /\ DOMAIN state = StateFields /\ state.done = walk.state.done /\ state.status = walk.state.status
        /\ state.elapsed = walk.state.elapsed
    BY DEF Stops
  <1>6. t - 0 = t
    BY <1>2
  <1>7. Writes(state, w.state, p, result, t)
    <2>1. PICK s : s = walk.stack
      OBVIOUS
    <2>2. PICK since, ran : since = 0 /\ ran = t
      OBVIOUS
    <2>3. Writes(state, w.state, p, result, ran - since)
      BY <1>2, <1>5, <2>1, <2>2, FinishedState
    <2>4. ran - since = t
      BY <1>6, <2>2
    <2>. QED  BY <2>3, <2>4
  <1>. QED  BY <1>1, <1>4, <1>5, <1>7 DEF Writes

LEMMA LeavesState ==
  ASSUME WalkInv, PlaceInv, NEW result, NEW state, Leaves(result, state),
         NEW st, NEW st2, st = StateNow, st2 = StateNow'
  PROVE  Writes(st, st2, OwnerPath(Top), result, clock.ran - Top.since) /\ InWalk /\ InWalk'
  <1>1. PICK w, p, s : w = walk' /\ p = OwnerPath(Top) /\ s = Front(walk.stack)
    OBVIOUS
  <1>2. PICK since, ran : since = Top.since /\ ran = clock.ran
    OBVIOUS
  <1>3. w = Finished(s, state, p, result, since, ran) /\ Returning
    BY <1>1, <1>2 DEF Leaves, OwnerEnds
  <1>4. PICK n \in Nat \ {0} : n = Len(walk.stack) - 1 /\ Len(w.stack) = n
    BY <1>1, <1>3, CalledFrom, LeavesStays
  <1>5. w.stack # <<>>
    <2>1. Len(<<>>) = 0
      OBVIOUS
    <2>. QED  BY <1>4, <2>1
  <1>6. st = walk.state /\ st2 = w.state /\ InWalk /\ InWalk'
    BY <1>1, <1>3, <1>5 DEF StateNow, InWalk, Returning
  <1>7. /\ DOMAIN state = StateFields /\ state.done = walk.state.done /\ state.status = walk.state.status
        /\ state.elapsed = walk.state.elapsed
    BY DEF Leaves
  <1>8. Writes(state, w.state, p, result, ran - since)
    BY <1>3, <1>7, FinishedState
  <1>9. Writes(st, w.state, p, result, ran - since)
    BY <1>6, <1>7, <1>8 DEF Writes
  <1>. QED  BY <1>1, <1>2, <1>6, <1>9

----------------------------------------------------------------------------
(* What a condition was told of an effect of the top level *)

Alone(id) ==
  /\ Step(id).kind = "effect"
  /\ \A x \in DOMAIN manifest.step : ~Contains(Step(x).then, id) /\ ~Contains(Step(x).else, id)
OfId(id) == <<<<id, 0>>>>

(* The effect failed; and was executed again. *)
FailedOnce(id, E, R) ==
  LET q == OfId(id)
  IN /\ q \in DOMAIN E /\ E[q].bad > 0
     /\ q \in DOMAIN R /\ (R[q].status = "failed" \/ R[q].attempt > 1)
Retried(id, E, R) ==
  LET q == OfId(id)
  IN q \in DOMAIN E /\ E[q].bad > 0 /\ q \in DOMAIN R /\ R[q].attempt > 1

(* The status the state has for a settled effect is what the effect came to. *)
Told(id, st, S, E, R) ==
  OfId(id) \in S =>
    /\ id \in DOMAIN st.status
    /\ \/ st.status[id] \in {"succeeded", "skipped"} /\ OfId(id) \in st.done
       \/ st.status[id] = "failed" /\ FailedOnce(id, E, R)

(* What a condition decided for agrees with the status, or the effect was       *)
(* executed again.                                                            *)
Answers(id, n, st, S, E, R) ==
  /\ OfId(id) \in S
  /\ n = 1 => At(st.status, id, "none") = "succeeded"
  /\ n = 2 => At(st.status, id, "none") # "succeeded" \/ Retried(id, E, R)

Asked(d) == StepOf(d[1]).on
Asks(d) == Asked(d) \notin {"always", "never", "bad"} /\ Precedes(Asked(d), d[1])

AloneInv ==
  /\ \A id : Alone(id) => Told(id, StateNow, settled, effects, stepRows)
  /\ \A d \in decided : Asks(d) => Answers(Asked(d), d[2], StateNow, settled, effects, stepRows)

(* The only list with such an id is that of the top level. *)
LEMMA AloneTop ==
  ASSUME WalkInv, PlaceInv, AtStepOf, NEW id, Alone(id), Top.list[Top.at] = id
  PROVE  Here = OfId(id)
  <1>1. PICK f, g, S, n : f = Top /\ S = settled /\ n = Len(walk.stack) /\ g = walk.stack[n - 1]
    OBVIOUS
  <1>2. /\ FrameOK(f, S) /\ InList(f) /\ f = walk.stack[n] /\ n \in Nat \ {0} /\ f = Last(walk.stack)
        /\ StackOK(walk.stack, S) /\ walk.stack # <<>> /\ manifest \in Manifests
    BY <1>1, Standing, WalkStack DEF WalkInv, AtStepOf
  <1>3. FramePlace(walk.stack, n, decided)
    BY <1>1, <1>2 DEF PlaceInv
  <1>4. Len(f.prefix) = n - 1 /\ f.prefix \in Paths
    BY <1>2, <1>3 DEF FramePlace, FrameOK
  <1>5. n = 1
    <2>1. SUFFICES ASSUME n # 1 PROVE FALSE
      OBVIOUS
    <2>2. Calls(g, f) /\ n - 1 \in 1 .. n
      <3>1. n - 1 \in 1 .. n
        BY <1>2, <2>1
      <3>2. PICK stack : stack = walk.stack
        OBVIOUS
      <3>3. Len(stack) # 1 => Calls(stack[Len(stack) - 1], Last(stack))
        BY <1>2, <3>2, StackTop
      <3>. QED  BY <1>1, <1>2, <2>1, <3>1, <3>2, <3>3
    <2>3. FrameOK(g, S) /\ InList(g) /\ f.prefix # <<>>
      BY <1>1, <1>2, <2>2 DEF StackOK, Calls
    <2>4. PICK i \in Nat : f.prefix = Under(g, i)
      BY <1>2, <2>2, <2>3, CallsUnder
    <2>5. PICK x : x = g.list[g.at] /\ Last(f.prefix) = <<x, i>> /\ x \in DOMAIN manifest.step
      BY <1>2, <2>3, <2>4, BeforeHere
    <2>6. Last(f.prefix)[1] = x
      BY <2>5
    <2>7. f.list = Step(x).then \/ f.list = Step(x).else
      BY <1>2, <2>3, <2>6 DEF FrameOK, ListBelow, BranchList
    <2>8. \E k \in 1 .. Len(f.list) : f.list[k] = id
      BY <1>1, <1>2 DEF InList
    <2>9. Contains(f.list, id)
      BY <2>8 DEF Contains
    <2>. QED  BY <2>5, <2>7, <2>9 DEF Alone
  <1>6. f.prefix = <<>>
    BY <1>4, <1>5, EmptySeq DEF Paths
  <1>7. Here = Append(<<>>, <<id, 0>>)
    BY <1>1, <1>6 DEF Here
  <1>. QED  BY <1>7 DEF OfId

(* Rows: a failed step that starts again has another attempt. *)
Kept(q, R, R2) ==
  q \in DOMAIN R =>
    /\ q \in DOMAIN R2 /\ R2[q].attempt \in Nat /\ R2[q].attempt >= R[q].attempt
    /\ R[q].status = "failed" => R2[q].status = "failed" \/ R2[q].attempt > 1

LEMMA NextRowKeeps ==
  ASSUME RowsTyped, NEW p, NEW row, NEW status, NextRow(p, row, status), NEW R2, R2 = Extend(stepRows, p, row), NEW q
  PROVE  Kept(q, stepRows, R2) /\ p \in DOMAIN R2 /\ R2[p] = row
  <1>1. p \in DOMAIN R2 /\ R2[p] = row
    BY DEF Extend
  <1>2. CASE q = p
    <2>1. ASSUME p \in DOMAIN stepRows
          PROVE  /\ row.attempt \in Nat /\ row.attempt >= stepRows[p].attempt
                 /\ stepRows[p].status = "failed" => row.attempt > 1
      <3>1. PICK a \in Nat \ {0}, b \in Nat \ {0} : a = row.attempt /\ b = stepRows[p].attempt
        BY <2>1 DEF RowsTyped, NextRow
      <3>2. a = b + 1 \/ (stepRows[p].status \in OpenRow /\ a = b)
        BY <2>1, <3>1 DEF NextRow
      <3>. QED  BY <3>1, <3>2 DEF OpenRow
    <2>. QED  BY <1>1, <1>2, <2>1 DEF Kept
  <1>3. CASE q # p
    <2>1. q \in DOMAIN stepRows => q \in DOMAIN R2 /\ R2[q] = stepRows[q] /\ stepRows[q].attempt \in Nat
      BY <1>3 DEF Extend, RowsTyped
    <2>2. \A a \in Nat : a >= a
      OBVIOUS
    <2>. QED  BY <1>1, <2>1, <2>2 DEF Kept
  <1>. QED  BY <1>1, <1>2, <1>3

LEMMA RowSetKeeps ==
  ASSUME RowsTyped, NEW p, NEW status, NEW q, q # p \/ (p \in DOMAIN stepRows /\ stepRows[p].status # "failed"),
         NEW R2, R2 = RowSet(p, status)
  PROVE  Kept(q, stepRows, R2)
  <1>1. PICK row : /\ R2 = Extend(stepRows, p, row) /\ row.attempt \in Nat \ {0}
                   /\ p \in DOMAIN stepRows => row.attempt = stepRows[p].attempt
    BY RowSetIs
  <1>. QED  BY <1>1 DEF Extend, Kept, RowsTyped

LEMMA KeptSelf == ASSUME RowsTyped, NEW q PROVE Kept(q, stepRows, stepRows)
  <1>1. \A a \in Nat : a >= a
    OBVIOUS
  <1>. QED  BY <1>1 DEF RowsTyped, Kept

(* A step that is not the effect's own leaves all that is known of it.        *)
Still(id, st, st2, S, S2, E, E2, R, R2) ==
  LET q == OfId(id)
  IN /\ id \in DOMAIN st2.status <=> id \in DOMAIN st.status
     /\ id \in DOMAIN st.status => st2.status[id] = st.status[id]
     /\ q \in S2 <=> q \in S
     /\ st.done \subseteq st2.done
     /\ q \in DOMAIN E => q \in DOMAIN E2 /\ (E[q].bad > 0 => E2[q].bad > 0)
     /\ Kept(q, R, R2)

LEMMA StillTold ==
  ASSUME NEW id, NEW st, NEW st2, NEW S, NEW S2, NEW E, NEW E2, NEW R, NEW R2,
         Still(id, st, st2, S, S2, E, E2, R, R2),
         \A p \in DOMAIN R : R[p].attempt \in Nat
  PROVE  /\ Told(id, st, S, E, R) => Told(id, st2, S2, E2, R2)
         /\ \A n : Answers(id, n, st, S, E, R) => Answers(id, n, st2, S2, E2, R2)
  <1>1. PICK q : q = OfId(id)
    OBVIOUS
  <1>2. ASSUME q \in DOMAIN R
        PROVE  /\ q \in DOMAIN R2 /\ (R[q].attempt > 1 => R2[q].attempt > 1)
               /\ R[q].status = "failed" => R2[q].status = "failed" \/ R2[q].attempt > 1
    <2>1. Kept(q, R, R2) /\ R[q].attempt \in Nat
      BY <1>1, <1>2 DEF Still
    <2>2. PICK a \in Nat, b \in Nat : a = R[q].attempt /\ b = R2[q].attempt
      BY <1>2, <2>1 DEF Kept
    <2>3. b >= a
      BY <1>2, <2>1, <2>2 DEF Kept
    <2>4. a > 1 => b > 1
      BY <2>3
    <2>. QED  BY <1>2, <2>1, <2>2, <2>4 DEF Kept
  <1>3. FailedOnce(id, E, R) => FailedOnce(id, E2, R2)
    BY <1>1, <1>2 DEF FailedOnce, Still
  <1>4. Retried(id, E, R) => Retried(id, E2, R2)
    BY <1>1, <1>2 DEF Retried, Still
  <1>5. /\ id \in DOMAIN st2.status <=> id \in DOMAIN st.status
        /\ id \in DOMAIN st.status => st2.status[id] = st.status[id]
        /\ q \in S2 <=> q \in S
        /\ st.done \subseteq st2.done
    BY <1>1 DEF Still
  <1>6. At(st2.status, id, "none") = At(st.status, id, "none")
    BY <1>5 DEF At
  <1>. QED  BY <1>1, <1>3, <1>4, <1>5, <1>6 DEF Told, Answers

(* Which steps are not its own. *)
LEMMA ThrowRows ==
  ASSUME WalkInv, PlaceInv, StatementThrows
  PROVE  /\ \A q : Kept(q, stepRows, stepRows')
         /\ \A q \in DOMAIN effects : q \in DOMAIN effects' /\ effects'[q].bad = effects[q].bad
  <1>1. RowsTyped /\ EffectsTyped /\ stepRows' = RowStarted(Here)
    BY DEF PlaceInv, StatementThrows
  <1>2. PICK p : p = Here
    OBVIOUS
  <1>3. PICK row : RowStarted(p) = Extend(stepRows, p, row) /\ NextRow(p, row, "running")
    BY <1>1, RowStartedIs
  <1>4. PICK running : running = "running"
    OBVIOUS
  <1>5. NextRow(p, row, running) /\ stepRows' = Extend(stepRows, p, row)
    BY <1>1, <1>2, <1>3, <1>4
  <1>6. \A q : Kept(q, stepRows, stepRows')
    BY <1>1, <1>5, NextRowKeeps
  <1>7. PICK e : e = At(effects, p, [ok |-> 0, bad |-> 0])
    OBVIOUS
  <1>8. effects' = effects \/ effects' = Extend(effects, p, [e EXCEPT !.ok = @ + 1])
    BY <1>2, <1>7 DEF StatementThrows
  <1>9. p \in DOMAIN effects => e = effects[p] /\ DOMAIN e = {"ok", "bad"}
    BY <1>1, <1>7 DEF At, EffectsTyped
  <1>10. \A q \in DOMAIN effects : q \in DOMAIN effects' /\ effects'[q].bad = effects[q].bad
    <2>1. PICK e2 : e2 = [e EXCEPT !.ok = @ + 1]
      OBVIOUS
    <2>2. p \in DOMAIN effects => e2.bad = effects[p].bad
      BY <1>9, <2>1
    <2>. QED  BY <1>8, <2>1, <2>2 DEF Extend
  <1>. QED  BY <1>6, <1>10

LEMMA DecideRows ==
  ASSUME WalkInv, PlaceInv, Decide, NEW q
  PROVE  Kept(q, stepRows, stepRows')
  <1>1. RowsTyped
    BY DEF PlaceInv
  <1>2. CASE stepRows' = stepRows
    BY <1>1, <1>2, KeptSelf
  <1>3. CASE stepRows' # stepRows
    <2>1. PICK p \in DOMAIN tasks, verdict \in {"approved", "rejected", "timeout"} :
            stepRows' = IF stepRows[p].status # "paused" THEN stepRows ELSE RowSet(p, RowDecided(p, verdict))
      BY DEF Decide
    <2>2. stepRows[p].status = "paused" /\ stepRows' = RowSet(p, RowDecided(p, verdict))
      BY <1>3, <2>1
    <2>3. PICK status, R2 : status = RowDecided(p, verdict) /\ R2 = RowSet(p, status)
      OBVIOUS
    <2>4. CASE q # p \/ p \in DOMAIN stepRows
      BY <1>1, <2>2, <2>3, <2>4, RowSetKeeps
    <2>5. CASE q = p /\ p \notin DOMAIN stepRows
      BY <2>5 DEF Kept
    <2>. QED  BY <2>4, <2>5
  <1>. QED  BY <1>2, <1>3

LEMMA QuietStill ==
  ASSUME WalkInv, PlaceInv, Quiet, NEW id, NEW st, NEW st2, st = StateNow, st2 = StateNow',
         NEW S2, NEW E2, NEW R2, S2 = settled', E2 = effects', R2 = stepRows'
  PROVE  Still(id, st, st2, settled, S2, effects, E2, stepRows, R2)
  <1>1. st2.status = st.status /\ st2.done = st.done /\ S2 = settled
    BY QuietState
  <1>2. RowsTyped
    BY DEF PlaceInv
  <1>3. /\ Kept(OfId(id), stepRows, R2)
        /\ \A q \in DOMAIN effects : q \in DOMAIN E2 /\ E2[q].bad = effects[q].bad
    <2>1. CASE stepRows' = stepRows /\ effects' = effects
      BY <1>2, <2>1, KeptSelf
    <2>2. CASE StatementThrows
      BY <2>2, ThrowRows
    <2>3. CASE Decide
      BY <2>3, DecideRows DEF Decide
    <2>4. CASE \E n, list, state : Enters(n, list, state)
      <3>1. stepRows' = RowStarted(Here) /\ effects' = effects
        BY <2>4 DEF Enters
      <3>2. PICK p : p = Here
        OBVIOUS
      <3>3. PICK row : RowStarted(p) = Extend(stepRows, p, row) /\ NextRow(p, row, "running")
        BY <1>2, RowStartedIs
      <3>4. PICK running : running = "running"
        OBVIOUS
      <3>5. NextRow(p, row, running) /\ R2 = Extend(stepRows, p, row)
        BY <3>1, <3>2, <3>3, <3>4
      <3>. QED  BY <1>2, <3>1, <3>5, NextRowKeeps
    <2>5. CASE \/ Start \/ ListEnds \/ RunTimesOut \/ GuardFails \/ Passes
               \/ \E n, loop, state : Repeats(n, loop, state)
               \/ WalkEnds \/ TimePasses \/ UNCHANGED walkVars
      <3>1. stepRows' = stepRows /\ effects' = effects
        BY <2>5 DEF Start, ListEnds, RunTimesOut, GuardFails, Passes, Repeats, OnlyWalk, WalkEnds,
                    TimePasses, walkVars
      <3>. QED  BY <2>1, <3>1
    <2>. QED  BY <2>2, <2>3, <2>4, <2>5 DEF Quiet
  <1>. QED  BY <1>1, <1>3 DEF Still

(* The step at p ends, and it is another one's. *)
LEMMA WritesStill ==
  ASSUME NEW st, NEW st2, NEW p, NEW result, NEW t, Writes(st, st2, p, result, t), NEW id, Last(p)[1] # id
  PROVE  /\ id \in DOMAIN st2.status <=> id \in DOMAIN st.status
         /\ id \in DOMAIN st.status => st2.status[id] = st.status[id]
         /\ st.done \subseteq st2.done
  <1>1. st.done \subseteq st2.done
    BY DEF Writes
  <1>2. st2.status = st.status \/ \E x, y : st2.status = Extend(st.status, x, y) /\ x # id
    BY DEF Writes
  <1>. QED  BY <1>1, <1>2 DEF Extend

LEMMA LeavesStill ==
  ASSUME WalkInv, PlaceInv, NEW result, NEW state, Leaves(result, state),
         NEW id, Alone(id), NEW st, NEW st2, st = StateNow, st2 = StateNow',
         NEW S2, NEW E2, NEW R2, S2 = settled', E2 = effects', R2 = stepRows'
  PROVE  Still(id, st, st2, settled, S2, effects, E2, stepRows, R2)
  <1>1. PICK f, t, p, n : /\ f = Last(Front(walk.stack)) /\ t = clock.ran - Top.since /\ p = OwnerPath(Top)
                          /\ n = Len(walk.stack)
    OBVIOUS
  <1>2. /\ Returning /\ InWalk /\ E2 = effects /\ S2 = SettledBy(p, result) /\ RowsTyped
        /\ R2 = RowSet(p, RowStatus(result))
    BY <1>1 DEF Leaves, OwnerEnds, Returning, PlaceInv
  <1>3. PICK x : x = f.list[f.at] /\ p = Under(f, 0) /\ Last(p) = <<x, 0>>
    BY <1>1, <1>2, CalledFrom
  <1>4. Last(p)[1] = x
    BY <1>3
  <1>5. Step(x).kind \in {"condition", "for_each"}
    <2>1. Top = walk.stack[n] /\ n \in Nat \ {0} /\ FramePlace(walk.stack, n, decided)
      BY <1>1, <1>2, WalkStack DEF PlaceInv
    <2>2. PICK i \in Nat : Top.prefix = Under(f, i)
      BY <1>1, <1>2, CalledFrom
    <2>3. PICK q, S : q = Under(f, i) /\ S = settled
      OBVIOUS
    <2>4. FrameOK(f, S) /\ InList(f) /\ manifest \in Manifests
      BY <1>1, <1>2, <2>3, CalledFrom
    <2>5. Len(q) = Len(f.prefix) + 1 /\ Len(f.prefix) \in Nat /\ q[Len(q)] = <<x, i>>
      BY <1>3, <2>3, <2>4, UnderLevels
    <2>6. Descends(q, Len(q), decided)
      BY <2>1, <2>2, <2>3 DEF FramePlace
    <2>7. Len(q) \in 1 .. Len(q) /\ Len(q) <= Len(q) /\ q[Len(q)][1] = x
      BY <2>5
    <2>. QED  BY <2>6, <2>7 DEF Descends, TurnOf
  <1>6. x # id
    BY <1>5 DEF Alone
  <1>7. Writes(st, st2, p, result, t)
    BY <1>1, LeavesState
  <1>8. OfId(id) # p
    <2>1. PICK q : q = OfId(id)
      OBVIOUS
    <2>2. Len(q) = 1 /\ q[1] = <<id, 0>>
      BY <2>1 DEF OfId
    <2>3. Last(q)[1] = id
      BY <2>2 DEF Last
    <2>. QED  BY <1>4, <1>6, <2>1, <2>3
  <1>9. OfId(id) \in S2 <=> OfId(id) \in settled
    BY <1>2, <1>8 DEF SettledBy
  <1>10. Kept(OfId(id), stepRows, R2)
    BY <1>2, <1>8, RowSetKeeps
  <1>. QED  BY <1>2, <1>4, <1>6, <1>7, <1>9, <1>10, WritesStill DEF Still

LEMMA StopsStill ==
  ASSUME WalkInv, PlaceInv, NEW result, NEW state, NEW t, NEW row, Stops(result, state, t, row), Outcome(result),
         NEW id, Alone(id), Here # OfId(id), NEW st, NEW st2, st = StateNow, st2 = StateNow',
         NEW S2, NEW E2, NEW R2, S2 = settled', E2 = effects', R2 = stepRows'
  PROVE  Still(id, st, st2, settled, S2, effects, E2, stepRows, R2)
  <1>1. PICK p, x : p = Here /\ x = Top.list[Top.at]
    OBVIOUS
  <1>2. /\ AtStepOf /\ S2 = SettledBy(p, result) /\ R2 = Extend(stepRows, p, row) /\ RowsTyped
        /\ NextRow(p, row, RowStatus(result))
    BY <1>1 DEF Stops, PlaceInv
  <1>3. x # id
    BY <1>1, <1>2, AloneTop
  <1>4. Last(p)[1] = x
    <2>1. PICK f, S : f = Top /\ S = settled
      OBVIOUS
    <2>2. FrameOK(f, S) /\ InList(f) /\ p = Under(f, 0) /\ manifest \in Manifests
      BY <1>1, <1>2, <2>1, Standing DEF WalkInv
    <2>3. Last(p) = <<f.list[f.at], 0>>
      BY <2>2, BeforeHere
    <2>. QED  BY <1>1, <2>1, <2>3
  <1>5. Writes(st, st2, p, result, t)
    BY <1>1, StopsState
  <1>6. OfId(id) \in S2 <=> OfId(id) \in settled
    BY <1>1, <1>2 DEF SettledBy
  <1>7. Kept(OfId(id), stepRows, R2)
    <2>1. PICK status : status = RowStatus(result)
      OBVIOUS
    <2>. QED  BY <1>2, <2>1, NextRowKeeps
  <1>8. OfId(id) \in DOMAIN effects => OfId(id) \in DOMAIN E2 /\ E2[OfId(id)] = effects[OfId(id)]
    <2>1. E2 = effects \/ \E e : E2 = Extend(effects, p, e)
      BY <1>1 DEF Outcome, EffectStep
    <2>. QED  BY <1>1, <2>1 DEF Extend
  <1>. QED  BY <1>3, <1>4, <1>5, <1>6, <1>7, <1>8, WritesStill DEF Still

(* The effect itself ends. *)
LEMMA OwnEnd ==
  ASSUME WalkInv, PlaceInv, NEW result, NEW state, NEW t, NEW row, Stops(result, state, t, row), Outcome(result),
         NEW id, Alone(id), Here = OfId(id), NEW q, q = OfId(id), NEW E2, NEW R2, E2 = effects', R2 = stepRows'
  PROVE  \/ result = "skipped" /\ E2 = effects
         \/ result = "completed" /\ (q \in DOMAIN effects => q \in DOMAIN E2 /\ E2[q].bad = effects[q].bad)
         \/ result = "failed" /\ q \in DOMAIN E2 /\ E2[q].bad > 0 /\ R2[q].status = "failed"
  <1>1. q[Len(q)] = <<id, 0>>
    BY DEF OfId
  <1>2. Last(q)[1] = id
    BY <1>1 DEF Last
  <1>3. StepOf(Here).kind = "effect"
    BY <1>2 DEF Alone, StepOf
  <1>4. \/ result = "skipped" /\ UNCHANGED effects
        \/ EffectStep /\ result \in {"completed", "failed"}
    BY <1>3 DEF Outcome, WaitStep, AskStep, ConditionStep, ForEachStep, ToExecute
  <1>5. CASE EffectStep /\ result \in {"completed", "failed"}
    <2>1. PICK e : e = At(effects, q, [ok |-> 0, bad |-> 0])
      OBVIOUS
    <2>2. DOMAIN e = {"ok", "bad"} /\ e.bad \in Nat /\ (q \in DOMAIN effects => e = effects[q])
      BY <2>1 DEF PlaceInv, EffectsTyped, At
    <2>3. PICK ok \in BOOLEAN, u \in 0 .. 1 :
            /\ EndsHere(IF ok THEN "completed" ELSE "failed", walk.state, u)
            /\ E2 = Extend(effects, q, IF ok THEN [e EXCEPT !.ok = @ + 1] ELSE [e EXCEPT !.bad = @ + 1])
      BY <1>5, <2>1 DEF EffectStep
    <2>4. PICK r2 : r2 = IF ok THEN "completed" ELSE "failed"
      OBVIOUS
    <2>5. R2 = RowEnded(q, r2) /\ RowsTyped
      BY <2>3, <2>4 DEF EndsHere, PlaceInv
    <2>6. PICK row2 : R2 = Extend(stepRows, q, row2) /\ NextRow(q, row2, RowStatus(r2))
      BY <2>5, RowEndedIs
    <2>7. R2[q].status = RowStatus(r2)
      BY <2>6 DEF Extend, NextRow
    <2>8. R2[q].status = RowStatus(result)
      BY DEF Stops, NextRow, Extend
    <2>9. ok <=> result = "completed"
      BY <1>5, <2>4, <2>7, <2>8 DEF RowStatus
    <2>10. CASE ok
      <3>1. PICK e2 : e2 = [e EXCEPT !.ok = @ + 1]
        OBVIOUS
      <3>2. e2.bad = e.bad /\ E2 = Extend(effects, q, e2)
        BY <2>2, <2>3, <2>10, <3>1
      <3>. QED  BY <2>2, <2>9, <2>10, <3>2 DEF Extend
    <2>11. CASE ~ok
      <3>0. PICK b \in Nat : b = e.bad
        BY <2>2
      <3>1. PICK e2 : e2 = [e EXCEPT !.bad = @ + 1]
        OBVIOUS
      <3>2. e2.bad = b + 1 /\ E2 = Extend(effects, q, e2)
        BY <2>2, <2>3, <2>11, <3>0, <3>1
      <3>3. q \in DOMAIN E2 /\ E2[q].bad > 0
        BY <3>2 DEF Extend
      <3>. QED  BY <1>5, <2>8, <2>9, <2>11, <3>3 DEF RowStatus
    <2>. QED  BY <2>10, <2>11
  <1>. QED  BY <1>4, <1>5

LEMMA OwnTold ==
  ASSUME WalkInv, PlaceInv, NEW result, NEW state, NEW t, NEW row, Stops(result, state, t, row), Outcome(result),
         NEW id, Alone(id), Here = OfId(id), NEW st, NEW st2, st = StateNow, st2 = StateNow',
         NEW S2, NEW E2, NEW R2, S2 = settled', E2 = effects', R2 = stepRows',
         Told(id, st, settled, effects, stepRows)
  PROVE  /\ Told(id, st2, S2, E2, R2)
         /\ \A n : Answers(id, n, st, settled, effects, stepRows) => Answers(id, n, st2, S2, E2, R2)
  <1>1. PICK q : q = OfId(id)
    OBVIOUS
  <1>2. /\ \/ result = "skipped" /\ E2 = effects
           \/ result = "completed" /\ (q \in DOMAIN effects => q \in DOMAIN E2 /\ E2[q].bad = effects[q].bad)
           \/ result = "failed" /\ q \in DOMAIN E2 /\ E2[q].bad > 0 /\ R2[q].status = "failed"
        /\ q \notin st.done /\ settled \subseteq S2 /\ R2 = Extend(stepRows, q, row)
        /\ NextRow(q, row, RowStatus(result)) /\ RowsTyped
    <2>1. /\ settled' = SettledBy(q, result) /\ q \notin walk.state.done /\ stepRows' = Extend(stepRows, q, row)
          /\ NextRow(q, row, RowStatus(result)) /\ RowsTyped
      BY <1>1 DEF Stops, PlaceInv
    <2>2. st = walk.state
      BY StopsState DEF StateNow
    <2>3. settled \subseteq S2
      BY <2>1 DEF SettledBy
    <2>. QED  BY <1>1, <2>1, <2>2, <2>3, OwnEnd
  <1>3. Last(q)[1] = id
    <2>1. q[Len(q)] = <<id, 0>>
      BY <1>1 DEF OfId
    <2>. QED  BY <2>1 DEF Last
  <1>4. Writes(st, st2, q, result, t)
    BY <1>1, StopsState
  <1>5. /\ id \in DOMAIN st2.status /\ st2.status[id] = SettlesAs(result)
        /\ result \in {"completed", "skipped"} => q \in st2.done
    BY <1>2, <1>3, <1>4 DEF Writes, Extend
  <1>6. At(st2.status, id, "none") = SettlesAs(result)
    BY <1>5 DEF At
  <1>7. q \in DOMAIN R2 /\ R2[q] = row
    BY <1>2 DEF Extend
  <1>8. Told(id, st2, S2, E2, R2)
    BY <1>1, <1>2, <1>5, <1>7 DEF Told, SettlesAs, FailedOnce
  <1>9. ASSUME NEW n, Answers(id, n, st, settled, effects, stepRows)
        PROVE  Answers(id, n, st2, S2, E2, R2)
    <2>1. /\ q \in settled /\ id \in DOMAIN st.status /\ st.status[id] = "failed"
          /\ FailedOnce(id, effects, stepRows)
      BY <1>1, <1>2, <1>9 DEF Answers, Told
    <2>2. q \in S2 /\ n # 1
      BY <1>2, <1>9, <2>1 DEF Answers, At
    <2>3. row.attempt > 1
      <3>1. q \in DOMAIN stepRows /\ (stepRows[q].status = "failed" \/ stepRows[q].attempt > 1)
        BY <1>1, <2>1 DEF FailedOnce
      <3>2. PICK a \in Nat \ {0}, b \in Nat \ {0} : a = row.attempt /\ b = stepRows[q].attempt
        BY <1>2, <3>1 DEF RowsTyped, NextRow
      <3>3. a = b + 1 \/ (stepRows[q].status \in OpenRow /\ a = b)
        BY <1>2, <3>1, <3>2 DEF NextRow
      <3>4. CASE a = b + 1
        BY <3>2, <3>4
      <3>5. CASE stepRows[q].status \in OpenRow /\ a = b
        <4>1. stepRows[q].status # "failed"
          BY <3>5 DEF OpenRow
        <4>. QED  BY <3>1, <3>2, <3>5, <4>1
      <3>. QED  BY <3>3, <3>4, <3>5
    <2>4. result = "completed" => Retried(id, E2, R2)
      BY <1>1, <1>2, <1>7, <2>1, <2>3 DEF FailedOnce, Retried
    <2>5. result # "completed" => SettlesAs(result) # "succeeded"
      BY <1>2 DEF SettlesAs
    <2>. QED  BY <1>1, <1>6, <2>2, <2>4, <2>5 DEF Answers
  <1>. QED  BY <1>8, <1>9

(* Only a condition decides. *)
LEMMA NewDecision ==
  ASSUME WalkInv, PlaceInv, Shape, NEW d, d \in decided', d \notin decided
  PROVE  /\ AtStepOf /\ StepOf(Here).kind = "condition"
         /\ d = <<Here, BranchOf(StepOf(Here), walk.state)>>
  <1>1. CASE \E result, state, t, row : Stops(result, state, t, row) /\ Outcome(result)
    <2>1. PICK result, state, t, row : Stops(result, state, t, row) /\ Outcome(result)
      BY <1>1
    <2>2. ConditionStep /\ decided' = decided \cup {<<Here, BranchOf(StepOf(Here), walk.state)>>}
      BY <2>1 DEF Outcome
    <2>. QED  BY <2>2 DEF ConditionStep, ToExecute
  <1>2. CASE \E n, list, state : Enters(n, list, state)
    BY <1>2 DEF Enters
  <1>3. CASE \/ Start \/ ListEnds \/ RunTimesOut \/ GuardFails \/ Passes
             \/ (\E result, state : Leaves(result, state))
             \/ (\E n, loop, state : Repeats(n, loop, state))
             \/ WalkEnds \/ StatementThrows \/ TimePasses \/ Decide \/ UNCHANGED walkVars
    <2>1. UNCHANGED decided
      BY <1>3 DEF Start, ListEnds, RunTimesOut, GuardFails, Passes, Repeats, OnlyWalk, WalkEnds, Leaves,
                  StatementThrows, TimePasses, Decide, walkVars
    <2>. QED  BY <2>1
  <1>. QED  BY <1>1, <1>2, <1>3 DEF Shape

(* One step of an effect's history. *)
LEMMA ToldStep ==
  ASSUME WalkInv, PlaceInv, Shape, NEW id, Alone(id), NEW st, NEW st2, st = StateNow, st2 = StateNow',
         NEW S2, NEW E2, NEW R2, S2 = settled', E2 = effects', R2 = stepRows',
         Told(id, st, settled, effects, stepRows)
  PROVE  /\ Told(id, st2, S2, E2, R2)
         /\ \A n : Answers(id, n, st, settled, effects, stepRows) => Answers(id, n, st2, S2, E2, R2)
  <1>1. \A p \in DOMAIN stepRows : stepRows[p].attempt \in Nat
    BY DEF PlaceInv, RowsTyped
  <1>2. CASE Still(id, st, st2, settled, S2, effects, E2, stepRows, R2)
    BY <1>1, <1>2, StillTold
  <1>3. CASE Quiet
    BY <1>2, <1>3, QuietStill
  <1>4. CASE \E result, state : Leaves(result, state)
    BY <1>2, <1>4, LeavesStill
  <1>5. CASE \E result, state, t, row : Stops(result, state, t, row) /\ Outcome(result)
    <2>1. PICK result, state, t, row : Stops(result, state, t, row) /\ Outcome(result)
      BY <1>5
    <2>2. CASE Here = OfId(id)
      BY <2>1, <2>2, OwnTold
    <2>3. CASE Here # OfId(id)
      BY <1>2, <2>1, <2>3, StopsStill
    <2>. QED  BY <2>2, <2>3
  <1>. QED  BY <1>3, <1>4, <1>5 DEF Shape, Quiet

(* A condition decides by the status of an effect that comes before it. *)
LEMMA AsksNow ==
  ASSUME WalkInv, PlaceInv, AtStepOf, StepOf(Here).kind = "condition",
         NEW n, n = BranchOf(StepOf(Here), walk.state), NEW d, d = <<Here, n>>, Asks(d)
  PROVE  Answers(Asked(d), d[2], StateNow, settled, effects, stepRows)
  <1>1. PICK p, id : p = Here /\ id = StepOf(p).on
    OBVIOUS
  <1>2. d[1] = p /\ d[2] = n /\ Asked(d) = id
    BY <1>1 DEF Asked
  <1>3. id \notin {"always", "never", "bad"} /\ Precedes(id, p)
    BY <1>2 DEF Asks
  <1>4. Before(p) \subseteq settled
    <2>1. PICK f, S : f = Top /\ S = settled
      OBVIOUS
    <2>2. FrameOK(f, S) /\ InList(f) /\ p = Under(f, 0) /\ manifest \in Manifests
      BY <1>1, <2>1, Standing DEF WalkInv
    <2>3. Before(Under(f, 0)) \subseteq S
      BY <2>2, BeforeHere
    <2>. QED  BY <2>1, <2>2, <2>3
  <1>5. OfId(id) \in settled
    BY <1>3, <1>4 DEF Precedes, OfId
  <1>6. StateNow = walk.state
    BY DEF StateNow, AtStepOf
  <1>7. n = 1 <=> At(walk.state.status, id, "none") = "succeeded"
    BY <1>1, <1>3 DEF BranchOf, Truthy
  <1>. QED  BY <1>2, <1>5, <1>6, <1>7 DEF Answers

LEMMA PrecedesAlone ==
  ASSUME NEW id, NEW p, Precedes(id, p)
  PROVE  Alone(id)
  BY DEF Precedes, Alone

LEMMA AloneKeeps ==
  ASSUME UNCHANGED manifest, NEW id, NEW d
  PROVE  (Alone(id)' <=> Alone(id)) /\ Asked(d)' = Asked(d) /\ (Asks(d)' <=> Asks(d))
  <1>1. Before(d[1])' = Before(d[1])
    BY BeforeKeeps
  <1>2. Alone(id)' <=> Alone(id)
    BY DEF Alone, Step
  <1>3. Asked(d)' = Asked(d)
    BY DEF Asked, StepOf, Step
  <1>4. PICK x : x = Asked(d)
    OBVIOUS
  <1>5. Precedes(x, d[1])' <=> Precedes(x, d[1])
    BY <1>1 DEF Precedes, Step
  <1>. QED  BY <1>2, <1>3, <1>4, <1>5 DEF Asks

LEMMA AloneStep ==
  ASSUME WalkInv, PlaceInv, AloneInv, [WalkNext]_walkVars
  PROVE  AloneInv'
  <1>1. UNCHANGED manifest /\ Shape
    <2>1. UNCHANGED manifest
      BY DEF WalkNext, Start, ListEnds, RunTimesOut, GuardFails, SkipStep, PassDone, EffectStep, WaitStep,
             AskStep, ConditionStep, ForEachStep, ReturnResult, IterationEnds, WalkEnds, StatementThrows,
             TimePasses, Decide, walkVars
    <2>. QED  BY <2>1, StepShapes DEF PlaceInv
  <1>2. PICK st, st2, S2, E2, R2, D2 : /\ st = StateNow /\ st2 = StateNow' /\ S2 = settled' /\ E2 = effects'
                                       /\ R2 = stepRows' /\ D2 = decided'
    OBVIOUS
  <1>3. ASSUME NEW id, Alone(id)
        PROVE  /\ Told(id, st2, S2, E2, R2)
               /\ \A n : Answers(id, n, st, settled, effects, stepRows) => Answers(id, n, st2, S2, E2, R2)
    <2>1. Told(id, st, settled, effects, stepRows)
      BY <1>2, <1>3 DEF AloneInv
    <2>. QED  BY <1>1, <1>2, <1>3, <2>1, ToldStep
  <1>4. ASSUME NEW d \in D2, Asks(d)
        PROVE  Answers(Asked(d), d[2], st2, S2, E2, R2)
    <2>1. Answers(Asked(d), d[2], st, settled, effects, stepRows)
      <3>1. CASE d \in decided
        BY <1>2, <1>4, <3>1 DEF AloneInv
      <3>2. CASE d \notin decided
        <4>1. /\ AtStepOf /\ StepOf(Here).kind = "condition"
              /\ d = <<Here, BranchOf(StepOf(Here), walk.state)>>
          BY <1>1, <1>2, <1>4, <3>2, NewDecision
        <4>2. PICK n : n = BranchOf(StepOf(Here), walk.state)
          OBVIOUS
        <4>. QED  BY <1>2, <1>4, <4>1, <4>2, AsksNow
      <3>. QED  BY <3>1, <3>2
    <2>2. PICK id, n : id = Asked(d) /\ n = d[2]
      OBVIOUS
    <2>3. Alone(id)
      BY <1>4, <2>2, PrecedesAlone DEF Asks
    <2>. QED  BY <1>3, <2>1, <2>2, <2>3
  <1>5. \A id : Alone(id)' => Told(id, st2, S2, E2, R2)
    BY <1>1, <1>3, AloneKeeps
  <1>6. \A d \in D2 : Asks(d)' => Answers(Asked(d)', d[2], st2, S2, E2, R2)
    BY <1>1, <1>4, AloneKeeps
  <1>. QED  BY <1>2, <1>5, <1>6 DEF AloneInv

LEMMA AloneStarts == WalkInit => AloneInv
  BY DEF WalkInit, AloneInv, Told

LEMMA AloneSays ==
  ASSUME PlaceInv, AloneInv
  PROVE  OneBranch
  <1>1. SUFFICES ASSUME NEW p, BothWays(p), NEW id, id = StepOf(p).on, NEW q, q = OfId(id)
                 PROVE  /\ id \notin {"always", "never", "bad"}
                        /\ Precedes(id, p) =>
                             q \in DOMAIN effects /\ effects[q].bad > 0 /\ stepRows[q].attempt > 1
    BY DEF OneBranch, OfId
  <1>2. PICK d, e : d = <<p, 1>> /\ e = <<p, 2>>
    OBVIOUS
  <1>3. d[1] = p /\ d[2] = 1 /\ e[1] = p /\ e[2] = 2 /\ d \in decided /\ e \in decided
    BY <1>1, <1>2 DEF BothWays
  <1>4. id \notin {"always", "never", "bad"}
    BY <1>1, <1>3 DEF PlaceInv, DecidedOK
  <1>5. ASSUME Precedes(id, p)
        PROVE  q \in DOMAIN effects /\ effects[q].bad > 0 /\ stepRows[q].attempt > 1
    <2>1. Asks(d) /\ Asks(e) /\ Asked(d) = id /\ Asked(e) = id
      BY <1>1, <1>3, <1>4, <1>5 DEF Asks, Asked
    <2>2. /\ Answers(id, 1, StateNow, settled, effects, stepRows)
          /\ Answers(id, 2, StateNow, settled, effects, stepRows)
      BY <1>3, <2>1 DEF AloneInv
    <2>. QED  BY <1>1, <2>2 DEF Answers, Retried
  <1>. QED  BY <1>4, <1>5

LEMMA AloneHolds == WalkSpec => []AloneInv
  BY PlaceHolds, AloneStarts, AloneStep, PTL DEF WalkSpec

(* A condition is decided once (_done and executeConditionStep,               *)
(* run-executor.ts): however often the run parks, is resumed and walks to the  *)
(* condition again, it takes the branch it took, unless what it asks for is     *)
(* not an effect of the top level before it, or failed and was executed again.  *)
THEOREM OneBranchIsTaken == WalkSpec => []OneBranch
  BY PlaceHolds, AloneHolds, AloneSays, PTL

----------------------------------------------------------------------------
(* The time a run is charged *)

(* The steps of a call n deep have at most Depth + 1 - n levels below them. *)
Ranked(s) ==
  \E rank \in [DOMAIN manifest.step -> 0 .. Depth] :
    /\ Nested(manifest, rank)
    /\ \A k \in 1 .. Len(s) : \A j \in DOMAIN s[k].list : rank[s[k].list[j]] <= Depth + 1 - k

(* What is charged, with what the calls will add when they return: each the    *)
(* time since it was made, once more for the call below it.                   *)
Owed(s, n, ran, debt) ==
  /\ debt \in [1 .. n -> Nat] /\ debt[1] = 0
  /\ \A k \in 1 .. n - 1 : /\ s[k + 1].since \in Nat /\ s[k + 1].since <= ran
                           /\ debt[k + 1] = debt[k] + (ran - s[k + 1].since)
Counted(s, n, e, ran) ==
  /\ e \in Nat /\ ran <= e
  /\ \E debt : Owed(s, n, ran, debt) /\ e + debt[n] <= (Depth + 1) * ran

TimeOK(s, e, ran) ==
  /\ e \in Nat /\ ran <= e
  /\ s = <<>> => e <= (Depth + 1) * ran
  /\ s # <<>> => Ranked(s) /\ Counted(s, Len(s), e, ran)

TimeInv == TimeOK(walk.stack, StateNow.elapsed, clock.ran)

LEMMA DepthNat == Depth \in Nat
  BY WalkAssumption

LEMMA CountedSame ==
  ASSUME NEW s, NEW t, NEW n \in Nat \ {0}, NEW e, NEW ran, Counted(s, n, e, ran),
         \A k \in 1 .. n : t[k].since = s[k].since
  PROVE  Counted(t, n, e, ran)
  <1>1. PICK debt : Owed(s, n, ran, debt) /\ e + debt[n] <= (Depth + 1) * ran
    BY DEF Counted
  <1>2. ASSUME NEW k \in 1 .. n - 1
        PROVE  /\ t[k + 1].since \in Nat /\ t[k + 1].since <= ran
               /\ debt[k + 1] = debt[k] + (ran - t[k + 1].since)
    <2>1. k + 1 \in 1 .. n
      OBVIOUS
    <2>2. t[k + 1].since = s[k + 1].since
      BY <2>1
    <2>. QED  BY <1>1, <2>2 DEF Owed
  <1>3. Owed(t, n, ran, debt)
    BY <1>1, <1>2 DEF Owed
  <1>. QED  BY <1>1, <1>3 DEF Counted

LEMMA CountedStart ==
  ASSUME NEW t, NEW e \in Nat, NEW ran \in Nat, ran <= e, e <= (Depth + 1) * ran
  PROVE  Counted(t, 1, e, ran)
  <1>1. PICK debt : debt = [k \in 1 .. 1 |-> 0]
    OBVIOUS
  <1>2. debt[1] = 0 /\ debt \in [1 .. 1 -> Nat]
    BY <1>1
  <1>3. Owed(t, 1, ran, debt)
    BY <1>2 DEF Owed
  <1>4. e + debt[1] <= (Depth + 1) * ran
    BY <1>2
  <1>. QED  BY <1>3, <1>4 DEF Counted

LEMMA CountedEnds ==
  ASSUME NEW s, NEW e, NEW ran, Counted(s, 1, e, ran)
  PROVE  e \in Nat /\ ran <= e /\ e <= (Depth + 1) * ran
  <1>1. PICK debt : debt[1] = 0 /\ e + debt[1] <= (Depth + 1) * ran /\ e \in Nat /\ ran <= e
    BY DEF Counted, Owed
  <1>2. e + 0 = e
    BY <1>1
  <1>. QED  BY <1>1, <1>2

LEMMA CountedEnters ==
  ASSUME NEW s, NEW t, NEW n \in Nat \ {0}, NEW e, NEW ran \in Nat, Counted(s, n, e, ran),
         NEW m, m = n + 1, \A k \in 1 .. n : t[k].since = s[k].since, t[m].since = ran
  PROVE  Counted(t, m, e, ran)
  <1>1. PICK debt : Owed(s, n, ran, debt) /\ e + debt[n] <= (Depth + 1) * ran
    BY DEF Counted
  <1>2. PICK more : more = [k \in 1 .. m |-> IF k = m THEN debt[n] ELSE debt[k]]
    OBVIOUS
  <1>3. debt \in [1 .. n -> Nat] /\ debt[1] = 0
    BY <1>1 DEF Owed
  <1>4. /\ \A k \in 1 .. n : more[k] = debt[k] /\ debt[k] \in Nat
        /\ more[m] = debt[n]
    BY <1>2, <1>3
  <1>5. more \in [1 .. m -> Nat] /\ more[1] = 0
    BY <1>2, <1>3
  <1>6. ASSUME NEW k \in 1 .. m - 1
        PROVE  /\ t[k + 1].since \in Nat /\ t[k + 1].since <= ran
               /\ more[k + 1] = more[k] + (ran - t[k + 1].since)
    <2>1. CASE k = n
      <3>1. PICK a \in Nat : a = debt[n]
        BY <1>4
      <3>2. a + (ran - ran) = a /\ k + 1 = m
        BY <2>1
      <3>. QED  BY <1>4, <2>1, <3>1, <3>2
    <2>2. CASE k # n
      <3>1. k \in 1 .. n - 1 /\ k + 1 \in 1 .. n /\ k \in 1 .. n
        BY <2>2
      <3>2. t[k + 1].since = s[k + 1].since /\ more[k + 1] = debt[k + 1] /\ more[k] = debt[k]
        BY <1>4, <3>1
      <3>. QED  BY <1>1, <3>1, <3>2 DEF Owed
    <2>. QED  BY <2>1, <2>2
  <1>7. Owed(t, m, ran, more)
    BY <1>5, <1>6 DEF Owed
  <1>. QED  BY <1>1, <1>4, <1>7 DEF Counted

LEMMA CountedLeaves ==
  ASSUME NEW s, NEW t, NEW m \in Nat \ {0}, NEW e, NEW ran \in Nat, NEW n, n = m + 1, Counted(s, n, e, ran),
         \A k \in 1 .. m : t[k].since = s[k].since, NEW u, u = ran - s[n].since
  PROVE  Counted(t, m, e + u, ran)
  <1>1. PICK debt : Owed(s, n, ran, debt) /\ e + debt[n] <= (Depth + 1) * ran
    BY DEF Counted
  <1>2. PICK less : less = [k \in 1 .. m |-> debt[k]]
    OBVIOUS
  <1>3. /\ less \in [1 .. m -> Nat] /\ less[1] = 0 /\ \A k \in 1 .. m : less[k] = debt[k]
    BY <1>1, <1>2 DEF Owed
  <1>4. ASSUME NEW k \in 1 .. m - 1
        PROVE  /\ t[k + 1].since \in Nat /\ t[k + 1].since <= ran
               /\ less[k + 1] = less[k] + (ran - t[k + 1].since)
    <2>1. k \in 1 .. n - 1 /\ k + 1 \in 1 .. m /\ k \in 1 .. m
      OBVIOUS
    <2>2. t[k + 1].since = s[k + 1].since /\ less[k + 1] = debt[k + 1] /\ less[k] = debt[k]
      BY <1>3, <2>1
    <2>. QED  BY <1>1, <2>1, <2>2 DEF Owed
  <1>5. Owed(t, m, ran, less)
    BY <1>3, <1>4 DEF Owed
  <1>6. /\ m \in 1 .. n - 1 /\ m + 1 = n
        /\ s[m + 1].since \in Nat /\ s[m + 1].since <= ran
        /\ debt[m + 1] = debt[m] + (ran - s[m + 1].since)
    <2>1. m \in 1 .. n - 1 /\ m + 1 = n
      OBVIOUS
    <2>. QED  BY <1>1, <2>1 DEF Owed
  <1>7. PICK a \in Nat, b \in Nat, c \in Nat : a = debt[m] /\ b = debt[n] /\ c = s[n].since
    BY <1>1, <1>6 DEF Owed
  <1>8. u = ran - c /\ c <= ran /\ b = a + u
    BY <1>6, <1>7
  <1>9. e \in Nat /\ ran <= e
    BY DEF Counted
  <1>10. e + u \in Nat /\ ran <= e + u /\ (e + u) + a = e + b
    BY <1>7, <1>8, <1>9
  <1>11. less[m] = a
    BY <1>3, <1>6, <1>7
  <1>. QED  BY <1>1, <1>5, <1>7, <1>10, <1>11 DEF Counted

LEMMA CountedTime ==
  ASSUME NEW s, NEW t, NEW n \in Nat \ {0}, NEW e, NEW ran \in Nat, Counted(s, n, e, ran), n <= Depth + 1,
         \A k \in 1 .. n : t[k].since = s[k].since
  PROVE  Counted(t, n, e + 1, ran + 1)
  <1>1. PICK debt : Owed(s, n, ran, debt) /\ e + debt[n] <= (Depth + 1) * ran
    BY DEF Counted
  <1>2. PICK more : more = [k \in 1 .. n |-> debt[k] + (k - 1)]
    OBVIOUS
  <1>3. debt \in [1 .. n -> Nat] /\ debt[1] = 0
    BY <1>1 DEF Owed
  <1>4. ASSUME NEW k \in 1 .. n
        PROVE  debt[k] \in Nat /\ more[k] = debt[k] + (k - 1) /\ more[k] \in Nat
    <2>1. PICK a \in Nat : a = debt[k]
      BY <1>3
    <2>2. a + (k - 1) \in Nat
      OBVIOUS
    <2>3. more[k] = a + (k - 1)
      BY <1>2, <2>1
    <2>. QED  BY <2>1, <2>2, <2>3
  <1>5. more \in [1 .. n -> Nat] /\ more[1] = 0
    <2>1. 1 \in 1 .. n /\ 0 + (1 - 1) = 0
      OBVIOUS
    <2>2. more[1] = 0
      BY <1>3, <1>4, <2>1
    <2>3. DOMAIN more = 1 .. n /\ more = [k \in 1 .. n |-> more[k]]
      BY <1>2
    <2>. QED  BY <1>4, <2>2, <2>3
  <1>6. ASSUME NEW k \in 1 .. n - 1
        PROVE  /\ t[k + 1].since \in Nat /\ t[k + 1].since <= ran + 1
               /\ more[k + 1] = more[k] + ((ran + 1) - t[k + 1].since)
    <2>1. k + 1 \in 1 .. n /\ k \in 1 .. n
      OBVIOUS
    <2>2. PICK c \in Nat, a \in Nat, b \in Nat : c = s[k + 1].since /\ a = debt[k] /\ b = debt[k + 1]
      BY <1>1, <1>4, <2>1 DEF Owed
    <2>3. c <= ran /\ b = a + (ran - c)
      BY <1>1, <2>2 DEF Owed
    <2>4. t[k + 1].since = c /\ more[k + 1] = b + k /\ more[k] = a + (k - 1)
      <3>1. more[k + 1] = b + ((k + 1) - 1)
        BY <1>4, <2>1, <2>2
      <3>2. (k + 1) - 1 = k
        OBVIOUS
      <3>. QED  BY <1>4, <2>1, <2>2, <3>1, <3>2
    <2>. QED  BY <2>3, <2>4
  <1>7. Owed(t, n, ran + 1, more)
    BY <1>5, <1>6 DEF Owed
  <1>8. PICK a \in Nat, d \in Nat, x \in Nat : a = debt[n] /\ d = Depth /\ x = e
    BY <1>4, DepthNat DEF Counted
  <1>9. more[n] = a + (n - 1)
    BY <1>4, <1>8
  <1>10. x + a <= (d + 1) * ran /\ ran <= x /\ n <= d + 1
    BY <1>1, <1>8 DEF Counted
  <1>11. (d + 1) * (ran + 1) = (d + 1) * ran + (d + 1) /\ (d + 1) * ran \in Nat
    BY <1>8
  <1>12. PICK y \in Nat, z \in Nat : y = (d + 1) * ran /\ z = (d + 1) * (ran + 1)
    BY <1>11
  <1>13. (x + 1) + (a + (n - 1)) <= z
    BY <1>8, <1>10, <1>11, <1>12
  <1>14. x + 1 \in Nat /\ ran + 1 <= x + 1
    BY <1>10
  <1>. QED  BY <1>7, <1>8, <1>9, <1>12, <1>13, <1>14 DEF Counted

(* How deep the calls are. *)
LEMMA RankedDepth ==
  ASSUME WalkInv, AtStepOf, Ranked(walk.stack)
  PROVE  Len(walk.stack) <= Depth + 1
  <1>1. PICK n \in Nat \ {0} : n = Len(walk.stack)
    BY WalkStack DEF AtStepOf
  <1>2. PICK d \in Nat : d = Depth
    BY DepthNat
  <1>3. PICK f, S : f = Top /\ S = settled
    OBVIOUS
  <1>4. FrameOK(f, S) /\ InList(f) /\ manifest \in Manifests /\ f = walk.stack[n]
    BY <1>1, <1>3, Standing, WalkStack DEF WalkInv, AtStepOf
  <1>5. f.list[f.at] \in DOMAIN manifest.step /\ f.at \in DOMAIN f.list
    BY <1>4, BeforeHere DEF InList, FrameOK
  <1>6. PICK rank \in [DOMAIN manifest.step -> 0 .. Depth] :
          \A k \in 1 .. n : \A j \in DOMAIN walk.stack[k].list : rank[walk.stack[k].list[j]] <= Depth + 1 - k
    BY <1>1 DEF Ranked
  <1>7. rank[f.list[f.at]] <= d + 1 - n
    <2>1. n \in 1 .. n
      BY <1>1
    <2>. QED  BY <1>2, <1>4, <1>5, <1>6, <2>1
  <1>8. rank[f.list[f.at]] \in Nat
    BY <1>2, <1>5, <1>6
  <1>9. PICK r \in Nat : r = rank[f.list[f.at]]
    BY <1>8
  <1>10. n <= d + 1
    BY <1>7, <1>9
  <1>. QED  BY <1>1, <1>2, <1>10

LEMMA RankedStart ==
  ASSUME WalkInv, NEW t, Len(t) = 1, t[1].list = manifest.top
  PROVE  Ranked(t)
  <1>1. manifest \in Manifests /\ manifest.top \in Seq(DOMAIN manifest.step)
    BY ManifestLists DEF WalkInv
  <1>2. PICK rank \in [DOMAIN manifest.step -> 0 .. Depth] : Nested(manifest, rank)
    BY <1>1, WalkAssumption
  <1>3. PICK d \in Nat : d = Depth
    BY DepthNat
  <1>4. ASSUME NEW k \in 1 .. Len(t), NEW j \in DOMAIN t[k].list
        PROVE  rank[t[k].list[j]] <= Depth + 1 - k
    <2>1. k = 1
      BY <1>4
    <2>2. t[k].list[j] \in DOMAIN manifest.step
      BY <1>1, <1>4, <2>1
    <2>3. rank[t[k].list[j]] \in 0 .. d
      BY <1>2, <1>3, <2>2
    <2>4. PICK r \in Nat : r = rank[t[k].list[j]]
      BY <2>3
    <2>5. d + 1 - 1 = d
      BY <1>3
    <2>. QED  BY <1>3, <2>1, <2>3, <2>4, <2>5
  <1>. QED  BY <1>2, <1>4 DEF Ranked

LEMMA RankedEnters ==
  ASSUME WalkInv, NEW s, NEW t, NEW n \in Nat \ {0}, n = Len(s), Ranked(s), NEW m, m = n + 1, m = Len(t),
         \A k \in 1 .. n : t[k].list = s[k].list,
         NEW id \in DOMAIN manifest.step, NEW i \in DOMAIN s[n].list, id = s[n].list[i],
         t[m].list \in {Step(id).then, Step(id).else}
  PROVE  Ranked(t)
  <1>1. PICK rank \in [DOMAIN manifest.step -> 0 .. Depth] :
          /\ Nested(manifest, rank)
          /\ \A k \in 1 .. n : \A j \in DOMAIN s[k].list : rank[s[k].list[j]] <= Depth + 1 - k
    BY DEF Ranked
  <1>2. PICK d \in Nat : d = Depth
    BY DepthNat
  <1>3. manifest \in Manifests /\ t[m].list \in Seq(DOMAIN manifest.step)
    BY ManifestLists DEF WalkInv
  <1>4. ASSUME NEW k \in 1 .. Len(t), NEW j \in DOMAIN t[k].list
        PROVE  rank[t[k].list[j]] <= Depth + 1 - k
    <2>1. CASE k # m
      <3>1. k \in 1 .. n
        BY <1>4, <2>1
      <3>. QED  BY <1>1, <1>4, <3>1
    <2>2. CASE k = m
      <3>1. PICK x : x = t[m].list[j] /\ x \in DOMAIN manifest.step
        BY <1>3, <1>4, <2>2
      <3>2. rank[x] < rank[id]
        BY <1>1, <1>4, <2>2, <3>1 DEF Nested, Step
      <3>3. rank[id] <= d + 1 - n
        <4>1. n \in 1 .. n
          OBVIOUS
        <4>. QED  BY <1>1, <1>2, <4>1
      <3>4. PICK a \in Nat, b \in Nat : a = rank[x] /\ b = rank[id]
        BY <1>1, <1>2, <3>1
      <3>5. a <= d + 1 - m
        BY <3>2, <3>3, <3>4
      <3>. QED  BY <1>2, <2>2, <3>1, <3>4, <3>5
    <2>. QED  BY <2>1, <2>2
  <1>. QED  BY <1>1, <1>4 DEF Ranked

LEMMA RankedLess ==
  ASSUME NEW s, NEW t, Ranked(s), NEW n \in Nat, n = Len(s), Len(t) \in 0 .. n,
         \A k \in 1 .. Len(t) : t[k].list = s[k].list
  PROVE  Ranked(t)
  <1>1. PICK m \in 0 .. n : m = Len(t)
    OBVIOUS
  <1>2. \A k \in 1 .. m : k \in 1 .. n /\ t[k].list = s[k].list
    BY <1>1
  <1>3. PICK rank \in [DOMAIN manifest.step -> 0 .. Depth] :
          /\ Nested(manifest, rank)
          /\ \A k \in 1 .. n : \A j \in DOMAIN s[k].list : rank[s[k].list[j]] <= Depth + 1 - k
    BY DEF Ranked
  <1>. QED  BY <1>1, <1>2, <1>3 DEF Ranked

LEMMA RankedKeeps ==
  ASSUME UNCHANGED manifest, NEW s
  PROVE  Ranked(s) => Ranked(s)'
  BY DEF Ranked, Nested

LEMMA TimeStays ==
  ASSUME NEW s, NEW t, NEW n \in Nat \ {0}, n = Len(s), Len(t) = n, Stays(s, t), s # <<>>,
         NEW e, NEW ran, TimeOK(s, e, ran)
  PROVE  TimeOK(t, e, ran) /\ t # <<>>
  <1>1. t # <<>>
    <2>1. Len(<<>>) = 0
      OBVIOUS
    <2>. QED  BY <2>1
  <1>2. \A k \in 1 .. n : t[k].list = s[k].list /\ t[k].since = s[k].since
    BY DEF Stays, SameCall
  <1>3. Ranked(s) /\ Counted(s, n, e, ran) /\ e \in Nat /\ ran <= e
    BY DEF TimeOK
  <1>4. Ranked(t)
    <2>1. Len(t) \in 0 .. n
      OBVIOUS
    <2>. QED  BY <1>2, <1>3, <2>1, RankedLess
  <1>5. Counted(t, n, e, ran)
    BY <1>2, <1>3, CountedSame
  <1>. QED  BY <1>1, <1>3, <1>4, <1>5 DEF TimeOK

LEMMA TimeStops ==
  ASSUME WalkInv, PlaceInv, TimeInv, NEW result, NEW state, NEW t, NEW row, Stops(result, state, t, row),
         NEW u, NEW e, NEW ran, u = walk'.stack, e = StateNow'.elapsed, ran = clock'.ran
  PROVE  TimeOK(u, e, ran)
  <1>1. PICK n \in Nat \ {0}, x \in Nat, r \in Nat : n = Len(walk.stack) /\ x = StateNow.elapsed /\ r = clock.ran
    BY WalkStack DEF Stops, AtStepOf, TimeInv, TimeOK, PlaceInv, ClockTyped
  <1>2. PICK s : s = walk.stack
    OBVIOUS
  <1>3. s # <<>> /\ Stays(s, u) /\ Len(u) = n /\ AtStepOf
    BY <1>1, <1>2, StopsStays, WalkStack DEF Stops, AtStepOf
  <1>4. PICK st, st2, p : st = StateNow /\ st2 = StateNow' /\ p = Here
    OBVIOUS
  <1>5. Writes(st, st2, p, result, t)
    BY <1>4, StopsState
  <1>6. e = x + t /\ ran = r + t /\ t \in 0 .. 1
    BY <1>1, <1>4, <1>5 DEF Writes, Stops
  <1>7. TimeOK(s, x, r)
    BY <1>1, <1>2 DEF TimeInv
  <1>8. TimeOK(u, x, r) /\ u # <<>>
    BY <1>1, <1>2, <1>3, <1>7, TimeStays
  <1>9. CASE t = 0
    <2>1. e = x /\ ran = r
      BY <1>1, <1>6, <1>9
    <2>. QED  BY <1>8, <2>1
  <1>10. CASE t = 1
    <2>1. n <= Depth + 1
      BY <1>1, <1>2, <1>3, <1>7, RankedDepth DEF TimeOK
    <2>2. Counted(u, n, x, r) /\ Ranked(u)
      BY <1>3, <1>8 DEF TimeOK
    <2>3. \A k \in 1 .. n : u[k].since = u[k].since
      OBVIOUS
    <2>4. Counted(u, n, x + 1, r + 1)
      BY <1>1, <2>1, <2>2, <2>3, CountedTime
    <2>5. x + 1 \in Nat /\ r + 1 <= x + 1
      BY <1>1, <1>7 DEF TimeOK
    <2>. QED  BY <1>3, <1>6, <1>8, <1>10, <2>2, <2>4, <2>5 DEF TimeOK
  <1>. QED  BY <1>6, <1>9, <1>10

LEMMA TimeLeaves ==
  ASSUME WalkInv, PlaceInv, TimeInv, NEW result, NEW state, Leaves(result, state),
         NEW u, NEW e, NEW ran, u = walk'.stack, e = StateNow'.elapsed, ran = clock'.ran
  PROVE  TimeOK(u, e, ran)
  <1>0. Returning /\ InWalk /\ clock' = clock
    BY DEF Leaves, Returning
  <1>1. PICK n \in Nat \ {0}, x \in Nat, r \in Nat : n = Len(walk.stack) /\ x = StateNow.elapsed /\ r = clock.ran
    BY <1>0, WalkStack DEF TimeInv, TimeOK, PlaceInv, ClockTyped
  <1>2. PICK s : s = walk.stack
    OBVIOUS
  <1>3. PICK m \in Nat \ {0} : m = n - 1
    BY <1>0, <1>1, CalledFrom
  <1>4. s # <<>> /\ Stays(s, u) /\ Len(u) = m /\ Top = s[n]
    BY <1>0, <1>1, <1>2, <1>3, LeavesStays, WalkStack
  <1>5. PICK st, st2, p, since, o : /\ st = StateNow /\ st2 = StateNow' /\ p = OwnerPath(Top) /\ since = Top.since
                                    /\ o = r - since
    OBVIOUS
  <1>6. Writes(st, st2, p, result, o)
    BY <1>1, <1>5, LeavesState
  <1>7. e = x + o /\ ran = r
    BY <1>0, <1>1, <1>5, <1>6 DEF Writes
  <1>8. Ranked(s) /\ Counted(s, n, x, r)
    BY <1>1, <1>2, <1>4 DEF TimeInv, TimeOK
  <1>9. \A k \in 1 .. m : u[k].list = s[k].list /\ u[k].since = s[k].since
    BY <1>4 DEF Stays, SameCall
  <1>10. Counted(u, m, x + o, r)
    <2>1. n = m + 1 /\ o = r - s[n].since
      BY <1>3, <1>4, <1>5
    <2>. QED  BY <1>8, <1>9, <2>1, CountedLeaves
  <1>11. Ranked(u)
    <2>1. Len(u) \in 0 .. n
      BY <1>3, <1>4
    <2>. QED  BY <1>1, <1>2, <1>4, <1>8, <1>9, <2>1, RankedLess
  <1>12. u # <<>>
    <2>1. Len(<<>>) = 0
      OBVIOUS
    <2>. QED  BY <1>4, <2>1
  <1>13. x + o \in Nat /\ r <= x + o
    BY <1>10 DEF Counted
  <1>. QED  BY <1>4, <1>7, <1>10, <1>11, <1>12, <1>13 DEF TimeOK

LEMMA TimeEnters ==
  ASSUME WalkInv, PlaceInv, TimeInv, NEW i, NEW list, NEW state, Enters(i, list, state),
         NEW u, NEW e, NEW ran, u = walk'.stack, e = StateNow.elapsed, ran = clock'.ran
  PROVE  TimeOK(u, e, ran)
  <1>0. AtStepOf /\ InWalk /\ clock' = clock
    BY DEF Enters, AtStepOf
  <1>1. PICK n \in Nat \ {0}, r \in Nat : n = Len(walk.stack) /\ r = clock.ran
    BY <1>0, WalkStack DEF PlaceInv, ClockTyped
  <1>2. PICK s, g : s = walk.stack /\ g = Frame(list, Under(Top, i), clock.ran, NoLoop)
    OBVIOUS
  <1>3. u = Append(s, g) /\ g.list = list /\ g.since = r
    BY <1>1, <1>2 DEF Enters, Walking, Frame
  <1>4. s # <<>> /\ TimeOK(s, e, r) /\ Top = s[n] /\ \E T : s \in Seq(T)
    BY <1>0, <1>1, <1>2, WalkStack DEF TimeInv
  <1>5. PICK m : m = n + 1
    OBVIOUS
  <1>6. Len(u) = m /\ u[m] = g /\ u # <<>> /\ \A k \in 1 .. n : u[k] = s[k]
    BY <1>1, <1>2, <1>3, <1>4, <1>5, AppendIs
  <1>7. Ranked(s) /\ Counted(s, n, e, r) /\ e \in Nat /\ r <= e
    BY <1>1, <1>2, <1>4 DEF TimeOK
  <1>8. Counted(u, m, e, r)
    <2>1. u[m].since = r /\ \A k \in 1 .. n : u[k].since = s[k].since
      BY <1>3, <1>6
    <2>. QED  BY <1>1, <1>5, <1>7, <2>1, CountedEnters, SMTT(30)
  <1>9. PICK f, S, id : f = Top /\ S = settled /\ id = f.list[f.at]
    OBVIOUS
  <1>10. FrameOK(f, S) /\ InList(f) /\ Here = Under(f, 0) /\ manifest \in Manifests
    BY <1>0, <1>9, Standing DEF WalkInv
  <1>11. id \in DOMAIN manifest.step /\ Last(Under(f, 0)) = <<id, 0>> /\ f.at \in DOMAIN f.list
    <2>1. id \in DOMAIN manifest.step /\ Last(Under(f, 0)) = <<id, 0>>
      BY <1>9, <1>10, BeforeHere
    <2>2. f.at \in DOMAIN f.list
      BY <1>10 DEF InList, FrameOK
    <2>. QED  BY <2>1, <2>2
  <1>12. StepOf(Here) = Step(id)
    BY <1>10, <1>11 DEF StepOf
  <1>13. list \in {Step(id).then, Step(id).else}
    BY <1>12 DEF Enters, BranchList
  <1>14. Ranked(u)
    <2>1. f = s[n]
      BY <1>4, <1>9
    <2>2. \A k \in 1 .. n : u[k].list = s[k].list
      BY <1>6
    <2>3. PICK j : j = f.at /\ j \in DOMAIN s[n].list /\ id = s[n].list[j]
      BY <1>9, <1>11, <2>1
    <2>4. u[m].list \in {Step(id).then, Step(id).else}
      BY <1>3, <1>6, <1>13
    <2>. QED  BY <1>1, <1>2, <1>5, <1>6, <1>7, <1>11, <2>2, <2>3, <2>4, RankedEnters
  <1>. QED  BY <1>0, <1>1, <1>6, <1>7, <1>8, <1>14 DEF TimeOK

LEMMA TimeRepeats ==
  ASSUME WalkInv, PlaceInv, TimeInv, NEW i, NEW loop, NEW state, Repeats(i, loop, state),
         NEW u, NEW e, NEW ran, u = walk'.stack, e = StateNow.elapsed, ran = clock'.ran
  PROVE  TimeOK(u, e, ran)
  <1>0. InWalk /\ clock' = clock
    BY DEF Repeats, Returning, OnlyWalk
  <1>1. PICK n \in Nat \ {0}, r \in Nat : n = Len(walk.stack) /\ r = clock.ran
    BY <1>0, WalkStack DEF PlaceInv, ClockTyped
  <1>2. PICK s, g : s = walk.stack /\ g = Frame(Top.list, NextPrefix(i), Top.since, loop)
    OBVIOUS
  <1>3. u = OnTop(s, g) /\ g.list = Top.list /\ g.since = Top.since
    BY <1>1, <1>2 DEF Repeats, Walking, Frame, NextPrefix
  <1>4. s # <<>> /\ TimeOK(s, e, r) /\ Top = s[n] /\ \E T : s \in Seq(T)
    BY <1>0, <1>1, <1>2, WalkStack DEF TimeInv
  <1>5. Len(u) = n /\ u[n] = g /\ u # <<>> /\ \A k \in 1 .. n - 1 : u[k] = s[k]
    BY <1>1, <1>2, <1>3, <1>4, OnTopIs
  <1>6. ASSUME NEW k \in 1 .. n PROVE u[k].list = s[k].list /\ u[k].since = s[k].since
    <2>1. k = n \/ k \in 1 .. n - 1
      OBVIOUS
    <2>. QED  BY <1>3, <1>4, <1>5, <2>1
  <1>7. Ranked(s) /\ Counted(s, n, e, r) /\ e \in Nat /\ r <= e
    BY <1>1, <1>2, <1>4 DEF TimeOK
  <1>8. Counted(u, n, e, r)
    BY <1>6, <1>7, CountedSame
  <1>9. Ranked(u)
    <2>1. Len(u) \in 0 .. n
      BY <1>5
    <2>. QED  BY <1>1, <1>2, <1>5, <1>6, <1>7, <2>1, RankedLess
  <1>. QED  BY <1>0, <1>1, <1>5, <1>7, <1>8, <1>9 DEF TimeOK

LEMMA TimeQuiet ==
  ASSUME WalkInv, PlaceInv, TimeInv, Quiet, NEW u, NEW e, NEW ran,
         u = walk'.stack, e = StateNow'.elapsed, ran = clock'.ran
  PROVE  TimeOK(u, e, ran)
  <1>1. e = StateNow.elapsed
    BY QuietState
  <1>2. PICK s, r : s = walk.stack /\ r = clock.ran
    OBVIOUS
  <1>3. TimeOK(s, e, r) /\ r \in Nat
    BY <1>1, <1>2 DEF TimeInv, PlaceInv, ClockTyped
  <1>4. DOMAIN walk = {"stack", "state", "ret"}
    BY DEF WalkInv, WalkOK
  <1>5. CASE u = s /\ ran = r
    BY <1>3, <1>5
  <1>6. CASE u = <<>> /\ InWalk /\ TopLevel /\ ran = r
    <2>1. s # <<>> /\ Len(s) = 1
      BY <1>2, <1>6 DEF InWalk, TopLevel
    <2>2. Counted(s, 1, e, r)
      BY <1>3, <2>1 DEF TimeOK
    <2>3. e \in Nat /\ r <= e /\ e <= (Depth + 1) * r
      BY <2>2, CountedEnds
    <2>. QED  BY <1>6, <2>3 DEF TimeOK
  <1>7. CASE Start
    <2>1. PICK g : g = Frame(manifest.top, <<>>, clock.ran, NoLoop)
      OBVIOUS
    <2>2. u = <<g>> /\ ~InWalk /\ ran = r /\ g.list = manifest.top
      BY <1>2, <1>7, <2>1 DEF Start, Walking, Frame, PlaceInv, ClockTyped
    <2>3. u # <<>> /\ Len(u) = 1 /\ u[1] = g
      BY <2>2
    <2>4. s = <<>>
      BY <1>2, <2>2 DEF InWalk
    <2>5. e \in Nat /\ r <= e /\ e <= (Depth + 1) * r
      BY <1>3, <2>4 DEF TimeOK
    <2>6. Counted(u, 1, e, r)
      BY <1>3, <2>5, CountedStart
    <2>7. Ranked(u)
      BY <2>2, <2>3, RankedStart
    <2>. QED  BY <2>2, <2>3, <2>5, <2>6, <2>7 DEF TimeOK
  <1>8. CASE ListEnds \/ RunTimesOut \/ GuardFails
    <2>1. \E ret : walk' = [walk EXCEPT !.ret = ret]
      BY <1>8 DEF ListEnds, RunTimesOut, GuardFails
    <2>2. clock' = clock
      BY <1>8 DEF ListEnds, RunTimesOut, GuardFails
    <2>. QED  BY <1>2, <1>4, <1>5, <2>1, <2>2
  <1>9. CASE Passes
    <2>1. PICK f, g : f = Top /\ g = [f EXCEPT !.at = @ + 1]
      OBVIOUS
    <2>2. InWalk /\ AtStepOf /\ u = OnTop(s, g) /\ ran = r
      BY <1>2, <1>4, <1>9, <2>1 DEF Passes, AtStepOf, OnlyWalk
    <2>3. SameCall(f, g)
      <3>1. DOMAIN f = FrameFields
        BY <2>1, <2>2, Standing DEF FrameOK
      <3>. QED  BY <2>1, <3>1 DEF SameCall, FrameFields
    <2>4. PICK n \in Nat \ {0} : n = Len(s)
      BY <1>2, <2>2, WalkStack
    <2>5. s # <<>> /\ f = Last(s) /\ \E T : s \in Seq(T)
      BY <1>2, <2>1, <2>2, WalkStack
    <2>6. Stays(s, u) /\ Len(u) = n
      BY <2>2, <2>3, <2>4, <2>5, OnTopStays
    <2>. QED  BY <1>3, <2>2, <2>4, <2>5, <2>6, TimeStays
  <1>10. CASE \E i, list, state : Enters(i, list, state)
    BY <1>1, <1>10, TimeEnters
  <1>11. CASE \E i, loop, state : Repeats(i, loop, state)
    BY <1>1, <1>11, TimeRepeats
  <1>12. CASE WalkEnds
    BY <1>2, <1>6, <1>12 DEF WalkEnds, NoWalk, Walking
  <1>13. CASE StatementThrows
    <2>1. clock' = [clock EXCEPT !.throws = @ + 1] /\ InWalk
      BY <1>13 DEF StatementThrows, ToExecute, AtStepOf
    <2>2. ran = r
      BY <1>2, <2>1 DEF PlaceInv, ClockTyped
    <2>3. \/ TopLevel /\ walk' = NoWalk
          \/ walk' = [walk EXCEPT !.ret = "failed"]
      BY <1>13 DEF StatementThrows
    <2>4. CASE TopLevel /\ walk' = NoWalk
      BY <1>6, <2>1, <2>2, <2>4 DEF NoWalk, Walking
    <2>5. CASE walk' = [walk EXCEPT !.ret = "failed"]
      BY <1>2, <1>4, <1>5, <2>2, <2>5
    <2>. QED  BY <2>3, <2>4, <2>5
  <1>14. CASE TimePasses \/ Decide \/ UNCHANGED walkVars
    BY <1>2, <1>5, <1>14 DEF TimePasses, Decide, walkVars
  <1>. QED  BY <1>7, <1>8, <1>9, <1>10, <1>11, <1>12, <1>13, <1>14 DEF Quiet

LEMMA TimeStep ==
  ASSUME WalkInv, PlaceInv, TimeInv, [WalkNext]_walkVars
  PROVE  TimeInv'
  <1>1. UNCHANGED manifest /\ Shape
    <2>1. UNCHANGED manifest
      BY DEF WalkNext, Start, ListEnds, RunTimesOut, GuardFails, SkipStep, PassDone, EffectStep, WaitStep,
             AskStep, ConditionStep, ForEachStep, ReturnResult, IterationEnds, WalkEnds, StatementThrows,
             TimePasses, Decide, walkVars
    <2>. QED  BY <2>1, StepShapes DEF PlaceInv
  <1>2. PICK u, e, ran : u = walk'.stack /\ e = StateNow'.elapsed /\ ran = clock'.ran
    OBVIOUS
  <1>3. TimeOK(u, e, ran)
    <2>1. CASE Quiet
      BY <1>2, <2>1, TimeQuiet
    <2>2. CASE \E result, state : Leaves(result, state)
      BY <1>2, <2>2, TimeLeaves
    <2>3. CASE \E result, state, t, row : Stops(result, state, t, row) /\ Outcome(result)
      BY <1>2, <2>3, TimeStops
    <2>. QED  BY <1>1, <2>1, <2>2, <2>3 DEF Shape, Quiet
  <1>4. TimeOK(u, e, ran)'
    BY <1>1, <1>3, RankedKeeps DEF TimeOK, Counted, Owed
  <1>. QED  BY <1>2, <1>4 DEF TimeInv

LEMMA TimeStarts == WalkInit => TimeInv
  <1>1. SUFFICES ASSUME WalkInit PROVE TimeInv
    OBVIOUS
  <1>2. walk.stack = <<>> /\ StateNow.elapsed = 0 /\ clock.ran = 0
    BY <1>1 DEF WalkInit, StateNow, InWalk, NoWalk, Walking, FreshWalkState
  <1>3. PICK d \in Nat : d = Depth
    BY DepthNat
  <1>4. 0 <= (d + 1) * 0
    OBVIOUS
  <1>. QED  BY <1>2, <1>3, <1>4 DEF TimeInv, TimeOK

LEMMA TimeHolds == WalkSpec => []TimeInv
  BY PlaceHolds, TimeStarts, TimeStep, PTL DEF WalkSpec

LEMMA TimeSays ==
  ASSUME TimeInv
  PROVE  ElapsedCoversWork
  <1>1. ASSUME ~InWalk PROVE walk.stack = <<>> /\ StateNow = run.state
    BY <1>1 DEF InWalk, StateNow
  <1>. QED  BY <1>1 DEF TimeInv, TimeOK, ElapsedCoversWork

(* A run is charged the time its steps took, and no more than once for each     *)
(* level at which they are nested (_elapsedS, run-executor.ts): the budget       *)
(* total_running_seconds cannot be outrun by parking, nor used up by waiting.  *)
THEOREM TimeIsCharged == WalkSpec => []ElapsedCoversWork
  BY TimeHolds, TimeSays, PTL

----------------------------------------------------------------------------
(* The path of a step the calls stand at, level by level *)

LEMMA StackAt ==
  ASSUME WalkInv, PlaceInv, NEW s, s = walk.stack, NEW m \in 1 .. Len(s)
  PROVE  /\ FrameOK(s[m], settled) /\ FramePlace(s, m, decided) /\ manifest \in Manifests
         /\ m # 1 => m - 1 \in 1 .. Len(s) /\ Calls(s[m - 1], s[m])
         /\ m # Len(s) => m + 1 \in 1 .. Len(s) /\ Calls(s[m], s[m + 1]) /\ InList(s[m])
  <1>1. PICK n \in Nat : n = Len(s)
    BY WalkStack
  <1>2. s # <<>> /\ StackOK(s, settled) /\ manifest \in Manifests
    <2>1. n # 0
      BY <1>1
    <2>2. s # <<>>
      BY <1>1, <2>1, WalkStack
    <2>. QED  BY <2>2 DEF WalkInv, WalkOK
  <1>3. FrameOK(s[m], settled) /\ FramePlace(s, m, decided)
    BY <1>2 DEF StackOK, PlaceInv
  <1>4. \A k \in 2 .. n : Calls(s[k - 1], s[k])
    BY <1>1, <1>2 DEF StackOK
  <1>5. ASSUME m # 1 PROVE m - 1 \in 1 .. n /\ Calls(s[m - 1], s[m])
    BY <1>1, <1>4, <1>5
  <1>6. ASSUME m # n PROVE m + 1 \in 1 .. n /\ Calls(s[m], s[m + 1]) /\ InList(s[m])
    <2>1. m + 1 \in 2 .. n
      BY <1>1, <1>6
    <2>2. PICK k : k = m + 1
      OBVIOUS
    <2>3. Calls(s[k - 1], s[k]) /\ k - 1 = m
      BY <1>4, <2>1, <2>2
    <2>4. Calls(s[m], s[k])
      BY <2>3
    <2>. QED  BY <2>1, <2>2, <2>4 DEF Calls
  <1>. QED  BY <1>1, <1>2, <1>3, <1>5, <1>6

(* The path of the step the m-th call stands at, along the calls above it. *)
LEMMA PlaceLevels ==
  ASSUME WalkInv, PlaceInv, NEW s, s = walk.stack, NEW m \in 1 .. Len(s), InList(s[m]),
         NEW p, p = Under(s[m], 0)
  PROVE  /\ Len(p) = m /\ p \in Paths /\ p # <<>> /\ Last(p) = <<s[m].list[s[m].at], 0>>
         /\ \A k \in 1 .. m : /\ Down(p, k) = s[k].prefix /\ InList(s[k])
                              /\ p[k][1] = s[k].list[s[k].at] /\ StepAt(p, k) = Under(s[k], 0)
         /\ \A k \in 1 .. m : k # m =>
              StepAt(p, k) = Owner(s[k + 1].prefix) /\ p[k][2] = Last(s[k + 1].prefix)[2]
         /\ Before(p) \subseteq settled /\ Descends(p, m - 1, decided) /\ StepAt(p, m) = p
  <1>1. PICK f, S : f = s[m] /\ S = settled
    OBVIOUS
  <1>2. PICK n \in Nat : n = Len(s)
    BY WalkStack
  <1>3. FrameOK(f, S) /\ FramePlace(s, m, decided) /\ manifest \in Manifests /\ InList(f) /\ p = Under(f, 0)
    BY <1>1, StackAt
  <1>4. /\ p \in Paths /\ f.prefix \in Paths
        /\ Len(f.prefix) \in Nat /\ Len(p) = Len(f.prefix) + 1
        /\ \A k \in 1 .. Len(f.prefix) : /\ p[k] = f.prefix[k] /\ Down(p, k) = Down(f.prefix, k)
                                         /\ StepAt(p, k) = StepAt(f.prefix, k)
        /\ p[Len(p)] = <<f.list[f.at], 0>> /\ Down(p, Len(p)) = f.prefix
        /\ StepAt(p, Len(p)) = Under(f, 0)
        /\ p # <<>> /\ Last(p) = <<f.list[f.at], 0>>
    BY <1>3, UnderLevels
  <1>5. Len(f.prefix) = m - 1 /\ \A h \in 1 .. m : h # m => Down(f.prefix, h) = s[h].prefix
    BY <1>1, <1>3 DEF FramePlace
  <1>6. Len(p) = m /\ Down(p, m) = f.prefix /\ p[m] = <<f.list[f.at], 0>> /\ StepAt(p, m) = p
    BY <1>2, <1>3, <1>4, <1>5
  <1>7. ASSUME NEW k \in 1 .. m, k # m
        PROVE  Down(p, k) = s[k].prefix
    <2>1. k \in 1 .. Len(f.prefix)
      BY <1>2, <1>5, <1>7
    <2>. QED  BY <1>4, <1>5, <1>7, <2>1
  <1>8. ASSUME NEW k \in 1 .. m, k # m
        PROVE  /\ InList(s[k]) /\ p[k][1] = s[k].list[s[k].at] /\ StepAt(p, k) = Under(s[k], 0)
               /\ StepAt(p, k) = Owner(s[k + 1].prefix) /\ p[k][2] = Last(s[k + 1].prefix)[2]
    <2>1. PICK g, h, j : g = s[k] /\ j = k + 1 /\ h = s[j]
      OBVIOUS
    <2>2. k \in 1 .. n /\ k # n /\ j \in 1 .. n /\ j \in 1 .. m
      BY <1>2, <1>8, <2>1
    <2>3. FrameOK(g, S) /\ Calls(g, h) /\ InList(g)
      BY <1>1, <1>2, <2>1, <2>2, StackAt
    <2>4. FrameOK(h, S)
      BY <1>1, <1>2, <2>1, <2>2, StackAt
    <2>5. PICK i \in Nat : h.prefix = Under(g, i) /\ Last(h.prefix)[2] = i
      BY <1>3, <2>3, <2>4, CallsUnder
    <2>6. Down(p, j) = h.prefix
      BY <1>1, <1>6, <1>7, <2>1, <2>2
    <2>7. PICK q : q = Under(g, i)
      OBVIOUS
    <2>8. /\ q[Len(q)] = <<g.list[g.at], i>> /\ Len(q) = Len(g.prefix) + 1 /\ Down(q, Len(q)) = g.prefix
          /\ StepAt(q, Len(q)) = Under(g, 0)
      BY <1>3, <2>3, <2>7, UnderLevels
    <2>9. Len(q) = k
      <3>1. FramePlace(s, k, decided)
        BY <1>2, <2>2, StackAt
      <3>2. Len(g.prefix) = k - 1
        BY <2>1, <3>1 DEF FramePlace
      <3>. QED  BY <2>8, <3>2
    <2>10. Down(p, j)[k] = p[k]
      <3>1. p \in Seq(PathElts) /\ Len(p) = m
        BY <1>4, <1>6 DEF Paths
      <3>2. j - 1 = k /\ k \in 1 .. Len(p) /\ m \in Nat
        BY <1>6, <2>1
      <3>3. Down(p, j) = SubSeq(p, 1, k)
        BY <2>1, <3>2 DEF Down
      <3>4. /\ k \in 1 - 1 .. Len(p) /\ 1 \in 1 .. Len(p) + 1
            /\ k \in 1 .. k - 1 + 1 /\ 1 + k - 1 = k
        BY <1>6, <3>1, <3>2
      <3>5. SubSeq(p, 1, k)[k] = p[1 + k - 1]
        BY <3>1, <3>4, SubSeqProperties
      <3>. QED  BY <3>3, <3>4, <3>5
    <2>11. p[k] = <<g.list[g.at], i>>
      BY <2>5, <2>6, <2>7, <2>8, <2>9, <2>10
    <2>12. p[k][1] = g.list[g.at] /\ p[k][2] = i
      BY <2>11
    <2>13. StepAt(p, k) = Under(g, 0)
      BY <1>7, <1>8, <2>1, <2>12 DEF StepAt, Under
    <2>14. Under(g, 0) = Owner(h.prefix)
      BY <2>3 DEF Calls
    <2>. QED  BY <2>1, <2>3, <2>5, <2>12, <2>13, <2>14
  <1>9. p[m][1] = f.list[f.at]
    BY <1>6
  <1>10. Before(p) \subseteq settled
    BY <1>1, <1>3, BeforeHere
  <1>11. Descends(p, m - 1, decided)
    <2>1. PICK D : D = decided
      OBVIOUS
    <2>2. Descends(f.prefix, Len(f.prefix), D)
      BY <1>1, <1>3, <2>1 DEF FramePlace
    <2>3. Descends(p, Len(p) - 1, D)
      BY <1>3, <2>2, UnderDescends
    <2>. QED  BY <1>6, <2>1, <2>3
  <1>12. StepAt(p, m) = Under(f, 0)
    BY <1>3, <1>6
  <1>. QED  BY <1>1, <1>3, <1>4, <1>6, <1>7, <1>8, <1>9, <1>10, <1>11, <1>12

----------------------------------------------------------------------------
(* Rows, settled steps and calls *)

RowOK(p, X, S, D) ==
  /\ p \in Paths /\ p # <<>> /\ Last(p)[2] = 0
  /\ Before(p) \subseteq S /\ Descends(p, Len(p) - 1, D)
  /\ StepOf(p).if # "bad"
  /\ \A k \in 1 .. Len(p) : StepAt(p, k) \in X
RowMeans(p, status, done) ==
  /\ StepOf(p).kind \in {"condition", "for_each"} /\ status = "skipped" => p \in done
  /\ StepOf(p).kind = "approval" => status \notin {"running", "waiting"}

(* A step that let the walk go on is done, or goes on when it fails. *)
SettledOK(p, done) ==
  StepOf(p).if # "bad" /\ (p \notin done => StepOf(p).onError = "continue")

(* The step that made a call, seen from the path the call walks below. *)
CallOK(q, R, done, it) ==
  LET o == Owner(q)
  IN /\ o \in DOMAIN R /\ R[o].status = "running" /\ o \notin done
     /\ StepOf(o).kind = "for_each" => o \in DOMAIN it /\ it[o] = Last(q)[2]

RowAll(R, S, D, done, it, s, T) ==
  /\ \A p \in DOMAIN R : RowOK(p, DOMAIN R, S, D) /\ RowMeans(p, R[p].status, done)
  /\ \A p \in S : SettledOK(p, done)
  /\ \A k \in 1 .. Len(s) : k # 1 => CallOK(s[k].prefix, R, done, it)
  /\ \A p \in T : p \in DOMAIN R /\ StepOf(p).kind = "approval"

RowInv ==
  /\ RowAll(stepRows, settled, decided, StateNow.done, StateNow.iteration, walk.stack, DOMAIN tasks)
  /\ InWalk => run.status = "running"

LEMMA RowStill ==
  ASSUME NEW p, NEW X, NEW S, NEW D, RowOK(p, X, S, D), NEW X2, NEW S2, NEW D2,
         X \subseteq X2, S \subseteq S2, D \subseteq D2
  PROVE  RowOK(p, X2, S2, D2)
  <1>1. Descends(p, Len(p) - 1, D2)
    BY DescendsStill DEF RowOK
  <1>. QED  BY <1>1 DEF RowOK

(* What a step changes is about one path. *)
Off(x, R, R2, done, done2, it, it2) ==
  /\ \A o : o # x /\ o \in DOMAIN R => o \in DOMAIN R2 /\ R2[o] = R[o]
  /\ \A o : o # x /\ o \in DOMAIN R2 => o \in DOMAIN R
  /\ \A o : o # x /\ o \in done2 => o \in done
  /\ \A o : o # x => (o \in DOMAIN it2 <=> o \in DOMAIN it) /\ (o \in DOMAIN it => it2[o] = it[o])

LEMMA CallKept ==
  ASSUME NEW q, NEW x, NEW R, NEW R2, NEW done, NEW done2, NEW it, NEW it2,
         Off(x, R, R2, done, done2, it, it2), Owner(q) # x, CallOK(q, R, done, it)
  PROVE  CallOK(q, R2, done2, it2)
  <1>1. PICK o : o = Owner(q)
    OBVIOUS
  <1>2. /\ o \in DOMAIN R /\ R[o].status = "running" /\ o \notin done
        /\ StepOf(o).kind = "for_each" => o \in DOMAIN it /\ it[o] = Last(q)[2]
    BY <1>1 DEF CallOK
  <1>3. /\ o \in DOMAIN R2 /\ R2[o] = R[o] /\ o \notin done2
        /\ o \in DOMAIN it => o \in DOMAIN it2 /\ it2[o] = it[o]
    BY <1>1, <1>2 DEF Off
  <1>. QED  BY <1>1, <1>2, <1>3 DEF CallOK

LEMMA OffStops ==
  ASSUME WalkInv, PlaceInv, NEW result, NEW state, NEW t, NEW row, Stops(result, state, t, row),
         NEW st, NEW st2, st = StateNow, st2 = StateNow', NEW R2, R2 = stepRows', NEW p, p = Here
  PROVE  /\ Off(p, stepRows, R2, st.done, st2.done, st.iteration, st2.iteration)
         /\ R2 = Extend(stepRows, p, row) /\ row.status = RowStatus(result)
         /\ st2.iteration = st.iteration
         /\ st2.done = IF result \in {"completed", "skipped"} THEN st.done \cup {p} ELSE st.done
         /\ p \notin st.done
  <1>1. /\ Writes(st, st2, p, result, t) /\ InWalk /\ InWalk'
    BY StopsState
  <1>2. st = walk.state /\ st2 = walk'.state
    BY <1>1 DEF StateNow
  <1>3. PICK w, s, ran, since : w = walk' /\ s = walk.stack /\ ran = t /\ since = 0
    OBVIOUS
  <1>4. w = Finished(s, state, p, result, since, ran) /\ DOMAIN state = StateFields
        /\ state.iteration = walk.state.iteration
    BY <1>3 DEF Stops
  <1>5. w.state.iteration = state.iteration
    BY <1>4, FinishedState
  <1>6. st2.iteration = st.iteration
    BY <1>2, <1>3, <1>4, <1>5
  <1>7. st2.done = IF result \in {"completed", "skipped"} THEN st.done \cup {p} ELSE st.done
    BY <1>1 DEF Writes
  <1>8. R2 = Extend(stepRows, p, row) /\ row.status = RowStatus(result) /\ p \notin st.done
    BY <1>2 DEF Stops, NextRow
  <1>9. Off(p, stepRows, R2, st.done, st2.done, st.iteration, st2.iteration)
    BY <1>6, <1>7, <1>8 DEF Off, Extend
  <1>. QED  BY <1>6, <1>7, <1>8, <1>9

LEMMA OffEnters ==
  ASSUME WalkInv, PlaceInv, NEW n, NEW list, NEW state, Enters(n, list, state),
         NEW st, NEW st2, st = StateNow, st2 = StateNow', NEW R2, R2 = stepRows', NEW p, p = Here
  PROVE  /\ Off(p, stepRows, R2, st.done, st2.done, st.iteration, st2.iteration)
         /\ \E row : R2 = Extend(stepRows, p, row) /\ row.status = "running"
         /\ st2.done = st.done /\ p \notin st.done
         /\ \/ StepOf(p).kind = "condition" /\ st2.iteration = st.iteration
            \/ /\ StepOf(p).kind = "for_each" /\ st2.iteration = Extend(st.iteration, p, n)
               /\ n = At(st.iteration, p, 1)
  <1>1. /\ AtStepOf /\ InWalk /\ RowsTyped /\ R2 = RowStarted(p) /\ p \notin walk.state.done
        /\ DOMAIN walk.state = StateFields
    BY DEF Enters, AtStepOf, PlaceInv, WalkInv, WalkOK, StateOK
  <1>2. PICK row : R2 = Extend(stepRows, p, row) /\ row.status = "running"
    BY <1>1, RowStartedIs DEF NextRow
  <1>3. PICK s, g : s = walk.stack /\ walk' = Walking(Append(s, g), state, "none")
    BY DEF Enters
  <1>4. Append(s, g) # <<>>
    <2>1. s # <<>> /\ \E T : s \in Seq(T)
      BY <1>1, <1>3, WalkStack
    <2>. QED  BY <2>1, AppendIs
  <1>5. st = walk.state /\ st2 = state
    BY <1>1, <1>3, <1>4 DEF StateNow, InWalk, Walking
  <1>6. \/ StepOf(p).kind = "condition" /\ state = walk.state
        \/ /\ StepOf(p).kind = "for_each" /\ n = FirstOpen(p)
           /\ state = [walk.state EXCEPT !.iteration = Extend(@, p, n)]
    BY DEF Enters
  <1>7. CASE StepOf(p).kind = "condition" /\ state = walk.state
    <2>1. st2.done = st.done /\ p \notin st.done /\ st2.iteration = st.iteration
      BY <1>1, <1>5, <1>7
    <2>2. Off(p, stepRows, R2, st.done, st2.done, st.iteration, st2.iteration)
      BY <1>2, <2>1 DEF Off, Extend
    <2>. QED  BY <1>2, <1>7, <2>1, <2>2
  <1>8. CASE /\ StepOf(p).kind = "for_each" /\ n = FirstOpen(p)
             /\ state = [walk.state EXCEPT !.iteration = Extend(@, p, n)]
    <2>1. PICK x : x = Extend(walk.state.iteration, p, n)
      OBVIOUS
    <2>2. state = [walk.state EXCEPT !.iteration = x]
      BY <1>8, <2>1
    <2>3. state.done = walk.state.done /\ state.iteration = x
      BY <1>1, <2>2 DEF StateFields
    <2>4. st2.done = st.done /\ p \notin st.done /\ st2.iteration = Extend(st.iteration, p, n)
      BY <1>1, <1>5, <2>1, <2>3
    <2>5. n = At(st.iteration, p, 1)
      BY <1>5, <1>8 DEF FirstOpen
    <2>6. Off(p, stepRows, R2, st.done, st2.done, st.iteration, st2.iteration)
      BY <1>2, <2>4 DEF Off, Extend
    <2>. QED  BY <1>2, <1>8, <2>4, <2>5, <2>6
  <1>. QED  BY <1>6, <1>7, <1>8

LEMMA OffLeaves ==
  ASSUME WalkInv, PlaceInv, NEW result, NEW state, Leaves(result, state),
         NEW st, NEW st2, st = StateNow, st2 = StateNow', NEW R2, R2 = stepRows', NEW p, p = OwnerPath(Top)
  PROVE  /\ Off(p, stepRows, R2, st.done, st2.done, st.iteration, st2.iteration)
         /\ \E row : R2 = Extend(stepRows, p, row) /\ row.status = RowStatus(result)
         /\ st2.done = IF result \in {"completed", "skipped"} THEN st.done \cup {p} ELSE st.done
         /\ walk.ret # "completed" => st2.iteration = st.iteration
  <1>1. /\ Writes(st, st2, p, result, clock.ran - Top.since) /\ InWalk /\ InWalk'
    BY LeavesState
  <1>2. st = walk.state /\ st2 = walk'.state
    BY <1>1 DEF StateNow
  <1>3. PICK w, s, ran, since : w = walk' /\ s = Front(walk.stack) /\ ran = clock.ran /\ since = Top.since
    OBVIOUS
  <1>4. w = Finished(s, state, p, result, since, ran) /\ DOMAIN state = StateFields
    BY <1>3 DEF Leaves, OwnerEnds
  <1>5. w.state.iteration = state.iteration
    BY <1>4, FinishedState
  <1>6. st2.iteration = state.iteration
    BY <1>2, <1>3, <1>5
  <1>7. st2.done = IF result \in {"completed", "skipped"} THEN st.done \cup {p} ELSE st.done
    BY <1>1 DEF Writes
  <1>8. PICK status : status = RowStatus(result) /\ R2 = RowSet(p, status) /\ RowsTyped
    BY DEF Leaves, OwnerEnds, PlaceInv
  <1>9. PICK row : R2 = Extend(stepRows, p, row) /\ row.status = status
    BY <1>8, RowSetIs
  <1>10. \/ state = walk.state
         \/ walk.ret = "completed" /\ state.iteration = Without(walk.state.iteration, p)
    BY DEF Leaves
  <1>11. Off(p, stepRows, R2, st.done, st2.done, st.iteration, st2.iteration)
    <2>1. \/ st2.iteration = st.iteration
          \/ st2.iteration = Without(st.iteration, p)
      BY <1>2, <1>6, <1>10
    <2>2. \A o : o # p => (o \in DOMAIN st2.iteration <=> o \in DOMAIN st.iteration)
                           /\ (o \in DOMAIN st.iteration => st2.iteration[o] = st.iteration[o])
      BY <2>1 DEF Without
    <2>. QED  BY <1>7, <1>9, <2>2 DEF Off, Extend
  <1>. QED  BY <1>2, <1>6, <1>7, <1>8, <1>9, <1>10, <1>11

LEMMA OffRepeats ==
  ASSUME WalkInv, PlaceInv, NEW n, NEW loop, NEW state, Repeats(n, loop, state),
         NEW st, NEW st2, st = StateNow, st2 = StateNow', NEW R2, R2 = stepRows', NEW p, p = OwnerPath(Top)
  PROVE  /\ Off(p, stepRows, R2, st.done, st2.done, st.iteration, st2.iteration)
         /\ R2 = stepRows /\ st2.done = st.done
         /\ p \in DOMAIN st2.iteration /\ st2.iteration[p] = n
  <1>1. InWalk /\ R2 = stepRows
    BY DEF Repeats, Returning, OnlyWalk
  <1>2. PICK s, g : s = walk.stack /\ walk' = Walking(OnTop(s, g), state, "none")
    BY DEF Repeats
  <1>3. OnTop(s, g) # <<>>
    <2>1. s # <<>> /\ \E T : s \in Seq(T)
      BY <1>1, <1>2, WalkStack
    <2>. QED  BY <2>1, OnTopIs
  <1>4. st = walk.state /\ st2 = state
    BY <1>1, <1>2, <1>3 DEF StateNow, InWalk, Walking
  <1>5. st2.iteration = Extend(Without(st.iteration, p), p, n) /\ st2.done = st.done
    BY <1>4 DEF Repeats
  <1>6. Off(p, stepRows, R2, st.done, st2.done, st.iteration, st2.iteration)
    BY <1>1, <1>5 DEF Off, Extend, Without
  <1>7. p \in DOMAIN st2.iteration /\ st2.iteration[p] = n
    BY <1>5 DEF Extend
  <1>. QED  BY <1>1, <1>5, <1>6, <1>7

(* A step that leaves the rows, the tasks, and all that is known of the steps. *)
Rests ==
  \/ Start \/ ListEnds \/ RunTimesOut \/ GuardFails \/ Passes
  \/ WalkEnds \/ TimePasses \/ UNCHANGED walkVars

LEMMA RestSame ==
  ASSUME WalkInv, PlaceInv, Rests
  PROVE  UNCHANGED <<stepRows, decided, settled, tasks>> /\ StateNow' = StateNow
  <1>0. DOMAIN walk = {"stack", "state", "ret"} /\ DOMAIN run = {"status", "state"}
    BY DEF WalkInv, WalkOK
  <1>1. CASE Start
    <2>1. Frame(manifest.top, <<>>, clock.ran, NoLoop) = <<Frame(manifest.top, <<>>, clock.ran, NoLoop)>>[1]
      OBVIOUS
    <2>2. walk'.stack # <<>> /\ walk'.state = run.state /\ ~InWalk
      BY <1>1 DEF Start, Walking
    <2>. QED  BY <1>1, <2>2 DEF StateNow, InWalk, Start
  <1>2. CASE ListEnds \/ RunTimesOut \/ GuardFails
    <2>1. \E ret : walk' = [walk EXCEPT !.ret = ret]
      BY <1>2 DEF ListEnds, RunTimesOut, GuardFails
    <2>2. /\ walk'.stack = walk.stack /\ walk'.state = walk.state /\ run' = run
          /\ UNCHANGED <<stepRows, decided, settled, tasks>>
      BY <1>0, <1>2, <2>1 DEF ListEnds, RunTimesOut, GuardFails
    <2>. QED  BY <2>2 DEF StateNow, InWalk
  <1>3. CASE Passes
    <2>1. PICK T : walk.stack \in Seq(T) /\ walk.stack # <<>>
      BY <1>3, WalkStack DEF Passes, AtStepOf, InWalk
    <2>2. PICK g : walk'.stack = OnTop(walk.stack, g) /\ walk'.state = walk.state
      BY <1>0, <1>3 DEF Passes
    <2>3. walk'.stack # <<>>
      BY <2>1, <2>2, OnTopIs
    <2>. QED  BY <1>3, <2>1, <2>2, <2>3 DEF StateNow, InWalk, Passes, OnlyWalk
  <1>4. CASE WalkEnds
    BY <1>4 DEF WalkEnds, NoWalk, Walking, StateNow, InWalk
  <1>5. CASE TimePasses \/ UNCHANGED walkVars
    <2>1. walk' = walk /\ run' = run /\ UNCHANGED <<stepRows, decided, settled, tasks>>
      BY <1>5 DEF TimePasses, walkVars
    <2>. QED  BY <2>1 DEF StateNow, InWalk
  <1>. QED  BY <1>1, <1>2, <1>3, <1>4, <1>5 DEF Rests

LEMMA OffThrows ==
  ASSUME WalkInv, PlaceInv, StatementThrows,
         NEW st, NEW st2, st = StateNow, st2 = StateNow', NEW R2, R2 = stepRows', NEW p, p = Here
  PROVE  /\ Off(p, stepRows, R2, st.done, st2.done, st.iteration, st2.iteration)
         /\ \E row : R2 = Extend(stepRows, p, row) /\ row.status = "running"
         /\ st2 = st /\ p \notin st.done /\ StepOf(p).kind = "effect" /\ AtStepOf /\ StepOf(p).if # "bad"
  <1>0. DOMAIN walk = {"stack", "state", "ret"}
    BY DEF WalkInv, WalkOK
  <1>1. /\ AtStepOf /\ InWalk /\ RowsTyped /\ R2 = RowStarted(p) /\ p \notin walk.state.done
        /\ StepOf(p).kind = "effect" /\ Truthy(StepOf(p).if, walk.state)
    BY DEF StatementThrows, ToExecute, AtStepOf, PlaceInv
  <1>2. PICK row : R2 = Extend(stepRows, p, row) /\ row.status = "running"
    BY <1>1, RowStartedIs DEF NextRow
  <1>3. \/ run'.state = walk.state /\ walk' = NoWalk
        \/ walk' = [walk EXCEPT !.ret = "failed"]
    BY DEF StatementThrows
  <1>4. st2 = st /\ st = walk.state
    <2>1. CASE walk' = [walk EXCEPT !.ret = "failed"]
      BY <1>0, <1>1, <2>1 DEF StateNow, InWalk
    <2>. QED  BY <1>1, <1>3, <2>1 DEF NoWalk, Walking, StateNow, InWalk
  <1>5. Off(p, stepRows, R2, st.done, st2.done, st.iteration, st2.iteration)
    BY <1>2, <1>4 DEF Off, Extend
  <1>6. StepOf(p).if # "bad"
    BY <1>1, GuardTrue
  <1>. QED  BY <1>1, <1>2, <1>4, <1>5, <1>6

LEMMA OffDecide ==
  ASSUME WalkInv, PlaceInv, Decide,
         NEW st, NEW st2, st = StateNow, st2 = StateNow', NEW R2, R2 = stepRows', NEW T2, T2 = tasks'
  PROVE  \E q \in DOMAIN tasks, verdict \in {"approved", "rejected", "timeout"} :
           /\ tasks[q] = "pending" /\ T2 = [tasks EXCEPT ![q] = verdict]
           /\ run' = IF run.status # "paused" THEN run
                     ELSE [run EXCEPT !.status = IF ~Aborts(q, verdict) THEN "queued"
                                                 ELSE IF verdict = "timeout" THEN "failed" ELSE "canceled"]
           /\ Off(q, stepRows, R2, st.done, st2.done, st.iteration, st2.iteration) /\ st2 = st
           /\ \/ R2 = stepRows /\ stepRows[q].status # "paused"
              \/ /\ stepRows[q].status = "paused"
                 /\ \E row : /\ R2 = Extend(stepRows, q, row)
                             /\ row.status \in {"succeeded", "skipped", "failed"}
  <1>0. DOMAIN run = {"status", "state"} /\ walk' = walk
    BY DEF WalkInv, Decide
  <1>1. PICK q \in DOMAIN tasks, verdict \in {"approved", "rejected", "timeout"} :
           /\ tasks[q] = "pending" /\ T2 = [tasks EXCEPT ![q] = verdict]
           /\ R2 = IF stepRows[q].status # "paused" THEN stepRows ELSE RowSet(q, RowDecided(q, verdict))
           /\ run' = IF run.status # "paused" THEN run
                     ELSE [run EXCEPT !.status = IF ~Aborts(q, verdict) THEN "queued"
                                                 ELSE IF verdict = "timeout" THEN "failed" ELSE "canceled"]
    BY DEF Decide
  <1>2. run'.state = run.state
    BY <1>0, <1>1
  <1>3. st2 = st
    BY <1>0, <1>2 DEF StateNow, InWalk
  <1>4. CASE stepRows[q].status # "paused"
    <2>1. R2 = stepRows
      BY <1>1, <1>4
    <2>2. Off(q, stepRows, R2, st.done, st2.done, st.iteration, st2.iteration)
      BY <1>3, <2>1 DEF Off
    <2>. QED  BY <1>1, <1>3, <1>4, <2>1, <2>2
  <1>5. CASE stepRows[q].status = "paused"
    <2>1. PICK status : status = RowDecided(q, verdict)
      OBVIOUS
    <2>2. R2 = RowSet(q, status) /\ RowsTyped
      BY <1>1, <1>5, <2>1 DEF PlaceInv
    <2>3. PICK row : R2 = Extend(stepRows, q, row) /\ row.status = status
      BY <2>2, RowSetIs
    <2>4. status \in {"succeeded", "skipped", "failed"}
      BY <2>1 DEF RowDecided
    <2>5. Off(q, stepRows, R2, st.done, st2.done, st.iteration, st2.iteration)
      BY <1>3, <2>3 DEF Off, Extend
    <2>. QED  BY <1>1, <1>3, <1>5, <2>3, <2>4, <2>5
  <1>. QED  BY <1>4, <1>5

(* How long the paths of the calls are. *)
LEMMA OwnerLen ==
  ASSUME WalkInv, PlaceInv, NEW s, s = walk.stack, NEW k \in 1 .. Len(s), k # 1
  PROVE  /\ s[k].prefix # <<>> /\ Len(Owner(s[k].prefix)) = k - 1 /\ Last(Owner(s[k].prefix))[2] = 0
         /\ k - 1 \in 1 .. Len(s) /\ InList(s[k - 1]) /\ Owner(s[k].prefix) = Under(s[k - 1], 0)
  <1>1. k \in Nat /\ Len(s) \in Nat
    BY WalkStack
  <1>2. /\ k - 1 \in 1 .. Len(s) /\ Calls(s[k - 1], s[k])
    BY StackAt
  <1>3. PICK j : j = k - 1
    OBVIOUS
  <1>4. j \in 1 .. Len(s) /\ InList(s[j]) /\ Owner(s[k].prefix) = Under(s[j], 0) /\ s[k].prefix # <<>>
    BY <1>2, <1>3 DEF Calls
  <1>5. PICK p : p = Under(s[j], 0)
    OBVIOUS
  <1>6. Len(p) = j /\ Last(p) = <<s[j].list[s[j].at], 0>>
    BY <1>4, <1>5, PlaceLevels
  <1>. QED  BY <1>2, <1>3, <1>4, <1>5, <1>6

(* The step the walk stands at. *)
LEMMA HereAt ==
  ASSUME WalkInv, PlaceInv, AtStepOf, NEW s, s = walk.stack, NEW p, p = Here
  PROVE  /\ Len(s) \in 1 .. Len(s) /\ Len(s) \in Nat \ {0} /\ InList(s[Len(s)]) /\ p = Under(s[Len(s)], 0)
         /\ Len(p) = Len(s) /\ Top = s[Len(s)] /\ InWalk
         /\ \A k \in 1 .. Len(s) : k # 1 => Owner(s[k].prefix) # p
  <1>1. InWalk /\ InList(Top) /\ p = Under(Top, 0)
    BY Standing DEF AtStepOf
  <1>2. Len(s) \in Nat \ {0} /\ Top = s[Len(s)]
    BY <1>1, WalkStack
  <1>3. PICK m : m = Len(s)
    OBVIOUS
  <1>4. m \in 1 .. Len(s) /\ InList(s[m]) /\ p = Under(s[m], 0)
    BY <1>1, <1>2, <1>3
  <1>5. Len(p) = m
    BY <1>4, PlaceLevels
  <1>6. ASSUME NEW k \in 1 .. Len(s), k # 1 PROVE Owner(s[k].prefix) # p
    <2>1. Len(Owner(s[k].prefix)) = k - 1
      BY <1>6, OwnerLen
    <2>2. k - 1 # Len(s)
      BY <1>2
    <2>. QED  BY <1>3, <1>5, <2>1, <2>2
  <1>. QED  BY <1>1, <1>2, <1>3, <1>4, <1>5, <1>6

LEMMA HereRow ==
  ASSUME WalkInv, PlaceInv, RowInv, AtStepOf, NEW p, p = Here, StepOf(p).if # "bad",
         NEW X, DOMAIN stepRows \subseteq X, p \in X, NEW S2, settled \subseteq S2, NEW D2, decided \subseteq D2
  PROVE  RowOK(p, X, S2, D2)
  <1>1. PICK s, m : s = walk.stack /\ m = Len(s)
    OBVIOUS
  <1>2. m \in Nat \ {0} /\ m \in 1 .. Len(s) /\ InList(s[m]) /\ p = Under(s[m], 0) /\ Len(p) = m
    BY <1>1, HereAt
  <1>3. /\ p \in Paths /\ p # <<>> /\ Last(p) = <<s[m].list[s[m].at], 0>>
        /\ Before(p) \subseteq settled /\ Descends(p, m - 1, decided) /\ StepAt(p, m) = p
    BY <1>1, <1>2, PlaceLevels
  <1>4. \A k \in 1 .. m : k # m => StepAt(p, k) = Owner(s[k + 1].prefix)
    BY <1>1, <1>2, PlaceLevels
  <1>5. ASSUME NEW k \in 1 .. m PROVE StepAt(p, k) \in X
    <2>1. CASE k = m
      BY <1>3, <2>1
    <2>2. CASE k # m
      <3>1. PICK j : j = k + 1
        OBVIOUS
      <3>2. j \in 1 .. Len(s) /\ j # 1
        BY <1>1, <1>2, <2>2, <3>1
      <3>3. CallOK(s[j].prefix, stepRows, StateNow.done, StateNow.iteration)
        BY <1>1, <3>2 DEF RowInv, RowAll
      <3>. QED  BY <1>4, <2>2, <3>1, <3>3 DEF CallOK
    <2>. QED  BY <2>1, <2>2
  <1>6. Descends(p, Len(p) - 1, D2)
    BY <1>2, <1>3, DescendsStill
  <1>. QED  BY <1>2, <1>3, <1>5, <1>6 DEF RowOK

LEMMA RowsMove ==
  ASSUME RowInv, NEW st, st = StateNow, NEW x, NEW R2, NEW done2, NEW it2,
         Off(x, stepRows, R2, st.done, done2, st.iteration, it2),
         NEW S2, NEW D2, settled \subseteq S2, decided \subseteq D2, st.done \subseteq done2,
         x \in DOMAIN stepRows => x \in DOMAIN R2,
         x \in DOMAIN R2 => RowOK(x, DOMAIN R2, S2, D2) /\ RowMeans(x, R2[x].status, done2)
  PROVE  \A p \in DOMAIN R2 : RowOK(p, DOMAIN R2, S2, D2) /\ RowMeans(p, R2[p].status, done2)
  <1>1. DOMAIN stepRows \subseteq DOMAIN R2
    BY DEF Off
  <1>2. ASSUME NEW p \in DOMAIN R2, p # x
        PROVE  RowOK(p, DOMAIN R2, S2, D2) /\ RowMeans(p, R2[p].status, done2)
    <2>1. p \in DOMAIN stepRows /\ R2[p] = stepRows[p]
      BY <1>2 DEF Off
    <2>2. RowOK(p, DOMAIN stepRows, settled, decided) /\ RowMeans(p, stepRows[p].status, st.done)
      BY <2>1 DEF RowInv, RowAll
    <2>3. RowOK(p, DOMAIN R2, S2, D2)
      BY <1>1, <2>2, RowStill
    <2>. QED  BY <2>1, <2>2, <2>3 DEF RowMeans
  <1>. QED  BY <1>2

LEMMA CallsMove ==
  ASSUME RowInv, NEW st, st = StateNow, NEW x, NEW R2, NEW done2, NEW it2,
         Off(x, stepRows, R2, st.done, done2, st.iteration, it2),
         NEW s, s = walk.stack, NEW t, Stays(s, t), Len(s) \in Nat,
         \A k \in 1 .. Len(t) : k # 1 => Owner(s[k].prefix) # x
  PROVE  \A k \in 1 .. Len(t) : k # 1 => CallOK(t[k].prefix, R2, done2, it2)
  <1>1. ASSUME NEW k \in 1 .. Len(t), k # 1 PROVE CallOK(t[k].prefix, R2, done2, it2)
    <2>1. k \in 1 .. Len(s) /\ t[k].prefix = s[k].prefix
      BY DEF Stays, SameCall
    <2>2. PICK q : q = s[k].prefix
      OBVIOUS
    <2>3. CallOK(q, stepRows, st.done, st.iteration) /\ Owner(q) # x
      BY <1>1, <2>1, <2>2 DEF RowInv, RowAll
    <2>4. CallOK(q, R2, done2, it2)
      BY <2>3, CallKept
    <2>. QED  BY <2>1, <2>2, <2>4
  <1>. QED  BY <1>1

LEMMA RestCalls ==
  ASSUME WalkInv, PlaceInv, Rests, NEW s, NEW t, s = walk.stack, t = walk'.stack
  PROVE  Len(t) \in 0 .. 1 \/ Stays(s, t)
  <1>0. DOMAIN walk = {"stack", "state", "ret"}
    BY DEF WalkInv, WalkOK
  <1>1. PICK T : s \in Seq(T)
    BY WalkStack
  <1>2. CASE Start
    <2>1. PICK g : t = <<g>>
      BY <1>2 DEF Start, Walking
    <2>. QED  BY <2>1
  <1>3. CASE ListEnds \/ RunTimesOut \/ GuardFails \/ TimePasses \/ UNCHANGED walkVars
    <2>1. walk' = walk \/ \E ret : walk' = [walk EXCEPT !.ret = ret]
      BY <1>3 DEF ListEnds, RunTimesOut, GuardFails, TimePasses, walkVars
    <2>2. t = s
      BY <1>0, <2>1
    <2>. QED  BY <1>1, <2>2, SelfStays
  <1>4. CASE Passes
    <2>1. PICK g : t = OnTop(s, g) /\ g = [Top EXCEPT !.at = @ + 1]
      BY <1>0, <1>4 DEF Passes
    <2>2. s # <<>> /\ Top = Last(s) /\ DOMAIN Top = FrameFields
      BY <1>4, Standing DEF Passes, FrameOK
    <2>3. SameCall(Last(s), g)
      BY <2>1, <2>2 DEF SameCall, FrameFields
    <2>. QED  BY <1>1, <2>1, <2>2, <2>3, OnTopStays
  <1>5. CASE WalkEnds
    <2>1. t = <<>>
      BY <1>5 DEF WalkEnds, NoWalk, Walking
    <2>. QED  BY <2>1
  <1>. QED  BY <1>2, <1>3, <1>4, <1>5 DEF Rests

LEMMA RowRests ==
  ASSUME WalkInv, PlaceInv, RowInv, Rests,
         NEW st2, st2 = StateNow', NEW R2, R2 = stepRows', NEW S2, S2 = settled', NEW D2, D2 = decided',
         NEW t, t = walk'.stack, NEW T2, T2 = DOMAIN tasks'
  PROVE  RowAll(R2, S2, D2, st2.done, st2.iteration, t, T2)
  <1>1. R2 = stepRows /\ S2 = settled /\ D2 = decided /\ st2 = StateNow /\ T2 = DOMAIN tasks
    BY RestSame
  <1>2. PICK s : s = walk.stack
    OBVIOUS
  <1>3. ASSUME NEW k \in 1 .. Len(t), k # 1 PROVE CallOK(t[k].prefix, R2, st2.done, st2.iteration)
    <2>1. Stays(s, t)
      <3>1. ASSUME Len(t) \in 0 .. 1 PROVE FALSE
        <4>1. PICK n \in 0 .. 1 : n = Len(t)
          BY <3>1
        <4>2. k \in 1 .. n
          BY <4>1
        <4>. QED  BY <1>3, <4>2
      <3>. QED  BY <1>2, <3>1, RestCalls
    <2>2. Len(s) \in Nat
      BY <1>2, WalkStack
    <2>3. k \in 1 .. Len(s) /\ t[k].prefix = s[k].prefix
      BY <2>1, <2>2 DEF Stays, SameCall
    <2>4. CallOK(s[k].prefix, stepRows, StateNow.done, StateNow.iteration)
      BY <1>2, <1>3, <2>3 DEF RowInv, RowAll
    <2>. QED  BY <1>1, <2>3, <2>4
  <1>. QED  BY <1>1, <1>3 DEF RowInv, RowAll

(* What became of the tasks, and what the row of a gate says. *)
LEMMA OutcomeRows ==
  ASSUME NEW result, Outcome(result), NEW p, p = Here, NEW status, status = RowStatus(result)
  PROVE  /\ status # "running" /\ (status = "skipped" => result = "skipped")
         /\ StepOf(p).kind = "approval" => status # "waiting"
         /\ status = "waiting" => StepOf(p).kind = "delay"
         /\ status = "paused" => StepOf(p).kind = "approval"
         /\ \/ DOMAIN tasks' = DOMAIN tasks
            \/ StepOf(p).kind = "approval" /\ DOMAIN tasks' = DOMAIN tasks \cup {p}
  <1>1. CASE AskStep /\ result \in {"paused", "completed", "failed", "skipped"}
    <2>1. StepOf(p).kind = "approval"
      BY <1>1 DEF AskStep, ToExecute
    <2>2. tasks' = tasks \/ tasks' = Extend(tasks, p, "pending")
      BY <1>1 DEF AskStep
    <2>. QED  BY <1>1, <2>1, <2>2 DEF RowStatus, Extend
  <1>2. CASE WaitStep /\ result \in {"waiting", "completed"} /\ tasks' = tasks
    <2>1. StepOf(p).kind = "delay"
      BY <1>2 DEF WaitStep, ToExecute
    <2>. QED  BY <1>2, <2>1 DEF RowStatus
  <1>3. CASE result \in {"skipped", "completed", "failed"} /\ tasks' = tasks
    BY <1>3 DEF RowStatus
  <1>. QED  BY <1>1, <1>2, <1>3 DEF Outcome

LEMMA RowStops ==
  ASSUME WalkInv, PlaceInv, RowInv, NEW result, NEW state, NEW u, NEW row,
         Stops(result, state, u, row), Outcome(result), decided \subseteq decided',
         NEW st2, st2 = StateNow', NEW R2, R2 = stepRows', NEW S2, S2 = settled', NEW D2, D2 = decided',
         NEW t, t = walk'.stack, NEW T2, T2 = DOMAIN tasks'
  PROVE  RowAll(R2, S2, D2, st2.done, st2.iteration, t, T2)
  <1>1. PICK p, s, st, status : p = Here /\ s = walk.stack /\ st = StateNow /\ status = RowStatus(result)
    OBVIOUS
  <1>2. /\ Off(p, stepRows, R2, st.done, st2.done, st.iteration, st2.iteration)
        /\ R2 = Extend(stepRows, p, row) /\ row.status = status
        /\ st2.done = IF result \in {"completed", "skipped"} THEN st.done \cup {p} ELSE st.done
        /\ p \notin st.done
    BY <1>1, OffStops
  <1>3. /\ AtStepOf /\ StepOf(p).if # "bad"
        /\ S2 = IF result \in {"completed", "skipped"} \/ (result = "failed" /\ StepOf(p).onError = "continue")
                THEN settled \cup {p} ELSE settled
    BY <1>1 DEF Stops, SettledBy
  <1>4. /\ status # "running" /\ (status = "skipped" => result = "skipped")
        /\ StepOf(p).kind = "approval" => status # "waiting"
        /\ \/ T2 = DOMAIN tasks
           \/ StepOf(p).kind = "approval" /\ T2 = DOMAIN tasks \cup {p}
    BY <1>1, OutcomeRows
  <1>5. settled \subseteq S2 /\ decided \subseteq D2 /\ st.done \subseteq st2.done
    BY <1>2, <1>3
  <1>6. DOMAIN R2 = DOMAIN stepRows \cup {p} /\ R2[p].status = status
    BY <1>2 DEF Extend
  <1>7. RowOK(p, DOMAIN R2, S2, D2)
    BY <1>1, <1>3, <1>5, <1>6, HereRow
  <1>8. RowMeans(p, R2[p].status, st2.done)
    BY <1>2, <1>4, <1>6 DEF RowMeans
  <1>9. \A q \in DOMAIN R2 : RowOK(q, DOMAIN R2, S2, D2) /\ RowMeans(q, R2[q].status, st2.done)
    BY <1>1, <1>2, <1>5, <1>6, <1>7, <1>8, RowsMove
  <1>10. \A q \in S2 : SettledOK(q, st2.done)
    <2>1. \A q \in settled : SettledOK(q, st.done)
      BY <1>1 DEF RowInv, RowAll
    <2>2. p \in S2 => p \in settled \/ SettledOK(p, st2.done)
      BY <1>2, <1>3 DEF SettledOK
    <2>. QED  BY <1>3, <1>5, <2>1, <2>2 DEF SettledOK
  <1>11. \A k \in 1 .. Len(t) : k # 1 => CallOK(t[k].prefix, R2, st2.done, st2.iteration)
    <2>1. Stays(s, t) /\ Len(t) = Len(s) /\ Len(s) \in Nat
      BY <1>1, StopsStays, WalkStack
    <2>2. \A k \in 1 .. Len(t) : k # 1 => Owner(s[k].prefix) # p
      BY <1>1, <1>3, <2>1, HereAt
    <2>. QED  BY <1>1, <1>2, <2>1, <2>2, CallsMove
  <1>12. \A q \in T2 : q \in DOMAIN R2 /\ StepOf(q).kind = "approval"
    <2>1. \A q \in DOMAIN tasks : q \in DOMAIN stepRows /\ StepOf(q).kind = "approval"
      BY DEF RowInv, RowAll
    <2>. QED  BY <1>4, <1>6, <2>1
  <1>. QED  BY <1>9, <1>10, <1>11, <1>12 DEF RowAll

LEMMA RowEnters ==
  ASSUME WalkInv, PlaceInv, RowInv, NEW n, NEW list, NEW state, Enters(n, list, state), decided \subseteq decided',
         NEW st2, st2 = StateNow', NEW R2, R2 = stepRows', NEW S2, S2 = settled', NEW D2, D2 = decided',
         NEW t, t = walk'.stack, NEW T2, T2 = DOMAIN tasks'
  PROVE  RowAll(R2, S2, D2, st2.done, st2.iteration, t, T2)
  <1>1. PICK p, s, st : p = Here /\ s = walk.stack /\ st = StateNow
    OBVIOUS
  <1>2. /\ Off(p, stepRows, R2, st.done, st2.done, st.iteration, st2.iteration)
        /\ st2.done = st.done /\ p \notin st.done
        /\ \/ StepOf(p).kind = "condition" /\ st2.iteration = st.iteration
           \/ StepOf(p).kind = "for_each" /\ st2.iteration = Extend(st.iteration, p, n)
    BY <1>1, OffEnters
  <1>3. PICK row : R2 = Extend(stepRows, p, row) /\ row.status = "running"
    BY <1>1, OffEnters
  <1>4. AtStepOf /\ StepOf(p).if # "bad" /\ S2 = settled /\ T2 = DOMAIN tasks /\ decided \subseteq D2
    BY <1>1 DEF Enters
  <1>5. DOMAIN R2 = DOMAIN stepRows \cup {p} /\ R2[p].status = "running"
    BY <1>3 DEF Extend
  <1>6. RowOK(p, DOMAIN R2, S2, D2)
    BY <1>1, <1>4, <1>5, HereRow
  <1>7. RowMeans(p, R2[p].status, st2.done)
    BY <1>2, <1>5 DEF RowMeans
  <1>8. \A q \in DOMAIN R2 : RowOK(q, DOMAIN R2, S2, D2) /\ RowMeans(q, R2[q].status, st2.done)
    BY <1>1, <1>2, <1>4, <1>5, <1>6, <1>7, RowsMove
  <1>9. \A q \in S2 : SettledOK(q, st2.done)
    BY <1>1, <1>2, <1>4 DEF RowInv, RowAll
  <1>10. ASSUME NEW k \in 1 .. Len(t), k # 1 PROVE CallOK(t[k].prefix, R2, st2.done, st2.iteration)
    <2>1. PICK T : s \in Seq(T)
      BY <1>1, WalkStack
    <2>2. PICK m \in Nat \ {0} : m = Len(s)
      BY <1>1, <1>4, HereAt
    <2>3. PICK g : g = Frame(list, Under(Top, n), clock.ran, NoLoop)
      OBVIOUS
    <2>4. t = Append(s, g)
      BY <1>1, <2>3 DEF Enters, Walking
    <2>5. Len(t) = m + 1 /\ t[m + 1] = g /\ \A j \in 1 .. m : t[j] = s[j]
      BY <2>1, <2>2, <2>4, AppendIs
    <2>6. CASE k = m + 1
      <3>1. g.prefix = Under(Top, n) /\ n \in Nat
        BY <2>3 DEF Frame, Enters
      <3>2. FrameOK(Top, settled) /\ InList(Top) /\ p = Under(Top, 0) /\ manifest \in Manifests
        BY <1>1, <1>4, Standing DEF WalkInv
      <3>3. Last(Under(Top, n)) = <<Top.list[Top.at], n>> /\ Owner(Under(Top, n)) = Under(Top, 0)
        BY <3>1, <3>2, BeforeHere
      <3>4. PICK q, x : q = g.prefix /\ x = <<Top.list[Top.at], n>>
        OBVIOUS
      <3>5. Owner(q) = p /\ Last(q) = x /\ x[2] = n
        BY <3>1, <3>2, <3>3, <3>4
      <3>6. StepOf(p).kind = "for_each" => p \in DOMAIN st2.iteration /\ st2.iteration[p] = Last(q)[2]
        BY <1>2, <3>5 DEF Extend
      <3>7. CallOK(q, R2, st2.done, st2.iteration)
        BY <1>2, <1>5, <3>5, <3>6 DEF CallOK
      <3>. QED  BY <2>5, <2>6, <3>4, <3>7
    <2>7. CASE k # m + 1
      <3>1. k \in 1 .. m /\ t[k] = s[k]
        BY <2>5, <2>7
      <3>2. PICK q : q = s[k].prefix
        OBVIOUS
      <3>3. CallOK(q, stepRows, st.done, st.iteration) /\ Owner(q) # p
        BY <1>1, <1>4, <1>10, <2>2, <3>1, <3>2, HereAt DEF RowInv, RowAll
      <3>4. CallOK(q, R2, st2.done, st2.iteration)
        BY <1>2, <3>3, CallKept
      <3>. QED  BY <3>1, <3>2, <3>4
    <2>. QED  BY <2>6, <2>7
  <1>11. \A q \in T2 : q \in DOMAIN R2 /\ StepOf(q).kind = "approval"
    BY <1>4, <1>5 DEF RowInv, RowAll
  <1>. QED  BY <1>8, <1>9, <1>10, <1>11 DEF RowAll

(* The turn a call took: the branch that was decided for, or the round. *)
LEMMA OwnerTurn ==
  ASSUME WalkInv, PlaceInv, NEW s, s = walk.stack, NEW k \in 1 .. Len(s), k # 1,
         NEW q, q = s[k].prefix, NEW o, o = Owner(q)
  PROVE  /\ TurnOf(Last(o)[1], o, Last(q)[2], decided) /\ StepOf(o).kind \in {"condition", "for_each"}
         /\ Last(q)[1] = Last(o)[1] /\ Step(Last(q)[1]) = StepOf(o) /\ q # <<>> /\ q \in Paths
         /\ Len(q) = k - 1 /\ q[k - 1] = Last(q) /\ Front(q) = Front(o)
  <1>1. k \in Nat /\ Len(s) \in Nat /\ k - 1 \in Nat \ {0}
    BY WalkStack
  <1>2. FramePlace(s, k, decided) /\ FrameOK(s[k], settled)
    BY StackAt
  <1>3. q \in Paths /\ Len(q) = k - 1 /\ Descends(q, Len(q), decided)
    BY <1>2 DEF FramePlace, FrameOK
  <1>4. PICK j \in Nat \ {0} : j = k - 1
    BY <1>1
  <1>5. q # <<>> /\ q \in Seq(PathElts) /\ Len(q) = j
    BY <1>1, <1>3, <1>4, OwnerLen DEF Paths
  <1>6. Last(q) = q[j]
    BY <1>5, Popped
  <1>7. Front(q) \in Seq(PathElts) /\ Front(q) = Down(q, j)
    BY <1>5, Popped DEF Down, Front
  <1>8. PICK x : x = <<Last(q)[1], 0>>
    OBVIOUS
  <1>9. x \in PathElts
    <2>1. Last(q) \in PathElts
      BY <1>5, Popped
    <2>. QED  BY <1>8, <2>1 DEF PathElts
  <1>10. o = Append(Front(q), x)
    BY <1>8 DEF Owner
  <1>11. Last(o) = x /\ Front(o) = Front(q)
    BY <1>7, <1>9, <1>10, Pushed
  <1>12. StepAt(q, j) = o
    BY <1>6, <1>7, <1>8, <1>10 DEF StepAt
  <1>13. TurnOf(q[j][1], StepAt(q, j), q[j][2], decided)
    <2>1. j \in 1 .. Len(q) /\ j <= Len(q)
      BY <1>5
    <2>. QED  BY <1>3, <2>1 DEF Descends
  <1>14. x[1] = Last(q)[1]
    BY <1>8
  <1>15. TurnOf(Last(o)[1], o, Last(q)[2], decided) /\ Last(o)[1] = Last(q)[1]
    BY <1>6, <1>11, <1>12, <1>13, <1>14
  <1>16. StepOf(o).kind \in {"condition", "for_each"}
    BY <1>15 DEF TurnOf, StepOf
  <1>. QED  BY <1>3, <1>4, <1>5, <1>6, <1>11, <1>15, <1>16 DEF StepOf

LEMMA RowLeaves ==
  ASSUME WalkInv, PlaceInv, RowInv, NEW result, NEW state, Leaves(result, state),
         NEW st2, st2 = StateNow', NEW R2, R2 = stepRows', NEW S2, S2 = settled', NEW D2, D2 = decided',
         NEW t, t = walk'.stack, NEW T2, T2 = DOMAIN tasks'
  PROVE  RowAll(R2, S2, D2, st2.done, st2.iteration, t, T2)
  <1>1. PICK p, s, st, status : p = OwnerPath(Top) /\ s = walk.stack /\ st = StateNow /\ status = RowStatus(result)
    OBVIOUS
  <1>2. /\ Off(p, stepRows, R2, st.done, st2.done, st.iteration, st2.iteration)
        /\ \E row : R2 = Extend(stepRows, p, row) /\ row.status = RowStatus(result)
        /\ st2.done = IF result \in {"completed", "skipped"} THEN st.done \cup {p} ELSE st.done
    BY <1>1, OffLeaves
  <1>3. PICK row : R2 = Extend(stepRows, p, row) /\ row.status = status
    BY <1>1, <1>2
  <1>4. /\ Returning /\ decided \subseteq D2 /\ T2 = DOMAIN tasks
        /\ S2 = IF result \in {"completed", "skipped"} \/ (result = "failed" /\ StepOf(p).onError = "continue")
                THEN settled \cup {p} ELSE settled
    BY <1>1 DEF Leaves, OwnerEnds, SettledBy
  <1>5. settled \subseteq S2 /\ st.done \subseteq st2.done
    BY <1>2, <1>4
  <1>6. PICK m \in Nat \ {0} : m = Len(s)
    BY <1>1, <1>4, WalkStack DEF Returning
  <1>7. m # 1 /\ m \in 1 .. Len(s) /\ Top = s[m]
    BY <1>1, <1>4, <1>6, WalkStack DEF Returning, TopLevel
  <1>8. p = Owner(s[m].prefix)
    BY <1>1, <1>4, <1>7, ReturningTo
  <1>9. p \in DOMAIN stepRows /\ p \notin st.done
    BY <1>1, <1>7, <1>8 DEF RowInv, RowAll, CallOK
  <1>10. StepOf(p).kind \in {"condition", "for_each"}
    BY <1>1, <1>7, <1>8, OwnerTurn
  <1>11. result \in {"completed", "failed", "waiting", "paused"}
    BY <1>4 DEF Leaves, PlaceInv, Returns, Returning
  <1>12. status # "skipped"
    BY <1>1, <1>11 DEF RowStatus
  <1>13. DOMAIN R2 = DOMAIN stepRows /\ R2[p].status = status
    BY <1>3, <1>9 DEF Extend
  <1>14. RowOK(p, DOMAIN R2, S2, D2) /\ StepOf(p).if # "bad"
    <2>1. RowOK(p, DOMAIN stepRows, settled, decided)
      BY <1>9 DEF RowInv, RowAll
    <2>2. RowOK(p, DOMAIN R2, S2, D2)
      BY <1>4, <1>5, <1>13, <2>1, RowStill
    <2>. QED  BY <2>1, <2>2 DEF RowOK
  <1>15. RowMeans(p, R2[p].status, st2.done)
    BY <1>10, <1>12, <1>13 DEF RowMeans
  <1>16. \A q \in DOMAIN R2 : RowOK(q, DOMAIN R2, S2, D2) /\ RowMeans(q, R2[q].status, st2.done)
    BY <1>1, <1>2, <1>4, <1>5, <1>13, <1>14, <1>15, RowsMove
  <1>17. \A q \in S2 : SettledOK(q, st2.done)
    <2>1. \A q \in settled : SettledOK(q, st.done)
      BY <1>1 DEF RowInv, RowAll
    <2>2. p \in S2 => p \in settled \/ SettledOK(p, st2.done)
      BY <1>2, <1>4, <1>14 DEF SettledOK
    <2>. QED  BY <1>4, <1>5, <2>1, <2>2 DEF SettledOK
  <1>18. \A k \in 1 .. Len(t) : k # 1 => CallOK(t[k].prefix, R2, st2.done, st2.iteration)
    <2>1. Stays(s, t) /\ Len(t) = m - 1 /\ Len(s) \in Nat
      BY <1>1, <1>6, LeavesStays
    <2>2. ASSUME NEW k \in 1 .. Len(t), k # 1 PROVE Owner(s[k].prefix) # p
      <3>1. k \in 1 .. Len(s) /\ k # m
        BY <1>6, <2>1
      <3>2. Len(Owner(s[k].prefix)) = k - 1 /\ Len(Owner(s[m].prefix)) = m - 1
        BY <1>1, <1>7, <2>2, <3>1, OwnerLen
      <3>3. k - 1 # m - 1
        BY <1>6, <3>1
      <3>. QED  BY <1>8, <3>2, <3>3
    <2>. QED  BY <1>1, <1>2, <2>1, <2>2, CallsMove
  <1>19. \A q \in T2 : q \in DOMAIN R2 /\ StepOf(q).kind = "approval"
    BY <1>4, <1>13 DEF RowInv, RowAll
  <1>. QED  BY <1>16, <1>17, <1>18, <1>19 DEF RowAll

LEMMA RowRepeats ==
  ASSUME WalkInv, PlaceInv, RowInv, NEW n, NEW loop, NEW state, Repeats(n, loop, state),
         NEW st2, st2 = StateNow', NEW R2, R2 = stepRows', NEW S2, S2 = settled', NEW D2, D2 = decided',
         NEW t, t = walk'.stack, NEW T2, T2 = DOMAIN tasks'
  PROVE  RowAll(R2, S2, D2, st2.done, st2.iteration, t, T2)
  <1>1. PICK p, s, st : p = OwnerPath(Top) /\ s = walk.stack /\ st = StateNow
    OBVIOUS
  <1>2. /\ Off(p, stepRows, R2, st.done, st2.done, st.iteration, st2.iteration)
        /\ R2 = stepRows /\ st2.done = st.done
        /\ p \in DOMAIN st2.iteration /\ st2.iteration[p] = n
    BY <1>1, OffRepeats
  <1>3. Returning /\ D2 = decided /\ T2 = DOMAIN tasks /\ S2 = settled
    BY DEF Repeats, OnlyWalk
  <1>4. PICK m \in Nat \ {0} : m = Len(s)
    BY <1>1, <1>3, WalkStack DEF Returning
  <1>5. m # 1 /\ m \in 1 .. Len(s) /\ Top = s[m]
    BY <1>1, <1>3, <1>4, WalkStack DEF Returning, TopLevel
  <1>6. p = Owner(s[m].prefix)
    BY <1>1, <1>3, <1>5, ReturningTo
  <1>7. p \in DOMAIN stepRows /\ p \notin st.done /\ stepRows[p].status = "running"
    BY <1>1, <1>5, <1>6 DEF RowInv, RowAll, CallOK
  <1>8. PICK g : g = Frame(Top.list, NextPrefix(n), Top.since, loop)
    OBVIOUS
  <1>9. t = OnTop(s, g)
    BY <1>1, <1>8 DEF Repeats, Walking, NextPrefix
  <1>10. PICK T : s \in Seq(T)
    BY <1>1, WalkStack
  <1>11. Len(t) = m /\ t[m] = g /\ \A j \in 1 .. m - 1 : t[j] = s[j]
    <2>1. s # <<>>
      BY <1>4, <1>5
    <2>. QED  BY <1>4, <1>9, <1>10, <2>1, OnTopIs
  <1>12. PICK f : f = Last(Front(walk.stack))
    OBVIOUS
  <1>13. n \in Nat \ {0} /\ NextPrefix(n) = Under(f, n)
    <2>1. decided \subseteq decided
      OBVIOUS
    <2>. QED  BY <1>12, <2>1, RepeatsUnder
  <1>14. manifest \in Manifests /\ FrameOK(f, settled) /\ InList(f) /\ p = Under(f, 0)
    BY <1>1, <1>3, <1>12, CalledFrom
  <1>15. Last(Under(f, n)) = <<f.list[f.at], n>> /\ Owner(Under(f, n)) = Under(f, 0)
    BY <1>13, <1>14, BeforeHere
  <1>16. PICK q, x : q = g.prefix /\ x = <<f.list[f.at], n>>
    OBVIOUS
  <1>17. q = Under(f, n)
    BY <1>8, <1>13, <1>16 DEF Frame
  <1>18. Owner(q) = p /\ Last(q) = x /\ x[2] = n
    BY <1>14, <1>15, <1>16, <1>17
  <1>19. ASSUME NEW k \in 1 .. Len(t), k # 1 PROVE CallOK(t[k].prefix, R2, st2.done, st2.iteration)
    <2>1. CASE k = m
      <3>1. CallOK(q, R2, st2.done, st2.iteration)
        BY <1>2, <1>7, <1>18 DEF CallOK
      <3>. QED  BY <1>11, <1>16, <2>1, <3>1
    <2>2. CASE k # m
      <3>1. k \in 1 .. m - 1 /\ t[k] = s[k] /\ k \in 1 .. Len(s)
        BY <1>4, <1>11, <2>2
      <3>2. PICK r : r = s[k].prefix
        OBVIOUS
      <3>3. Len(Owner(s[k].prefix)) = k - 1 /\ Len(Owner(s[m].prefix)) = m - 1
        BY <1>1, <1>5, <1>19, <3>1, OwnerLen
      <3>4. k - 1 # m - 1
        BY <1>4, <3>1
      <3>5. CallOK(r, stepRows, st.done, st.iteration) /\ Owner(r) # p
        BY <1>1, <1>6, <1>19, <3>1, <3>2, <3>3, <3>4 DEF RowInv, RowAll
      <3>6. CallOK(r, R2, st2.done, st2.iteration)
        BY <1>2, <3>5, CallKept
      <3>. QED  BY <3>1, <3>2, <3>6
    <2>. QED  BY <2>1, <2>2
  <1>. QED  BY <1>1, <1>2, <1>3, <1>19 DEF RowInv, RowAll

LEMMA RowThrows ==
  ASSUME WalkInv, PlaceInv, RowInv, StatementThrows,
         NEW st2, st2 = StateNow', NEW R2, R2 = stepRows', NEW S2, S2 = settled', NEW D2, D2 = decided',
         NEW t, t = walk'.stack, NEW T2, T2 = DOMAIN tasks'
  PROVE  RowAll(R2, S2, D2, st2.done, st2.iteration, t, T2)
  <1>1. PICK p, s, st : p = Here /\ s = walk.stack /\ st = StateNow
    OBVIOUS
  <1>2. /\ Off(p, stepRows, R2, st.done, st2.done, st.iteration, st2.iteration)
        /\ \E row : R2 = Extend(stepRows, p, row) /\ row.status = "running"
        /\ st2 = st /\ p \notin st.done /\ StepOf(p).kind = "effect" /\ AtStepOf /\ StepOf(p).if # "bad"
    BY <1>1, OffThrows
  <1>3. PICK row : R2 = Extend(stepRows, p, row) /\ row.status = "running"
    BY <1>2
  <1>4. S2 = settled /\ D2 = decided /\ T2 = DOMAIN tasks
    BY DEF StatementThrows
  <1>5. DOMAIN R2 = DOMAIN stepRows \cup {p} /\ R2[p].status = "running"
    BY <1>3 DEF Extend
  <1>6. RowOK(p, DOMAIN R2, S2, D2)
    BY <1>1, <1>2, <1>4, <1>5, HereRow
  <1>7. RowMeans(p, R2[p].status, st2.done)
    BY <1>2, <1>5 DEF RowMeans
  <1>8. \A q \in DOMAIN R2 : RowOK(q, DOMAIN R2, S2, D2) /\ RowMeans(q, R2[q].status, st2.done)
    BY <1>1, <1>2, <1>4, <1>5, <1>6, <1>7, RowsMove
  <1>9. \A k \in 1 .. Len(t) : k # 1 => CallOK(t[k].prefix, R2, st2.done, st2.iteration)
    <2>1. t = <<>> \/ t = s
      <3>1. DOMAIN walk = {"stack", "state", "ret"}
        BY DEF WalkInv, WalkOK
      <3>2. walk' = NoWalk \/ walk' = [walk EXCEPT !.ret = "failed"]
        BY DEF StatementThrows
      <3>. QED  BY <1>1, <3>1, <3>2 DEF NoWalk, Walking
    <2>2. CASE t = <<>>
      BY <2>2
    <2>3. CASE t = s
      <3>1. PICK T : s \in Seq(T)
        BY <1>1, WalkStack
      <3>2. Stays(s, t) /\ Len(s) \in Nat
        BY <2>3, <3>1, SelfStays, LenProperties
      <3>3. \A k \in 1 .. Len(t) : k # 1 => Owner(s[k].prefix) # p
        BY <1>1, <1>2, <2>3, HereAt
      <3>. QED  BY <1>1, <1>2, <3>2, <3>3, CallsMove
    <2>. QED  BY <2>1, <2>2, <2>3
  <1>10. \A q \in S2 : SettledOK(q, st2.done)
    BY <1>1, <1>2, <1>4 DEF RowInv, RowAll
  <1>11. \A q \in T2 : q \in DOMAIN R2 /\ StepOf(q).kind = "approval"
    BY <1>4, <1>5 DEF RowInv, RowAll
  <1>. QED  BY <1>8, <1>9, <1>10, <1>11 DEF RowAll

LEMMA RowDecides ==
  ASSUME WalkInv, PlaceInv, RowInv, Decide,
         NEW st2, st2 = StateNow', NEW R2, R2 = stepRows', NEW S2, S2 = settled', NEW D2, D2 = decided',
         NEW t, t = walk'.stack, NEW T2, T2 = DOMAIN tasks'
  PROVE  RowAll(R2, S2, D2, st2.done, st2.iteration, t, T2)
  <1>1. PICK s, st, tasks2 : s = walk.stack /\ st = StateNow /\ tasks2 = tasks'
    OBVIOUS
  <1>2. PICK p \in DOMAIN tasks, verdict \in {"approved", "rejected", "timeout"} :
          /\ tasks2 = [tasks EXCEPT ![p] = verdict]
          /\ Off(p, stepRows, R2, st.done, st2.done, st.iteration, st2.iteration) /\ st2 = st
          /\ \/ R2 = stepRows /\ stepRows[p].status # "paused"
             \/ /\ stepRows[p].status = "paused"
                /\ \E row : /\ R2 = Extend(stepRows, p, row)
                            /\ row.status \in {"succeeded", "skipped", "failed"}
    BY <1>1, OffDecide
  <1>3. S2 = settled /\ D2 = decided /\ t = s /\ T2 = DOMAIN tasks
    BY <1>1, <1>2 DEF Decide
  <1>4. p \in DOMAIN stepRows /\ StepOf(p).kind = "approval"
    BY DEF RowInv, RowAll
  <1>5. DOMAIN R2 = DOMAIN stepRows
    BY <1>2, <1>4 DEF Extend
  <1>6. RowOK(p, DOMAIN R2, S2, D2) /\ RowMeans(p, stepRows[p].status, st.done)
    BY <1>1, <1>3, <1>4, <1>5 DEF RowInv, RowAll
  <1>7. RowMeans(p, R2[p].status, st2.done)
    <2>1. CASE R2 = stepRows
      BY <1>2, <1>6, <2>1
    <2>2. CASE \E row : /\ R2 = Extend(stepRows, p, row)
                        /\ row.status \in {"succeeded", "skipped", "failed"}
      <3>1. R2[p].status \in {"succeeded", "skipped", "failed"}
        BY <2>2 DEF Extend
      <3>. QED  BY <1>4, <3>1 DEF RowMeans
    <2>. QED  BY <1>2, <2>1, <2>2
  <1>8. \A q \in DOMAIN R2 : RowOK(q, DOMAIN R2, S2, D2) /\ RowMeans(q, R2[q].status, st2.done)
    BY <1>1, <1>2, <1>3, <1>5, <1>6, <1>7, RowsMove
  <1>9. \A k \in 1 .. Len(t) : k # 1 => CallOK(t[k].prefix, R2, st2.done, st2.iteration)
    <2>1. PICK T : s \in Seq(T)
      BY <1>1, WalkStack
    <2>2. Stays(s, t) /\ Len(s) \in Nat
      BY <1>3, <2>1, SelfStays, LenProperties
    <2>3. ASSUME NEW k \in 1 .. Len(t), k # 1 PROVE Owner(s[k].prefix) # p
      <3>1. StepOf(Owner(s[k].prefix)).kind \in {"condition", "for_each"}
        BY <1>1, <1>3, <2>3, OwnerTurn
      <3>. QED  BY <1>4, <3>1
    <2>. QED  BY <1>1, <1>2, <2>2, <2>3, CallsMove
  <1>10. \A q \in S2 : SettledOK(q, st2.done)
    BY <1>1, <1>2, <1>3 DEF RowInv, RowAll
  <1>11. \A q \in T2 : q \in DOMAIN R2 /\ StepOf(q).kind = "approval"
    BY <1>3, <1>5 DEF RowInv, RowAll
  <1>. QED  BY <1>8, <1>9, <1>10, <1>11 DEF RowAll

(* While an execution walks it, the run is running. *)
LEMMA RunningStep ==
  ASSUME WalkInv, PlaceInv, InWalk => run.status = "running", Shape
  PROVE  InWalk' => run'.status = "running"
  <1>0. DOMAIN run = {"status", "state"} /\ DOMAIN walk = {"stack", "state", "ret"}
    BY DEF WalkInv, WalkOK
  <1>1. CASE Start
    BY <1>0, <1>1 DEF Start
  <1>2. CASE Decide
    <2>1. walk' = walk /\ (run' = run \/ run.status = "paused")
      BY <1>2 DEF Decide
    <2>. QED  BY <2>1 DEF InWalk
  <1>3. CASE WalkEnds
    BY <1>3 DEF WalkEnds, InWalk, NoWalk, Walking
  <1>4. CASE StatementThrows
    <2>1. InWalk /\ (run' = run \/ walk' = NoWalk)
      BY <1>4 DEF StatementThrows, ToExecute, AtStepOf
    <2>. QED  BY <2>1 DEF InWalk, NoWalk, Walking
  <1>5. CASE TimePasses \/ UNCHANGED walkVars
    BY <1>5 DEF TimePasses, walkVars, InWalk
  <1>6. CASE ListEnds \/ RunTimesOut \/ GuardFails \/ Passes
    BY <1>6 DEF ListEnds, RunTimesOut, GuardFails, Passes, AtStepOf, OnlyWalk
  <1>7. CASE \/ \E result, state, t, row : Stops(result, state, t, row) /\ Outcome(result)
             \/ \E n, list, state : Enters(n, list, state)
    BY <1>7 DEF Stops, Enters, AtStepOf
  <1>8. CASE \/ \E result, state : Leaves(result, state)
             \/ \E n, loop, state : Repeats(n, loop, state)
    BY <1>8 DEF Leaves, Repeats, Returning, OnlyWalk
  <1>. QED  BY <1>1, <1>2, <1>3, <1>4, <1>5, <1>6, <1>7, <1>8 DEF Shape

LEMMA RowAllKeeps ==
  ASSUME UNCHANGED manifest, NEW R, NEW S, NEW D, NEW done, NEW it, NEW s, NEW T
  PROVE  RowAll(R, S, D, done, it, s, T) => RowAll(R, S, D, done, it, s, T)'
  <1>1. \A p, X : RowOK(p, X, S, D) => RowOK(p, X, S, D)'
    <2>1. ASSUME NEW p, NEW X, RowOK(p, X, S, D) PROVE RowOK(p, X, S, D)'
      <3>1. Before(p)' = Before(p)
        BY BeforeKeeps
      <3>2. Descends(p, Len(p) - 1, D)'
        BY <2>1 DEF RowOK, Descends, ListedAt, TurnOf, ListBelow, Step, BranchList, StepAt, Down
      <3>. QED  BY <2>1, <3>1, <3>2 DEF RowOK, StepOf, Step, Paths, PathElts, AllIds, StepAt, Down
    <2>. QED  BY <2>1
  <1>2. \A p, status : RowMeans(p, status, done) => RowMeans(p, status, done)'
    BY DEF RowMeans, StepOf, Step
  <1>3. \A p : SettledOK(p, done) => SettledOK(p, done)'
    BY DEF SettledOK, StepOf, Step
  <1>4. \A q : CallOK(q, R, done, it) => CallOK(q, R, done, it)'
    BY DEF CallOK, StepOf, Step, Owner
  <1>. QED  BY <1>1, <1>2, <1>3, <1>4 DEF RowAll, StepOf, Step

LEMMA ManifestKeeps ==
  ASSUME [WalkNext]_walkVars
  PROVE  UNCHANGED manifest
  BY DEF WalkNext, Start, ListEnds, RunTimesOut, GuardFails, SkipStep, PassDone, EffectStep, WaitStep,
         AskStep, ConditionStep, ForEachStep, ReturnResult, IterationEnds, WalkEnds, StatementThrows,
         TimePasses, Decide, walkVars

LEMMA RowStep ==
  ASSUME WalkInv, PlaceInv, RowInv, [WalkNext]_walkVars
  PROVE  RowInv'
  <1>1. UNCHANGED manifest /\ Shape
    BY ManifestKeeps, StepShapes DEF PlaceInv
  <1>2. decided \subseteq decided'
    BY <1>1, DecidedStep
  <1>3. PICK st2, R2, S2, D2, t, T2 : /\ st2 = StateNow' /\ R2 = stepRows' /\ S2 = settled' /\ D2 = decided'
                                      /\ t = walk'.stack /\ T2 = DOMAIN tasks'
    OBVIOUS
  <1>4. RowAll(R2, S2, D2, st2.done, st2.iteration, t, T2)
    <2>1. CASE Rests
      BY <1>3, <2>1, RowRests
    <2>2. CASE StatementThrows
      BY <1>3, <2>2, RowThrows
    <2>3. CASE Decide
      BY <1>3, <2>3, RowDecides
    <2>4. CASE \E result, state, u, row : Stops(result, state, u, row) /\ Outcome(result)
      BY <1>2, <1>3, <2>4, RowStops
    <2>5. CASE \E n, list, state : Enters(n, list, state)
      BY <1>2, <1>3, <2>5, RowEnters
    <2>6. CASE \E result, state : Leaves(result, state)
      BY <1>3, <2>6, RowLeaves
    <2>7. CASE \E n, loop, state : Repeats(n, loop, state)
      BY <1>3, <2>7, RowRepeats
    <2>. QED  BY <1>1, <2>1, <2>2, <2>3, <2>4, <2>5, <2>6, <2>7 DEF Shape, Rests
  <1>5. RowAll(R2, S2, D2, st2.done, st2.iteration, t, T2)'
    BY <1>1, <1>4, RowAllKeeps
  <1>6. InWalk' => run'.status = "running"
    BY <1>1, RunningStep DEF RowInv
  <1>. QED  BY <1>3, <1>5, <1>6 DEF RowInv

LEMMA RowStarts == WalkInit => RowInv
  BY DEF WalkInit, RowInv, RowAll, NoWalk, Walking, InWalk, EmptyMap

LEMMA RowHolds == WalkSpec => []RowInv
  BY PlaceHolds, RowStarts, RowStep, PTL DEF WalkSpec

----------------------------------------------------------------------------
(* The open rows of a run *)

(* The run turned away from the step at the k-th level of a path. *)
LeftAt(p, k, R, D) ==
  LET c == StepAt(p, k)
  IN {<<c, 1>>, <<c, 2>>} \subseteq D \/ (c \in DOMAIN R /\ R[c].status = "skipped")

(* A row that is open, and not left behind. *)
Loose(p, R, D) ==
  /\ p \in DOMAIN R /\ R[p].status \in OpenRow
  /\ \A k \in 1 .. Len(p) : k # Len(p) => ~LeftAt(p, k, R, D)

Below(p, q) == Len(p) > Len(q) /\ Down(p, Len(q) + 1) = q
GatesIn(p, X) == \E g \in X : Gate(g) /\ (g = p \/ Within(p, g))

(* Nothing it is in is done; it is in the round its loop is in; no call has     *)
(* passed it; it is open because the walk is inside it, or because it is, or   *)
(* contains, a gate.                                                          *)
Undone(p, done) == \A k \in 1 .. Len(p) : StepAt(p, k) \notin done
InRound(p, it) ==
  \A k \in 1 .. Len(p) :
    k # Len(p) /\ Step(p[k][1]).kind = "for_each" => p[k][2] = At(it, StepAt(p, k), 1)
Unpassed(p, s) ==
  \A k \in 1 .. Len(p) : k \in 1 .. Len(s) /\ s[k].prefix = Down(p, k) =>
    \A j \in 1 .. Len(s[k].list) : j < s[k].at => s[k].list[j] # p[k][1]
Held(p, s, status, X) ==
  IF status = "running" THEN \E k \in 1 .. Len(s) : k # 1 /\ p = Owner(s[k].prefix)
  ELSE GatesIn(p, X)

LooseOK(p, s, R, done, it) ==
  Undone(p, done) /\ InRound(p, it) /\ Unpassed(p, s) /\ Held(p, s, R[p].status, DOMAIN R)

LooseRows(R, D, done, it, s) ==
  \A p \in DOMAIN R : Loose(p, R, D) => LooseOK(p, s, R, done, it)

(* A list that failed has nothing open, unless the budget ended it; one that    *)
(* parks has a gate.                                                          *)
RetOK(ret, s, R, D, e) ==
  /\ ret = "failed" => \/ Len(s) = 1 /\ e > Budget
                       \/ \A p \in DOMAIN R : Loose(p, R, D) => ~Below(p, s[Len(s)].prefix)
  /\ ret \in {"waiting", "paused"} => \E g \in DOMAIN R : Gate(g) /\ Below(g, s[Len(s)].prefix)

EndedOK(R, D, T) ==
  \A p \in DOMAIN R : Loose(p, R, D) =>
    \E q \in DOMAIN T \ {p} : T[q] = "timeout" /\ StepOf(q).onTimeout = "abort" /\ GatesIn(p, DOMAIN R)

LooseInv ==
  clock.throws = 0 =>
    /\ LooseRows(stepRows, decided, StateNow.done, StateNow.iteration, walk.stack)
    /\ InWalk => RetOK(walk.ret, walk.stack, stepRows, decided, StateNow.elapsed)
    /\ ~InWalk /\ run.status \in {"succeeded", "failed"} /\ StateNow.elapsed <= Budget =>
         EndedOK(stepRows, decided, tasks)

----------------------------------------------------------------------------
(* Paths below a call *)

LEMMA DownNext ==
  ASSUME NEW p \in Paths, NEW k \in 1 .. Len(p), NEW j, j = k + 1
  PROVE  /\ Down(p, j) = Append(Down(p, k), p[k]) /\ Down(p, k) \in Paths /\ Down(p, j) \in Paths
         /\ Len(Down(p, k)) = k - 1 /\ p[k] \in PathElts
         /\ Down(p, j) # <<>> /\ Last(Down(p, j)) = p[k] /\ Front(Down(p, j)) = Down(p, k)
         /\ Last(StepAt(p, k)) = <<p[k][1], 0>> /\ Front(StepAt(p, k)) = Down(p, k)
         /\ Len(StepAt(p, k)) = k
         /\ StepOf(StepAt(p, k)) = Step(p[k][1])
  <1>1. p \in Seq(PathElts) /\ Len(p) \in Nat /\ k \in Nat \ {0} /\ \A i \in 1 .. Len(p) : p[i] \in PathElts
    BY LenProperties, ElementOfSeq DEF Paths
  <1>2. PICK h \in Nat : h = k - 1
    BY <1>1
  <1>3. /\ SubSeq(p, 1, h) \in Seq(PathElts) /\ Len(SubSeq(p, 1, h)) = h
        /\ \A i \in 1 .. h : SubSeq(p, 1, h)[i] = p[i]
    <2>1. \A i \in 1 .. h : p[i] \in PathElts
      BY <1>1, <1>2
    <2>. QED  BY <1>2, <2>1, SubSeqProperties
  <1>4. /\ SubSeq(p, 1, k) \in Seq(PathElts) /\ Len(SubSeq(p, 1, k)) = k
        /\ \A i \in 1 .. k : SubSeq(p, 1, k)[i] = p[i]
    <2>1. \A i \in 1 .. k : p[i] \in PathElts
      BY <1>1
    <2>. QED  BY <1>1, <2>1, SubSeqProperties
  <1>5. PICK d, e : d = Down(p, k) /\ e = Down(p, j)
    OBVIOUS
  <1>6. d = SubSeq(p, 1, h) /\ e = SubSeq(p, 1, k)
    BY <1>1, <1>2, <1>5 DEF Down
  <1>7. PICK a : a = Append(d, p[k])
    OBVIOUS
  <1>8. d \in Seq(PathElts) /\ p[k] \in PathElts /\ Len(d) = h
    BY <1>1, <1>3, <1>6
  <1>9. /\ a \in Seq(PathElts) /\ Len(a) = k /\ a # <<>> /\ Last(a) = p[k] /\ Front(a) = d
        /\ \A i \in 1 .. h : a[i] = d[i]
        /\ a[k] = p[k]
    <2>1. /\ a \in Seq(PathElts) /\ Len(a) = Len(d) + 1 /\ a # <<>> /\ Last(a) = p[k] /\ Front(a) = d
          /\ \A i \in 1 .. Len(d) : a[i] = d[i]
      BY <1>7, <1>8, Pushed
    <2>2. a[Len(a)] = p[k]
      BY <2>1 DEF Last
    <2>. QED  BY <1>1, <1>2, <1>8, <2>1, <2>2
  <1>10. \A i \in 1 .. k : a[i] = e[i]
    BY <1>1, <1>2, <1>3, <1>4, <1>6, <1>9
  <1>11. a = e
    <2>1. e \in Seq(PathElts) /\ Len(a) = Len(e)
      BY <1>4, <1>6, <1>9
    <2>. QED  BY <1>9, <1>10, <2>1, SeqEqual
  <1>12. PICK x : x = <<p[k][1], 0>>
    OBVIOUS
  <1>13. x \in PathElts
    BY <1>8, <1>12 DEF PathElts
  <1>14. /\ Last(Append(d, x)) = x /\ Front(Append(d, x)) = d
         /\ Len(Append(d, x)) = Len(d) + 1
    BY <1>8, <1>13, Pushed
  <1>15. StepAt(p, k) = Append(d, x)
    BY <1>5, <1>12 DEF StepAt
  <1>16. StepOf(StepAt(p, k)) = Step(p[k][1])
    <2>1. Last(StepAt(p, k)) = x
      BY <1>14, <1>15
    <2>. QED  BY <1>12, <2>1 DEF StepOf
  <1>17. Len(StepAt(p, k)) = k
    BY <1>1, <1>2, <1>8, <1>14, <1>15
  <1>18. Down(p, k) \in Paths /\ Down(p, j) \in Paths
    BY <1>5, <1>8, <1>9, <1>11 DEF Paths
  <1>. QED  BY <1>2, <1>5, <1>7, <1>8, <1>9, <1>11, <1>12, <1>14, <1>15, <1>16, <1>17, <1>18

LEMMA ListAtBelow ==
  ASSUME NEW p \in Paths, NEW k \in 1 .. Len(p)
  PROVE  ListAt(p, k) = ListBelow(Down(p, k))
  <1>1. p \in Seq(PathElts) /\ Len(p) \in Nat /\ k \in Nat \ {0}
    BY LenProperties DEF Paths
  <1>2. CASE k = 1
    <2>1. Down(p, k) = <<>>
      <3>1. Len(Down(p, k)) = k - 1 /\ Down(p, k) \in Seq(PathElts)
        <4>1. PICK j : j = k + 1
          OBVIOUS
        <4>. QED  BY <4>1, DownNext DEF Paths
      <3>2. Len(Down(p, k)) = 0
        BY <1>2, <3>1
      <3>. QED  BY <3>1, <3>2, EmptySeq
    <2>. QED  BY <1>2, <2>1 DEF ListAt, ListBelow
  <1>3. CASE k # 1
    <2>1. PICK h : h = k - 1
      OBVIOUS
    <2>2. h \in 1 .. Len(p) /\ k = h + 1
      BY <1>1, <1>3, <2>1
    <2>3. Down(p, k) # <<>> /\ Last(Down(p, k)) = p[h]
      BY <2>2, DownNext
    <2>. QED  BY <1>3, <2>1, <2>3 DEF ListAt, ListBelow
  <1>. QED  BY <1>2, <1>3

(* Below a call, what has a row is at its step or behind it; if it is behind,   *)
(* the step is settled.                                                        *)
LEMMA BelowIndex ==
  ASSUME WalkInv, PlaceInv, RowInv, NEW s, s = walk.stack, NEW m \in 1 .. Len(s),
         NEW p \in DOMAIN stepRows, m \in 1 .. Len(p), Down(p, m) = s[m].prefix, Unpassed(p, s)
  PROVE  InList(s[m]) /\ (StepAt(p, m) = Under(s[m], 0) \/ Under(s[m], 0) \in settled)
  <1>1. PICK f : f = s[m]
    OBVIOUS
  <1>2. FrameOK(f, settled)
    BY <1>1, StackAt
  <1>3. RowOK(p, DOMAIN stepRows, settled, decided)
    BY DEF RowInv, RowAll
  <1>4. p \in Paths /\ Before(p) \subseteq settled /\ ListedAt(p, m)
    BY <1>3 DEF RowOK, Descends
  <1>5. /\ f.list \in Seq(DOMAIN manifest.step) /\ Distinct(f.list) /\ f.list = ListBelow(f.prefix)
        /\ f.at \in Nat \ {0} /\ Len(f.list) \in Nat /\ DOMAIN f.list = 1 .. Len(f.list)
    BY <1>2, LenProperties DEF FrameOK
  <1>6. PICK j \in DOMAIN f.list : f.list[j] = p[m][1]
    BY <1>1, <1>4, <1>5 DEF ListedAt
  <1>7. j \in 1 .. Len(f.list) /\ ~(j < f.at)
    BY <1>1, <1>5, <1>6 DEF Unpassed
  <1>8. InList(f) /\ (j = f.at \/ f.at \in 1 .. j - 1)
    BY <1>5, <1>7 DEF InList
  <1>9. CASE j = f.at
    BY <1>1, <1>6, <1>8, <1>9 DEF StepAt, Under
  <1>10. CASE f.at \in 1 .. j - 1
    <2>1. Mine(f.list, p[m][1]) = j
      <3>1. \A h \in DOMAIN f.list : f.list[h] = p[m][1] => h = j
        BY <1>5, <1>6 DEF Distinct
      <3>. QED  BY <1>6, <3>1 DEF Mine
    <2>2. ListAt(p, m) = f.list /\ SubSeq(p, 1, m - 1) = f.prefix
      BY <1>1, <1>4, <1>5, ListAtBelow DEF Down
    <2>3. Under(f, 0) \in Siblings(f.list, f.prefix, j)
      BY <1>10 DEF Siblings, Under
    <2>4. Under(f, 0) \in Level(p, m)
      BY <2>1, <2>2, <2>3 DEF Level
    <2>5. m \in DOMAIN p
      BY <1>4, LenProperties DEF Paths
    <2>6. Under(f, 0) \in Before(p)
      BY <2>4, <2>5, BeforeIsLevels
    <2>. QED  BY <1>1, <1>4, <1>8, <2>6
  <1>. QED  BY <1>8, <1>9, <1>10

(* What is not left behind now, was not before. *)
LEMMA LooseWas ==
  ASSUME RowInv, NEW x, NEW R2, NEW D2, decided \subseteq D2,
         \A o : o # x /\ o \in DOMAIN stepRows => o \in DOMAIN R2 /\ R2[o] = stepRows[o],
         \A o : o # x /\ o \in DOMAIN R2 => o \in DOMAIN stepRows,
         \/ x \notin DOMAIN stepRows \/ stepRows[x].status # "skipped"
         \/ StepOf(x).kind \notin {"condition", "for_each"},
         NEW p, p \in DOMAIN R2, Loose(p, R2, D2), p \in DOMAIN stepRows
  PROVE  /\ \A k \in 1 .. Len(p) : k # Len(p) => ~LeftAt(p, k, stepRows, decided)
         /\ stepRows[p].status \in OpenRow => Loose(p, stepRows, decided)
         /\ p # x => R2[p] = stepRows[p] /\ Loose(p, stepRows, decided)
  <1>1. RowOK(p, DOMAIN stepRows, settled, decided)
    BY DEF RowInv, RowAll
  <1>2. p \in Paths /\ Len(p) \in Nat /\ Descends(p, Len(p) - 1, decided)
    BY <1>1, LenProperties DEF RowOK, Paths
  <1>3. ASSUME NEW k \in 1 .. Len(p), k # Len(p) PROVE ~LeftAt(p, k, stepRows, decided)
    <2>1. ~LeftAt(p, k, R2, D2)
      BY <1>3 DEF Loose
    <2>2. PICK c : c = StepAt(p, k)
      OBVIOUS
    <2>3. k <= Len(p) - 1
      BY <1>2, <1>3
    <2>4. TurnOf(p[k][1], c, p[k][2], decided)
      BY <1>2, <2>2, <2>3 DEF Descends
    <2>5. StepOf(c) = Step(p[k][1])
      <3>1. PICK j : j = k + 1
        OBVIOUS
      <3>. QED  BY <1>2, <2>2, <3>1, DownNext
    <2>6. StepOf(c).kind \in {"condition", "for_each"}
      BY <2>4, <2>5 DEF TurnOf
    <2>7. ~({<<c, 1>>, <<c, 2>>} \subseteq decided)
      BY <2>1, <2>2 DEF LeftAt
    <2>8. ASSUME c \in DOMAIN stepRows, stepRows[c].status = "skipped" PROVE FALSE
      <3>1. c # x
        BY <2>6, <2>8
      <3>2. c \in DOMAIN R2 /\ R2[c].status = "skipped"
        BY <2>8, <3>1
      <3>. QED  BY <2>1, <2>2, <3>2 DEF LeftAt
    <2>. QED  BY <2>2, <2>7, <2>8 DEF LeftAt
  <1>4. p # x => R2[p] = stepRows[p]
    OBVIOUS
  <1>5. R2[p].status \in OpenRow
    BY DEF Loose
  <1>. QED  BY <1>3, <1>4, <1>5 DEF Loose

(* What is open below the step that made a call, is below that call. *)
LEMMA OwnerBelow ==
  ASSUME WalkInv, PlaceInv, RowInv, NEW s, s = walk.stack, NEW m \in 1 .. Len(s), m # 1,
         NEW o, o = Owner(s[m].prefix), NEW p, Loose(p, stepRows, decided),
         InRound(p, StateNow.iteration), m \in 1 .. Len(p), NEW j, j = m - 1, StepAt(p, j) = o
  PROVE  Down(p, m) = s[m].prefix
  <1>1. PICK q : q = s[m].prefix
    OBVIOUS
  <1>2. /\ TurnOf(Last(o)[1], o, Last(q)[2], decided)
        /\ Last(q)[1] = Last(o)[1] /\ Step(Last(q)[1]) = StepOf(o) /\ q # <<>> /\ q \in Paths
        /\ Front(q) = Front(o)
    BY <1>1, OwnerTurn
  <1>3. p \in DOMAIN stepRows /\ RowOK(p, DOMAIN stepRows, settled, decided)
    BY DEF Loose, RowInv, RowAll
  <1>4. p \in Paths /\ Len(p) \in Nat /\ Descends(p, Len(p) - 1, decided)
    BY <1>3, LenProperties DEF RowOK, Paths
  <1>5. Len(s) \in Nat
    BY WalkStack
  <1>6. j \in 1 .. Len(p) /\ m = j + 1 /\ j <= Len(p) - 1 /\ j # Len(p)
    BY <1>4, <1>5
  <1>7. /\ Down(p, m) = Append(Down(p, j), p[j]) /\ p[j] \in PathElts
        /\ Last(o) = <<p[j][1], 0>> /\ Front(o) = Down(p, j) /\ StepOf(o) = Step(p[j][1])
    <2>1. /\ Down(p, m) = Append(Down(p, j), p[j]) /\ p[j] \in PathElts
          /\ Last(StepAt(p, j)) = <<p[j][1], 0>> /\ Front(StepAt(p, j)) = Down(p, j)
          /\ StepOf(StepAt(p, j)) = Step(p[j][1])
      <3>1. \A k \in 1 .. Len(p) :
              /\ Down(p, k + 1) = Append(Down(p, k), p[k]) /\ p[k] \in PathElts
              /\ Last(StepAt(p, k)) = <<p[k][1], 0>> /\ Front(StepAt(p, k)) = Down(p, k)
              /\ StepOf(StepAt(p, k)) = Step(p[k][1])
        BY <1>4, DownNext, SMTT(30)
      <3>. QED  BY <1>6, <3>1
    <2>2. StepAt(p, j) = o
      OBVIOUS
    <2>. QED  BY <2>1, <2>2
  <1>8. TurnOf(p[j][1], o, p[j][2], decided)
    BY <1>4, <1>6 DEF Descends
  <1>9. Last(o)[1] = p[j][1]
    BY <1>7
  <1>10. p[j][2] = Last(q)[2]
    <2>1. CASE StepOf(o).kind = "condition"
      <3>1. <<o, p[j][2]>> \in decided /\ <<o, Last(q)[2]>> \in decided
        BY <1>2, <1>7, <1>8, <1>9, <2>1 DEF TurnOf
      <3>2. PICK a, b : a = p[j][2] /\ b = Last(q)[2]
        OBVIOUS
      <3>3. PICK d, e : d = <<o, a>> /\ e = <<o, b>>
        OBVIOUS
      <3>4. DecidedOK(d) /\ DecidedOK(e) /\ d[2] = a /\ e[2] = b
        BY <3>1, <3>2, <3>3 DEF PlaceInv
      <3>5. a \in {1, 2} /\ b \in {1, 2}
        BY <3>4 DEF DecidedOK
      <3>6. ~({<<o, 1>>, <<o, 2>>} \subseteq decided)
        BY <1>6 DEF Loose, LeftAt
      <3>7. <<o, a>> \in decided /\ <<o, b>> \in decided
        BY <3>1, <3>2
      <3>. QED  BY <3>2, <3>5, <3>6, <3>7
    <2>2. CASE StepOf(o).kind = "for_each"
      <3>1. p[j][2] = At(StateNow.iteration, o, 1)
        BY <1>6, <1>7, <2>2 DEF InRound
      <3>2. CallOK(q, stepRows, StateNow.done, StateNow.iteration)
        BY <1>1 DEF RowInv, RowAll
      <3>3. o \in DOMAIN StateNow.iteration /\ StateNow.iteration[o] = Last(q)[2]
        BY <1>1, <2>2, <3>2 DEF CallOK
      <3>. QED  BY <3>1, <3>3 DEF At
    <2>3. StepOf(o).kind \in {"condition", "for_each"}
      BY <1>1, OwnerTurn
    <2>. QED  BY <2>1, <2>2, <2>3
  <1>11. Last(q) \in PathElts /\ q = Append(Front(q), Last(q))
    <2>1. q \in Seq(PathElts)
      BY <1>2 DEF Paths
    <2>. QED  BY <1>2, <2>1, Popped
  <1>12. p[j] = Last(q)
    BY <1>2, <1>7, <1>9, <1>10, <1>11 DEF PathElts
  <1>. QED  BY <1>1, <1>2, <1>7, <1>11, <1>12

(* Below a list that is walked to its end, nothing is open. *)
LEMMA NoneBelow ==
  ASSUME WalkInv, PlaceInv, RowInv, InWalk, walk.ret = "completed", NEW s, s = walk.stack,
         NEW m, m = Len(s), NEW p \in DOMAIN stepRows, Unpassed(p, s), m \in 1 .. Len(p), Down(p, m) = s[m].prefix
  PROVE  FALSE
  <1>1. m \in Nat \ {0} /\ Last(s) = s[m] /\ Last(s).at > Len(Last(s).list)
    BY WalkStack DEF WalkInv, WalkOK, InWalk
  <1>2. m \in 1 .. Len(s)
    BY <1>1
  <1>3. InList(s[m])
    BY <1>2, BelowIndex
  <1>4. FrameOK(s[m], settled)
    BY <1>2, StackAt
  <1>5. s[m].at \in Nat /\ Len(s[m].list) \in Nat
    BY <1>4, LenProperties DEF FrameOK
  <1>. QED  BY <1>1, <1>3, <1>5 DEF InList

----------------------------------------------------------------------------
(* The calls after the end of a step *)

(* The first n calls of s, the innermost of them a step further. *)
Ahead(s, t, n) ==
  /\ n \in 1 .. Len(s) /\ Len(t) = n
  /\ \A k \in 1 .. n : /\ t[k].list = s[k].list /\ t[k].prefix = s[k].prefix
                       /\ t[k].at = IF k = n THEN s[k].at + 1 ELSE s[k].at
Same(s, t, n) ==
  /\ n \in 1 .. Len(s) /\ Len(t) = n
  /\ \A k \in 1 .. n : t[k] = s[k]

FirstOf(stack, s, n) ==
  /\ Len(s) \in Nat /\ n = Len(stack) /\ n <= Len(s)
  /\ \A k \in 1 .. n : stack[k] = s[k]

LEMMA FinishedCalls ==
  ASSUME NEW s, NEW stack, NEW n, FirstOf(stack, s, n), NEW S, StackOK(stack, S), stack # <<>>,
         NEW state, NEW p, NEW result, NEW since, NEW ran,
         NEW w, w = Finished(stack, state, p, result, since, ran)
  PROVE  \/ Settles(p, result) /\ w.ret = "none" /\ Ahead(s, w.stack, n)
         \/ ~Settles(p, result) /\ w.ret = result /\ Same(s, w.stack, n)
  <1>0. Len(s) \in Nat /\ n = Len(stack) /\ n <= Len(s) /\ \A k \in 1 .. n : stack[k] = s[k]
    BY DEF FirstOf
  <1>1. PICK T : stack \in Seq(T)
    BY DEF StackOK
  <1>2. n \in Nat \ {0} /\ n \in 1 .. Len(s) /\ Last(stack) = stack[n]
    BY <1>0, <1>1, EmptySeq DEF Last
  <1>3. CASE Settles(p, result)
    <2>1. w.ret = "none" /\ \E g : /\ w.stack = OnTop(stack, g) /\ g.at = Last(stack).at + 1
                                   /\ g.list = Last(stack).list /\ g.prefix = Last(stack).prefix
      BY <1>3, FinishedStack
    <2>2. PICK g : /\ w.stack = OnTop(stack, g) /\ g.at = Last(stack).at + 1
                   /\ g.list = Last(stack).list /\ g.prefix = Last(stack).prefix
      BY <2>1
    <2>3. Len(w.stack) = n /\ w.stack[n] = g /\ \A k \in 1 .. n - 1 : w.stack[k] = stack[k]
      BY <1>0, <1>1, <2>2, OnTopIs
    <2>4. ASSUME NEW k \in 1 .. n, k # n PROVE w.stack[k] = s[k]
      BY <1>0, <1>2, <2>3, <2>4
    <2>5. Ahead(s, w.stack, n)
      BY <1>0, <1>2, <2>2, <2>3, <2>4 DEF Ahead
    <2>. QED  BY <1>3, <2>1, <2>5
  <1>4. CASE ~Settles(p, result)
    <2>1. w.stack = stack /\ w.ret = result
      BY <1>4, FinishedStack
    <2>. QED  BY <1>0, <1>2, <1>4, <2>1 DEF Same
  <1>. QED  BY <1>3, <1>4

LEMMA StopsCalls ==
  ASSUME WalkInv, PlaceInv, NEW result, NEW state, NEW u, NEW row, Stops(result, state, u, row),
         NEW s, NEW w, s = walk.stack, w = walk', NEW n, n = Len(s)
  PROVE  \/ Settles(Here, result) /\ w.ret = "none" /\ Ahead(s, w.stack, n)
         \/ ~Settles(Here, result) /\ w.ret = result /\ Same(s, w.stack, n)
  <1>1. InWalk /\ StackOK(s, settled) /\ s # <<>> /\ Len(s) \in Nat
    BY WalkStack DEF Stops, AtStepOf
  <1>2. PICK p, since : p = Here /\ since = 0
    OBVIOUS
  <1>3. w = Finished(s, state, p, result, since, u)
    BY <1>2 DEF Stops
  <1>4. FirstOf(s, s, n)
    BY <1>1 DEF FirstOf
  <1>5. \/ Settles(p, result) /\ w.ret = "none" /\ Ahead(s, w.stack, n)
        \/ ~Settles(p, result) /\ w.ret = result /\ Same(s, w.stack, n)
    BY <1>1, <1>3, <1>4, FinishedCalls
  <1>. QED  BY <1>2, <1>5

LEMMA LeavesCalls ==
  ASSUME WalkInv, PlaceInv, NEW result, NEW state, Leaves(result, state),
         NEW s, NEW w, s = walk.stack, w = walk', NEW n, n = Len(s) - 1
  PROVE  \/ Settles(OwnerPath(Top), result) /\ w.ret = "none" /\ Ahead(s, w.stack, n)
         \/ ~Settles(OwnerPath(Top), result) /\ w.ret = result /\ Same(s, w.stack, n)
  <1>1. PICK stack, p, since, ran : stack = Front(s) /\ p = OwnerPath(Top) /\ since = Top.since /\ ran = clock.ran
    OBVIOUS
  <1>2. Returning /\ w = Finished(stack, state, p, result, since, ran)
    BY <1>1 DEF Leaves, OwnerEnds
  <1>3. StackOK(stack, settled) /\ stack # <<>> /\ s # <<>>
    BY <1>1, <1>2, ReturningTo
  <1>4. PICK T : s \in Seq(T)
    BY WalkStack
  <1>5. Len(s) \in Nat /\ Len(stack) = n /\ \A k \in 1 .. n : stack[k] = s[k]
    BY <1>1, <1>3, <1>4, Popped
  <1>6. FirstOf(stack, s, n)
    BY <1>5 DEF FirstOf
  <1>7. \/ Settles(p, result) /\ w.ret = "none" /\ Ahead(s, w.stack, n)
        \/ ~Settles(p, result) /\ w.ret = result /\ Same(s, w.stack, n)
    BY <1>2, <1>3, <1>6, FinishedCalls
  <1>. QED  BY <1>1, <1>7

LEMMA UnpassedAhead ==
  ASSUME NEW p, NEW s, NEW t, NEW n, Unpassed(p, s), Ahead(s, t, n), Len(s) \in Nat,
         s[n].at \in Nat, Len(s[n].list) \in Nat,
         n \in 1 .. Len(p) => StepAt(p, n) # Under(s[n], 0)
  PROVE  Unpassed(p, t)
  <1>1. ASSUME NEW k \in 1 .. Len(p), k \in 1 .. Len(t), t[k].prefix = Down(p, k),
               NEW j \in 1 .. Len(t[k].list), j < t[k].at
        PROVE  t[k].list[j] # p[k][1]
    <2>1. k \in 1 .. n /\ k \in 1 .. Len(s) /\ t[k].list = s[k].list /\ s[k].prefix = Down(p, k)
      BY <1>1 DEF Ahead
    <2>2. CASE j < s[k].at
      BY <1>1, <2>1, <2>2 DEF Unpassed
    <2>3. CASE ~(j < s[k].at)
      <3>1. k = n /\ t[k].at = s[k].at + 1
        BY <1>1, <2>1, <2>3 DEF Ahead
      <3>2. j = s[n].at
        BY <1>1, <2>1, <2>3, <3>1
      <3>3. StepAt(p, n) # Under(s[n], 0)
        BY <1>1, <3>1
      <3>. QED  BY <2>1, <3>1, <3>2, <3>3 DEF StepAt, Under
    <2>. QED  BY <2>2, <2>3
  <1>. QED  BY <1>1 DEF Unpassed

LEMMA UnpassedSame ==
  ASSUME NEW p, NEW s, NEW t, NEW n, Unpassed(p, s), Same(s, t, n), Len(s) \in Nat
  PROVE  Unpassed(p, t)
  BY DEF Unpassed, Same

(* What is open has its call, as long as that is not the one that is left. *)
LEMMA HeldStill ==
  ASSUME NEW p, NEW s, NEW t, NEW n, Ahead(s, t, n) \/ Same(s, t, n), Len(s) \in Nat,
         NEW status, NEW X, NEW X2, X \subseteq X2, Held(p, s, status, X),
         \A k \in 1 .. Len(s) : k \notin 1 .. n => p # Owner(s[k].prefix)
  PROVE  Held(p, t, status, X2)
  <1>1. CASE status = "running"
    <2>1. PICK k \in 1 .. Len(s) : k # 1 /\ p = Owner(s[k].prefix)
      BY <1>1 DEF Held
    <2>2. k \in 1 .. n
      BY <2>1
    <2>3. t[k].prefix = s[k].prefix /\ k \in 1 .. Len(t)
      BY <2>2 DEF Ahead, Same
    <2>. QED  BY <1>1, <2>1, <2>3 DEF Held
  <1>2. CASE status # "running"
    BY <1>2 DEF Held, GatesIn
  <1>. QED  BY <1>1, <1>2

LEMMA UndoneStill ==
  ASSUME NEW x, NEW R, NEW R2, NEW done, NEW done2, NEW it, NEW it2, Off(x, R, R2, done, done2, it, it2),
         NEW p, Undone(p, done),
         x \in done2 => x \in done \/ \A k \in 1 .. Len(p) : StepAt(p, k) # x
  PROVE  Undone(p, done2)
  BY DEF Undone, Off

LEMMA RoundStill ==
  ASSUME NEW x, NEW R, NEW R2, NEW done, NEW done2, NEW it, NEW it2, Off(x, R, R2, done, done2, it, it2),
         NEW p, InRound(p, it),
         At(it2, x, 1) = At(it, x, 1) \/ \A k \in 1 .. Len(p) : k # Len(p) => StepAt(p, k) # x
  PROVE  InRound(p, it2)
  <1>1. ASSUME NEW o, o # x PROVE At(it2, o, 1) = At(it, o, 1)
    BY <1>1 DEF Off, At
  <1>. QED  BY <1>1 DEF InRound

(* Where the walk stands, nothing has passed. *)
LEMMA HereLoose ==
  ASSUME WalkInv, PlaceInv, RowInv, AtStepOf, NEW p, p = Here, NEW st, st = StateNow, p \notin st.done
  PROVE  Undone(p, st.done) /\ InRound(p, st.iteration) /\ Unpassed(p, walk.stack)
  <1>1. PICK s, m : s = walk.stack /\ m = Len(s)
    OBVIOUS
  <1>2. m \in Nat \ {0} /\ m \in 1 .. Len(s) /\ InList(s[m]) /\ p = Under(s[m], 0) /\ Len(p) = m
    BY <1>1, HereAt
  <1>3. /\ p \in Paths /\ StepAt(p, m) = p
        /\ \A k \in 1 .. m : /\ Down(p, k) = s[k].prefix /\ InList(s[k])
                             /\ p[k][1] = s[k].list[s[k].at]
        /\ \A k \in 1 .. m : k # m =>
             StepAt(p, k) = Owner(s[k + 1].prefix) /\ p[k][2] = Last(s[k + 1].prefix)[2]
    BY <1>1, <1>2, PlaceLevels, SMTT(30)
  <1>4. ASSUME NEW k \in 1 .. m, k # m
        PROVE  /\ StepAt(p, k) \notin st.done
               /\ Step(p[k][1]).kind = "for_each" => p[k][2] = At(st.iteration, StepAt(p, k), 1)
    <2>1. PICK j, q, o : j = k + 1 /\ q = s[j].prefix /\ o = Owner(q)
      OBVIOUS
    <2>2. j \in 1 .. Len(s) /\ j # 1
      BY <1>1, <1>2, <1>4, <2>1
    <2>3. CallOK(q, stepRows, st.done, st.iteration)
      BY <1>1, <2>1, <2>2 DEF RowInv, RowAll
    <2>4. StepAt(p, k) = o /\ p[k][2] = Last(q)[2]
      BY <1>3, <1>4, <2>1
    <2>5. StepOf(o) = Step(p[k][1])
      <3>1. \A h \in 1 .. Len(p) : StepOf(StepAt(p, h)) = Step(p[h][1])
        BY <1>3, DownNext
      <3>. QED  BY <1>2, <2>4, <3>1
    <2>6. o \notin st.done /\ (StepOf(o).kind = "for_each" => o \in DOMAIN st.iteration /\ st.iteration[o] = Last(q)[2])
      BY <2>1, <2>3 DEF CallOK
    <2>. QED  BY <2>4, <2>5, <2>6 DEF At
  <1>5. Undone(p, st.done)
    BY <1>2, <1>3, <1>4 DEF Undone
  <1>6. InRound(p, st.iteration)
    BY <1>2, <1>4 DEF InRound
  <1>7. ASSUME NEW k \in 1 .. Len(p), NEW j \in 1 .. Len(s[k].list), j < s[k].at
        PROVE  s[k].list[j] # p[k][1]
    <2>1. FrameOK(s[k], settled) /\ InList(s[k]) /\ p[k][1] = s[k].list[s[k].at]
      BY <1>1, <1>2, <1>3, <1>7, StackAt
    <2>2. Distinct(s[k].list) /\ DOMAIN s[k].list = 1 .. Len(s[k].list) /\ s[k].at \in Nat
      BY <2>1, LenProperties DEF FrameOK
    <2>. QED  BY <1>7, <2>1, <2>2 DEF Distinct, InList
  <1>8. Unpassed(p, s)
    BY <1>7 DEF Unpassed
  <1>. QED  BY <1>1, <1>5, <1>6, <1>8

(* A step that ends where the walk stands leaves nothing open below it. *)
LEMMA StopsBelow ==
  ASSUME WalkInv, PlaceInv, RowInv, NEW result, NEW state, NEW u, NEW row,
         Stops(result, state, u, row), Outcome(result), result \in {"completed", "skipped", "failed"},
         NEW R2, NEW D2, R2 = stepRows', D2 = decided',
         NEW p, Loose(p, stepRows, decided), Loose(p, R2, D2), InRound(p, StateNow.iteration),
         NEW m \in 1 .. Len(p), m # Len(p), StepAt(p, m) = Here
  PROVE  FALSE
  <1>1. PICK o, id, n : o = Here /\ id = p[m][1] /\ n = p[m][2]
    OBVIOUS
  <1>2. p \in DOMAIN stepRows /\ RowOK(p, DOMAIN stepRows, settled, decided)
    BY DEF Loose, RowInv, RowAll
  <1>3. p \in Paths /\ Len(p) \in Nat /\ Descends(p, Len(p) - 1, decided)
    BY <1>2, LenProperties DEF RowOK, Paths
  <1>4. StepOf(o) = Step(id)
    <2>1. \A h \in 1 .. Len(p) : StepOf(StepAt(p, h)) = Step(p[h][1])
      BY <1>3, DownNext
    <2>. QED  BY <1>1, <2>1
  <1>5. TurnOf(id, o, n, decided)
    <2>1. m <= Len(p) - 1
      BY <1>3
    <2>. QED  BY <1>1, <1>3, <2>1 DEF Descends
  <1>6. ~LeftAt(p, m, R2, D2)
    BY DEF Loose
  <1>7. CASE result = "skipped" /\ SkipStep
    <2>1. R2 = Extend(stepRows, o, row) /\ row.status = RowStatus(result)
      BY <1>1 DEF Stops, NextRow
    <2>2. o \in DOMAIN R2 /\ R2[o].status = "skipped"
      BY <1>7, <2>1 DEF Extend, RowStatus
    <2>. QED  BY <1>1, <1>6, <2>2 DEF LeftAt
  <1>8. CASE EffectStep \/ WaitStep \/ AskStep
    BY <1>1, <1>4, <1>5, <1>8 DEF EffectStep, WaitStep, AskStep, ToExecute, TurnOf
  <1>9. CASE ConditionStep
    <2>1. StepOf(o).kind = "condition" /\ <<o, n>> \in decided
      BY <1>1, <1>4, <1>5, <1>9 DEF ConditionStep, ToExecute, TurnOf
    <2>2. DecidedOK(<<o, n>>) /\ <<o, n>>[1] = o /\ <<o, n>>[2] = n
      BY <2>1 DEF PlaceInv
    <2>3. StepOf(o).on # "bad" /\ n \in {1, 2}
      BY <2>2 DEF DecidedOK
    <2>4. PICK b : b = BranchOf(StepOf(o), walk.state)
      OBVIOUS
    <2>5. BranchList(StepOf(o), b) = <<>> /\ D2 = decided \cup {<<o, b>>}
      BY <1>1, <1>9, <2>1, <2>3, <2>4 DEF Outcome, SkipStep, EffectStep, WaitStep, AskStep, ForEachStep, ConditionStep, ToExecute
    <2>6. b \in {1, 2}
      BY <2>4 DEF BranchOf
    <2>7. b = n
      <3>1. ~({<<o, 1>>, <<o, 2>>} \subseteq D2)
        BY <1>1, <1>6 DEF LeftAt
      <3>. QED  BY <2>1, <2>3, <2>5, <2>6, <3>1
    <2>8. PICK j : j = m + 1
      OBVIOUS
    <2>9. j \in 1 .. Len(p) /\ Down(p, j) # <<>> /\ Last(Down(p, j)) = p[m]
      BY <1>3, <2>8, DownNext
    <2>10. ListBelow(Down(p, j)) = <<>>
      BY <1>1, <1>4, <2>1, <2>5, <2>7, <2>9 DEF ListBelow
    <2>11. ListedAt(p, j)
      BY <1>3, <2>9 DEF Descends
    <2>. QED  BY <2>10, <2>11 DEF ListedAt
  <1>10. CASE ForEachStep
    <2>1. StepOf(o).kind = "for_each" /\ StepOf(o).on # "bad" /\ n \in 1 .. StepOf(o).items
      BY <1>1, <1>4, <1>5, <1>10 DEF ForEachStep, ToExecute, TurnOf
    <2>2. FirstOpen(o) > StepOf(o).items
      BY <1>1, <1>10, <2>1 DEF Outcome, SkipStep, EffectStep, WaitStep, AskStep, ForEachStep, ConditionStep, ToExecute
    <2>3. n = At(StateNow.iteration, o, 1)
      BY <1>1, <1>4, <2>1 DEF InRound
    <2>4. StateNow = walk.state
      BY DEF Stops, AtStepOf, StateNow
    <2>5. InList(Top) /\ FrameOK(Top, settled) /\ manifest \in Manifests /\ Here = Under(Top, 0)
      BY Standing DEF Stops, WalkInv
    <2>6. Top.list[Top.at] \in DOMAIN manifest.step /\ Last(o) = <<Top.list[Top.at], 0>>
      BY <1>1, <2>5, BeforeHere
    <2>7. StepOf(o).items \in Nat
      BY <2>5, <2>6, WalkAssumption DEF StepOf, Step
    <2>8. PICK i \in Nat : i = StepOf(o).items
      BY <2>7
    <2>. QED  BY <1>1, <2>1, <2>2, <2>3, <2>4, <2>8 DEF FirstOpen
  <1>. QED  BY <1>7, <1>8, <1>9, <1>10 DEF Outcome

----------------------------------------------------------------------------
(* What is known of the open rows before a step. *)
LooseNow ==
  /\ LooseRows(stepRows, decided, StateNow.done, StateNow.iteration, walk.stack)
  /\ InWalk => RetOK(walk.ret, walk.stack, stepRows, decided, StateNow.elapsed)

LEMMA RowPath ==
  ASSUME RowInv, NEW p \in DOMAIN stepRows
  PROVE  /\ p \in Paths /\ p # <<>> /\ Len(p) \in Nat \ {0} /\ Len(p) \in 1 .. Len(p)
         /\ StepAt(p, Len(p)) = p /\ RowOK(p, DOMAIN stepRows, settled, decided)
  <1>1. RowOK(p, DOMAIN stepRows, settled, decided)
    BY DEF RowInv, RowAll
  <1>2. p \in Paths /\ p # <<>> /\ Last(p)[2] = 0
    BY <1>1 DEF RowOK
  <1>3. Len(p) \in Nat \ {0} /\ Last(p) = p[Len(p)] /\ p = Append(Front(p), Last(p)) /\ Last(p) \in PathElts
    BY <1>2, Popped DEF Paths
  <1>4. PICK k, j : k = Len(p) /\ j = k + 1
    OBVIOUS
  <1>5. k \in 1 .. Len(p) /\ Down(p, j) = Append(Down(p, k), p[k])
    <2>1. k \in 1 .. Len(p)
      BY <1>3, <1>4
    <2>2. \A h \in 1 .. Len(p) : Down(p, h + 1) = Append(Down(p, h), p[h])
      BY <1>2, DownNext
    <2>. QED  BY <1>4, <2>1, <2>2
  <1>6. Down(p, j) = p
    <2>1. SubSeq(p, 1, Len(p)) = p
      BY <1>2, SubSeqProperties DEF Paths
    <2>. QED  BY <1>3, <1>4, <2>1 DEF Down
  <1>7. p[k] = <<p[k][1], 0>>
    BY <1>2, <1>3, <1>4 DEF PathElts
  <1>. QED  BY <1>1, <1>2, <1>3, <1>4, <1>5, <1>6, <1>7 DEF StepAt

(* The end of a step leaves what is open elsewhere as it is. *)
LEMMA StopsOther ==
  ASSUME WalkInv, PlaceInv, RowInv, LooseNow, NEW result, NEW state, NEW u, NEW row,
         Stops(result, state, u, row), Outcome(result), decided \subseteq decided',
         NEW R2, NEW D2, R2 = stepRows', D2 = decided',
         NEW p, Loose(p, R2, D2), p # Here
  PROVE  /\ p \in DOMAIN stepRows /\ R2[p] = stepRows[p] /\ Loose(p, stepRows, decided)
         /\ LooseOK(p, walk.stack, stepRows, StateNow.done, StateNow.iteration)
         /\ result \in {"completed", "skipped", "failed"} =>
              \A k \in 1 .. Len(p) : StepAt(p, k) # Here
  <1>1. PICK x, st, st2 : x = Here /\ st = StateNow /\ st2 = StateNow'
    OBVIOUS
  <1>2. Off(x, stepRows, R2, st.done, st2.done, st.iteration, st2.iteration) /\ x \notin st.done
    BY <1>1, OffStops
  <1>3. p \in DOMAIN R2
    BY DEF Loose
  <1>4. p \in DOMAIN stepRows /\ R2[p] = stepRows[p]
    BY <1>1, <1>2, <1>3 DEF Off
  <1>5. \/ x \notin DOMAIN stepRows \/ stepRows[x].status # "skipped"
        \/ StepOf(x).kind \notin {"condition", "for_each"}
    BY <1>1, <1>2 DEF RowInv, RowAll, RowMeans
  <1>6. Loose(p, stepRows, decided)
    <2>1. /\ \A o : o # x /\ o \in DOMAIN stepRows => o \in DOMAIN R2 /\ R2[o] = stepRows[o]
          /\ \A o : o # x /\ o \in DOMAIN R2 => o \in DOMAIN stepRows
      BY <1>2 DEF Off
    <2>. QED  BY <1>1, <1>3, <1>4, <1>5, <2>1, LooseWas
  <1>7. LooseOK(p, walk.stack, stepRows, StateNow.done, StateNow.iteration)
    BY <1>4, <1>6 DEF LooseNow, LooseRows
  <1>8. ASSUME result \in {"completed", "skipped", "failed"}, NEW k \in 1 .. Len(p), StepAt(p, k) = Here
        PROVE  FALSE
    <2>1. CASE k = Len(p)
      BY <1>4, <1>8, <2>1, RowPath
    <2>2. CASE k # Len(p)
      <3>1. InRound(p, StateNow.iteration)
        BY <1>7 DEF LooseOK
      <3>. QED  BY <1>6, <1>8, <2>2, <3>1, StopsBelow
    <2>. QED  BY <2>1, <2>2
  <1>. QED  BY <1>4, <1>6, <1>7, <1>8

LEMMA LooseStops ==
  ASSUME WalkInv, PlaceInv, RowInv, LooseNow, NEW result, NEW state, NEW u, NEW row,
         Stops(result, state, u, row), Outcome(result), decided \subseteq decided',
         NEW st2, st2 = StateNow', NEW R2, R2 = stepRows', NEW D2, D2 = decided', NEW w, w = walk'
  PROVE  /\ LooseRows(R2, D2, st2.done, st2.iteration, w.stack)
         /\ RetOK(w.ret, w.stack, R2, D2, st2.elapsed)
  <1>1. PICK x, st, s, n, t : x = Here /\ st = StateNow /\ s = walk.stack /\ n = Len(s) /\ t = w.stack
    OBVIOUS
  <1>2. /\ n \in Nat \ {0} /\ n \in 1 .. Len(s) /\ InList(s[n]) /\ x = Under(s[n], 0)
        /\ Len(x) = n
    BY <1>1, HereAt DEF Stops
  <1>3. /\ Off(x, stepRows, R2, st.done, st2.done, st.iteration, st2.iteration)
        /\ R2 = Extend(stepRows, x, row) /\ row.status = RowStatus(result)
        /\ st2.iteration = st.iteration
        /\ st2.done = IF result \in {"completed", "skipped"} THEN st.done \cup {x} ELSE st.done
        /\ x \notin st.done
    BY <1>1, OffStops
  <1>4. \/ Settles(x, result) /\ w.ret = "none" /\ Ahead(s, t, n)
        \/ ~Settles(x, result) /\ w.ret = result /\ Same(s, t, n)
    BY <1>1, StopsCalls
  <1>5. /\ x \in DOMAIN R2 /\ R2[x] = row /\ DOMAIN stepRows \subseteq DOMAIN R2
    BY <1>3 DEF Extend
  <1>6. FrameOK(s[n], settled) /\ s[n].at \in Nat /\ Len(s[n].list) \in Nat
    <2>1. FrameOK(s[n], settled)
      BY <1>1, <1>2, StackAt
    <2>. QED  BY <2>1, LenProperties DEF FrameOK
  <1>7. ASSUME NEW p, Loose(p, R2, D2) PROVE LooseOK(p, t, R2, st2.done, st2.iteration)
    <2>1. CASE p # x
      <3>1. /\ p \in DOMAIN stepRows /\ R2[p] = stepRows[p]
            /\ LooseOK(p, s, stepRows, st.done, st.iteration)
            /\ result \in {"completed", "skipped", "failed"} =>
                 \A k \in 1 .. Len(p) : StepAt(p, k) # x
        BY <1>1, <1>7, <2>1, StopsOther
      <3>2. /\ Undone(p, st.done) /\ InRound(p, st.iteration) /\ Unpassed(p, s)
            /\ Held(p, s, stepRows[p].status, DOMAIN stepRows)
        BY <3>1 DEF LooseOK
      <3>3. Undone(p, st2.done)
        BY <1>3, <3>1, <3>2, UndoneStill
      <3>4. InRound(p, st2.iteration)
        BY <1>3, <3>2
      <3>5. Unpassed(p, t)
        <4>1. CASE Settles(x, result) /\ Ahead(s, t, n)
          <5>1. n \in 1 .. Len(p) => StepAt(p, n) # Under(s[n], 0)
            BY <1>2, <3>1, <4>1 DEF Settles
          <5>. QED  BY <1>1, <1>2, <1>6, <3>2, <4>1, <5>1, UnpassedAhead
        <4>2. CASE Same(s, t, n)
          BY <1>1, <1>2, <3>2, <4>2, UnpassedSame
        <4>. QED  BY <1>4, <4>1, <4>2
      <3>6. Held(p, t, R2[p].status, DOMAIN R2)
        <4>1. \A k \in 1 .. Len(s) : k \notin 1 .. n => p # Owner(s[k].prefix)
          BY <1>1
        <4>2. Ahead(s, t, n) \/ Same(s, t, n)
          BY <1>4
        <4>3. PICK status, X, X2 : status = stepRows[p].status /\ X = DOMAIN stepRows /\ X2 = DOMAIN R2
          OBVIOUS
        <4>4. Held(p, s, status, X) /\ X \subseteq X2
          BY <1>5, <3>2, <4>3
        <4>5. Held(p, t, status, X2)
          BY <1>1, <1>2, <4>1, <4>2, <4>4, HeldStill
        <4>. QED  BY <3>1, <4>3, <4>5
      <3>. QED  BY <3>3, <3>4, <3>5, <3>6 DEF LooseOK
    <2>2. CASE p = x
      <3>1. PICK status : status = RowStatus(result)
        OBVIOUS
      <3>2. R2[p].status = status /\ status \in OpenRow
        BY <1>3, <1>5, <1>7, <2>2, <3>1 DEF Loose
      <3>3. /\ status # "running"
            /\ status = "waiting" => StepOf(p).kind = "delay"
            /\ status = "paused" => StepOf(p).kind = "approval"
        BY <1>1, <2>2, <3>1, OutcomeRows
      <3>4. status \in {"waiting", "paused"} /\ result = status
        BY <3>1, <3>2, <3>3 DEF OpenRow, RowStatus
      <3>5. Same(s, t, n) /\ st2.done = st.done
        BY <1>3, <1>4, <3>4 DEF Settles
      <3>6. Undone(p, st.done) /\ InRound(p, st.iteration) /\ Unpassed(p, s)
        BY <1>1, <1>3, <2>2, HereLoose DEF Stops
      <3>7. Unpassed(p, t)
        BY <1>1, <1>2, <3>5, <3>6, UnpassedSame
      <3>8. GatesIn(p, DOMAIN R2)
        BY <1>5, <2>2, <3>3, <3>4 DEF GatesIn, Gate
      <3>9. Held(p, t, R2[p].status, DOMAIN R2)
        BY <3>2, <3>3, <3>8 DEF Held
      <3>. QED  BY <1>3, <3>5, <3>6, <3>7, <3>9 DEF LooseOK
    <2>. QED  BY <2>1, <2>2
  <1>8. LooseRows(R2, D2, st2.done, st2.iteration, t)
    BY <1>7 DEF LooseRows
  <1>9. CASE Settles(x, result) /\ w.ret = "none"
    BY <1>1, <1>8, <1>9 DEF RetOK
  <1>10. CASE ~Settles(x, result) /\ w.ret = result /\ Same(s, t, n)
    <2>1. Len(t) = n /\ t[n] = s[n]
      BY <1>2, <1>10 DEF Same
    <2>2. Len(s[n].prefix) = n - 1
      BY <1>1, <1>2, StackAt DEF FramePlace
    <2>3. ASSUME result = "failed", NEW p, Loose(p, R2, D2), Below(p, s[n].prefix) PROVE FALSE
      <3>1. p # x
        BY <1>3, <1>5, <2>3 DEF Loose, RowStatus, OpenRow
      <3>2. /\ p \in DOMAIN stepRows
            /\ LooseOK(p, s, stepRows, st.done, st.iteration)
            /\ \A k \in 1 .. Len(p) : StepAt(p, k) # x
        BY <1>1, <2>3, <3>1, StopsOther
      <3>3. Len(p) \in Nat /\ Unpassed(p, s)
        BY <3>2, RowPath DEF LooseOK
      <3>4. n \in 1 .. Len(p) /\ Down(p, n) = s[n].prefix
        BY <1>2, <2>2, <2>3, <3>3 DEF Below
      <3>5. StepAt(p, n) = x \/ x \in settled
        BY <1>1, <1>2, <3>2, <3>3, <3>4, BelowIndex
      <3>6. x \in settled => StepOf(x).onError = "continue"
        BY <1>1, <1>3 DEF RowInv, RowAll, SettledOK
      <3>. QED  BY <1>10, <2>3, <3>2, <3>4, <3>5, <3>6 DEF Settles
    <2>4. ASSUME result \in {"waiting", "paused"}
          PROVE  \E g \in DOMAIN R2 : Gate(g) /\ Below(g, s[n].prefix)
      <3>1. PICK status : status = RowStatus(result)
        OBVIOUS
      <3>2. Gate(x)
        BY <1>1, <2>4, <3>1, OutcomeRows DEF RowStatus, Gate
      <3>3. Down(x, n) = s[n].prefix
        BY <1>1, <1>2, PlaceLevels
      <3>4. Below(x, s[n].prefix)
        BY <1>2, <2>2, <3>3 DEF Below
      <3>. QED  BY <1>5, <3>2, <3>4
    <2>5. RetOK(w.ret, t, R2, D2, st2.elapsed)
      BY <1>10, <2>1, <2>3, <2>4 DEF RetOK
    <2>. QED  BY <1>1, <1>8, <2>5
  <1>. QED  BY <1>4, <1>9, <1>10

(* What is open after a step, elsewhere than at x, was open before it. *)
LEMMA OtherLoose ==
  ASSUME RowInv, LooseNow, NEW x, NEW R2, NEW D2, decided \subseteq D2, NEW done2, NEW it2,
         Off(x, stepRows, R2, StateNow.done, done2, StateNow.iteration, it2),
         x \notin StateNow.done \/ StepOf(x).kind \notin {"condition", "for_each"},
         NEW p, Loose(p, R2, D2), p # x
  PROVE  /\ p \in DOMAIN stepRows /\ R2[p] = stepRows[p] /\ Loose(p, stepRows, decided)
         /\ Undone(p, StateNow.done) /\ InRound(p, StateNow.iteration) /\ Unpassed(p, walk.stack)
         /\ Held(p, walk.stack, R2[p].status, DOMAIN stepRows)
  <1>1. p \in DOMAIN R2
    BY DEF Loose
  <1>2. p \in DOMAIN stepRows /\ R2[p] = stepRows[p]
    BY <1>1 DEF Off
  <1>3. \/ x \notin DOMAIN stepRows \/ stepRows[x].status # "skipped"
        \/ StepOf(x).kind \notin {"condition", "for_each"}
    BY DEF RowInv, RowAll, RowMeans
  <1>4. Loose(p, stepRows, decided)
    <2>1. /\ \A o : o # x /\ o \in DOMAIN stepRows => o \in DOMAIN R2 /\ R2[o] = stepRows[o]
          /\ \A o : o # x /\ o \in DOMAIN R2 => o \in DOMAIN stepRows
      BY DEF Off
    <2>. QED  BY <1>1, <1>2, <1>3, <2>1, LooseWas
  <1>5. LooseOK(p, walk.stack, stepRows, StateNow.done, StateNow.iteration)
    BY <1>2, <1>4 DEF LooseNow, LooseRows
  <1>. QED  BY <1>2, <1>4, <1>5 DEF LooseOK

(* What is open has its call, if that is made yet. *)
LEMMA HeldBy ==
  ASSUME NEW p, NEW s, NEW t, NEW status, NEW X, NEW X2, X \subseteq X2, Held(p, s, status, X),
         \A k \in 1 .. Len(s) : k # 1 /\ p = Owner(s[k].prefix) =>
           k \in 1 .. Len(t) /\ p = Owner(t[k].prefix)
  PROVE  Held(p, t, status, X2)
  <1>1. CASE status = "running"
    BY <1>1 DEF Held
  <1>2. CASE status # "running"
    BY <1>2 DEF Held, GatesIn
  <1>. QED  BY <1>1, <1>2

(* The calls of s and one that has just begun. *)
Begins(s, t, n) ==
  /\ n \in Nat \ {0} /\ Len(t) = n /\ n - 1 <= Len(s) /\ t[n].at = 1
  /\ \A k \in 1 .. n : k # n => t[k] = s[k]

LEMMA UnpassedBegins ==
  ASSUME NEW p, NEW s, NEW t, NEW n, Unpassed(p, s), Begins(s, t, n), Len(s) \in Nat
  PROVE  Unpassed(p, t)
  <1>1. ASSUME NEW k \in 1 .. Len(p), k \in 1 .. Len(t), t[k].prefix = Down(p, k),
               NEW j \in 1 .. Len(t[k].list), j < t[k].at
        PROVE  t[k].list[j] # p[k][1]
    <2>1. CASE k = n
      BY <1>1, <2>1 DEF Begins
    <2>2. CASE k # n
      <3>1. t[k] = s[k] /\ k \in 1 .. Len(s)
        BY <1>1, <2>2 DEF Begins
      <3>. QED  BY <1>1, <3>1 DEF Unpassed
    <2>. QED  BY <2>1, <2>2
  <1>. QED  BY <1>1 DEF Unpassed

LEMMA LooseEnters ==
  ASSUME WalkInv, PlaceInv, RowInv, LooseNow, NEW n, NEW list, NEW state, Enters(n, list, state),
         decided \subseteq decided',
         NEW st2, st2 = StateNow', NEW R2, R2 = stepRows', NEW D2, D2 = decided', NEW w, w = walk'
  PROVE  /\ LooseRows(R2, D2, st2.done, st2.iteration, w.stack)
         /\ RetOK(w.ret, w.stack, R2, D2, st2.elapsed)
  <1>1. PICK x, st, s, t : x = Here /\ st = StateNow /\ s = walk.stack /\ t = w.stack
    OBVIOUS
  <1>2. /\ Off(x, stepRows, R2, st.done, st2.done, st.iteration, st2.iteration)
        /\ \E row : R2 = Extend(stepRows, x, row) /\ row.status = "running"
        /\ st2.done = st.done /\ x \notin st.done
        /\ \/ st2.iteration = st.iteration
           \/ st2.iteration = Extend(st.iteration, x, n) /\ n = At(st.iteration, x, 1)
    BY <1>1, OffEnters
  <1>3. x \in DOMAIN R2 /\ R2[x].status = "running" /\ DOMAIN stepRows \subseteq DOMAIN R2
    BY <1>2 DEF Extend
  <1>4. At(st2.iteration, x, 1) = At(st.iteration, x, 1)
    BY <1>2 DEF Extend, At
  <1>5. AtStepOf /\ w.ret = "none" /\ n \in Nat \ {0}
    BY DEF Enters, Walking
  <1>6. PICK m \in Nat \ {0} : m = Len(s)
    BY <1>1, <1>5, HereAt
  <1>7. PICK g : g = Frame(list, Under(Top, n), clock.ran, NoLoop)
    OBVIOUS
  <1>8. Len(t) = m + 1 /\ t[m + 1] = g /\ \A j \in 1 .. m : t[j] = s[j]
    <2>1. t = Append(s, g)
      BY <1>1, <1>7 DEF Enters, Walking
    <2>2. PICK T : s \in Seq(T)
      BY <1>1, WalkStack
    <2>. QED  BY <1>6, <2>1, <2>2, AppendIs
  <1>9. g.prefix = Under(Top, n) /\ g.at = 1
    BY <1>7 DEF Frame
  <1>10. Owner(g.prefix) = x
    <2>1. FrameOK(Top, settled) /\ InList(Top) /\ x = Under(Top, 0) /\ manifest \in Manifests
      BY <1>1, <1>5, Standing DEF WalkInv
    <2>2. Owner(Under(Top, n)) = Under(Top, 0)
      BY <1>5, <2>1, BeforeHere
    <2>. QED  BY <1>9, <2>1, <2>2
  <1>11. PICK h : h = m + 1
    OBVIOUS
  <1>12. Begins(s, t, h) /\ Len(s) \in Nat
    BY <1>6, <1>8, <1>9, <1>11 DEF Begins
  <1>13. ASSUME NEW p, Loose(p, R2, D2) PROVE LooseOK(p, t, R2, st2.done, st2.iteration)
    <2>1. Undone(p, st.done) /\ InRound(p, st.iteration) /\ Unpassed(p, s)
      <3>1. CASE p # x
        BY <1>1, <1>2, <1>13, <3>1, OtherLoose
      <3>2. CASE p = x
        BY <1>1, <1>2, <1>5, <3>2, HereLoose
      <3>. QED  BY <3>1, <3>2
    <2>2. Undone(p, st2.done) /\ InRound(p, st2.iteration)
      BY <1>2, <1>4, <2>1, RoundStill
    <2>3. Unpassed(p, t)
      BY <1>12, <2>1, UnpassedBegins
    <2>4. Held(p, t, R2[p].status, DOMAIN R2)
      <3>1. CASE p # x
        <4>1. PICK status, X, X2 : status = R2[p].status /\ X = DOMAIN stepRows /\ X2 = DOMAIN R2
          OBVIOUS
        <4>2. Held(p, s, status, X) /\ X \subseteq X2
          BY <1>1, <1>2, <1>3, <1>13, <3>1, <4>1, OtherLoose
        <4>3. \A k \in 1 .. Len(s) : k # 1 /\ p = Owner(s[k].prefix) =>
                k \in 1 .. Len(t) /\ p = Owner(t[k].prefix)
          BY <1>6, <1>8
        <4>4. Held(p, t, status, X2)
          BY <4>2, <4>3, HeldBy
        <4>. QED  BY <4>1, <4>4
      <3>2. CASE p = x
        <4>1. h \in 1 .. Len(t) /\ h # 1 /\ p = Owner(t[h].prefix)
          BY <1>6, <1>8, <1>10, <1>11, <3>2
        <4>. QED  BY <1>3, <3>2, <4>1 DEF Held
      <3>. QED  BY <3>1, <3>2
    <2>. QED  BY <2>2, <2>3, <2>4 DEF LooseOK
  <1>14. LooseRows(R2, D2, st2.done, st2.iteration, t)
    BY <1>13 DEF LooseRows
  <1>. QED  BY <1>1, <1>5, <1>14 DEF RetOK

(* The step that made the call that returns. *)
LEMMA ReturnsTo ==
  ASSUME WalkInv, PlaceInv, RowInv, Returning, NEW s, s = walk.stack, NEW x, x = OwnerPath(Top)
  PROVE  \E m \in Nat \ {0} :
           /\ m = Len(s) /\ m # 1 /\ m \in 1 .. Len(s) /\ Top = s[m] /\ m - 1 \in 1 .. Len(s)
           /\ x = Owner(s[m].prefix) /\ x = Under(s[m - 1], 0) /\ InList(s[m - 1]) /\ Len(x) = m - 1
           /\ Len(s[m].prefix) = m - 1 /\ Len(s[m - 1].prefix) = m - 2
           /\ Front(s[m].prefix) = s[m - 1].prefix
           /\ x \in DOMAIN stepRows /\ stepRows[x].status = "running" /\ x \notin StateNow.done
  <1>1. PICK m \in Nat \ {0} : m = Len(s)
    BY WalkStack DEF Returning
  <1>2. m # 1 /\ m \in 1 .. Len(s) /\ Top = s[m]
    BY <1>1, WalkStack DEF Returning, TopLevel
  <1>3. x = Owner(s[m].prefix)
    BY <1>2, ReturningTo
  <1>4. /\ Len(x) = m - 1 /\ m - 1 \in 1 .. Len(s) /\ InList(s[m - 1]) /\ x = Under(s[m - 1], 0)
    BY <1>2, <1>3, OwnerLen
  <1>5. x \in DOMAIN stepRows /\ stepRows[x].status = "running" /\ x \notin StateNow.done
    BY <1>2, <1>3 DEF RowInv, RowAll, CallOK
  <1>6. Len(s[m].prefix) = m - 1 /\ Len(s[m - 1].prefix) = m - 2
    <2>1. FramePlace(s, m, decided) /\ FramePlace(s, m - 1, decided)
      BY <1>2, <1>4, StackAt
    <2>. QED  BY <2>1 DEF FramePlace
  <1>7. Front(s[m].prefix) = s[m - 1].prefix
    <2>1. PICK f : f = Last(Front(walk.stack))
      OBVIOUS
    <2>2. f = walk.stack[Len(walk.stack) - 1] /\ \E i \in Nat : Front(Top.prefix) = f.prefix
      BY <2>1, CalledFrom
    <2>. QED  BY <1>1, <1>2, <2>2
  <1>. QED  BY <1>1, <1>2, <1>3, <1>4, <1>5, <1>6, <1>7

(* Below the step that made the call, nothing is open when the call ends.      *)
LEMMA ReturnsBelow ==
  ASSUME WalkInv, PlaceInv, RowInv, LooseNow, Returning, walk.ret \in {"completed", "failed"},
         NEW x, x = OwnerPath(Top),
         NEW p, Loose(p, stepRows, decided), InRound(p, StateNow.iteration), Unpassed(p, walk.stack),
         NEW k \in 1 .. Len(p), k # Len(p), StepAt(p, k) = x
  PROVE  FALSE
  <1>1. PICK s : s = walk.stack
    OBVIOUS
  <1>2. PICK m \in Nat \ {0} :
           /\ m = Len(s) /\ m # 1 /\ m \in 1 .. Len(s) /\ x = Owner(s[m].prefix) /\ Len(x) = m - 1
           /\ Len(s[m].prefix) = m - 1
    BY <1>1, ReturnsTo
  <1>3. p \in DOMAIN stepRows
    BY DEF Loose
  <1>4. p \in Paths /\ Len(p) \in Nat
    BY <1>3, RowPath
  <1>5. Len(StepAt(p, k)) = k
    <2>1. \A h \in 1 .. Len(p) : Len(StepAt(p, h)) = h
      BY <1>4, DownNext
    <2>. QED  BY <2>1
  <1>6. k = m - 1 /\ m \in 1 .. Len(p)
    BY <1>2, <1>4, <1>5
  <1>7. Down(p, m) = s[m].prefix
    BY <1>1, <1>2, <1>6, OwnerBelow
  <1>8. CASE walk.ret = "completed"
    BY <1>1, <1>2, <1>3, <1>6, <1>7, <1>8, NoneBelow DEF Returning
  <1>9. CASE walk.ret = "failed"
    <2>1. RetOK(walk.ret, s, stepRows, decided, StateNow.elapsed)
      BY <1>1 DEF LooseNow, Returning
    <2>2. ~Below(p, s[m].prefix)
      BY <1>2, <1>3, <1>9, <2>1 DEF RetOK
    <2>3. Below(p, s[m].prefix)
      BY <1>2, <1>4, <1>6, <1>7 DEF Below
    <2>. QED  BY <2>2, <2>3
  <1>. QED  BY <1>8, <1>9

LEMMA LooseRepeats ==
  ASSUME WalkInv, PlaceInv, RowInv, LooseNow, NEW n, NEW loop, NEW state, Repeats(n, loop, state),
         NEW st2, st2 = StateNow', NEW R2, R2 = stepRows', NEW D2, D2 = decided', NEW w, w = walk'
  PROVE  /\ LooseRows(R2, D2, st2.done, st2.iteration, w.stack)
         /\ RetOK(w.ret, w.stack, R2, D2, st2.elapsed)
  <1>1. PICK x, st, s, t : x = OwnerPath(Top) /\ st = StateNow /\ s = walk.stack /\ t = w.stack
    OBVIOUS
  <1>2. /\ Off(x, stepRows, R2, st.done, st2.done, st.iteration, st2.iteration)
        /\ R2 = stepRows /\ st2.done = st.done
    BY <1>1, OffRepeats
  <1>3. Returning /\ D2 = decided /\ w.ret = "none" /\ walk.ret = "completed"
    BY DEF Repeats, OnlyWalk, Walking
  <1>4. PICK m \in Nat \ {0} : m = Len(s) /\ m # 1 /\ m \in 1 .. Len(s) /\ x = Owner(s[m].prefix)
    BY <1>1, <1>3, ReturnsTo
  <1>5. PICK g : g = Frame(Top.list, NextPrefix(n), Top.since, loop)
    OBVIOUS
  <1>6. Len(t) = m /\ t[m] = g /\ \A j \in 1 .. m - 1 : t[j] = s[j]
    <2>1. t = OnTop(s, g)
      BY <1>1, <1>5 DEF Repeats, Walking, NextPrefix
    <2>2. PICK T : s \in Seq(T)
      BY <1>1, WalkStack
    <2>3. s # <<>>
      BY <1>4
    <2>. QED  BY <1>4, <2>1, <2>2, <2>3, OnTopIs
  <1>7. g.at = 1 /\ Owner(g.prefix) = x
    <2>1. PICK f : f = Last(Front(walk.stack))
      OBVIOUS
    <2>2. n \in Nat \ {0} /\ NextPrefix(n) = Under(f, n)
      <3>1. decided \subseteq decided
        OBVIOUS
      <3>. QED  BY <2>1, <3>1, RepeatsUnder
    <2>3. manifest \in Manifests /\ FrameOK(f, settled) /\ InList(f) /\ x = Under(f, 0)
      BY <1>1, <1>3, <2>1, CalledFrom
    <2>4. Owner(Under(f, n)) = Under(f, 0)
      BY <2>2, <2>3, BeforeHere
    <2>. QED  BY <1>5, <2>2, <2>3, <2>4 DEF Frame
  <1>8. Begins(s, t, m) /\ Len(s) \in Nat
    BY <1>4, <1>6, <1>7 DEF Begins
  <1>9. ASSUME NEW p, Loose(p, R2, D2) PROVE LooseOK(p, t, R2, st2.done, st2.iteration)
    <2>1. p \in DOMAIN stepRows /\ Loose(p, stepRows, decided)
      BY <1>2, <1>3, <1>9 DEF Loose
    <2>2. /\ Undone(p, st.done) /\ InRound(p, st.iteration) /\ Unpassed(p, s)
          /\ Held(p, s, stepRows[p].status, DOMAIN stepRows)
      BY <1>1, <2>1 DEF LooseNow, LooseRows, LooseOK
    <2>3. \A k \in 1 .. Len(p) : k # Len(p) => StepAt(p, k) # x
      BY <1>1, <1>3, <2>1, <2>2, ReturnsBelow
    <2>4. InRound(p, st2.iteration)
      BY <1>2, <2>2, <2>3, RoundStill
    <2>5. Unpassed(p, t)
      BY <1>8, <2>2, UnpassedBegins
    <2>6. \A k \in 1 .. Len(s) : k # 1 /\ p = Owner(s[k].prefix) =>
            k \in 1 .. Len(t) /\ p = Owner(t[k].prefix)
      BY <1>4, <1>6, <1>7
    <2>7. PICK status, X : status = stepRows[p].status /\ X = DOMAIN stepRows
      OBVIOUS
    <2>8. Held(p, t, status, X)
      BY <2>2, <2>6, <2>7, HeldBy
    <2>. QED  BY <1>2, <2>2, <2>4, <2>5, <2>7, <2>8 DEF LooseOK
  <1>10. LooseRows(R2, D2, st2.done, st2.iteration, t)
    BY <1>9 DEF LooseRows
  <1>. QED  BY <1>1, <1>3, <1>10 DEF RetOK

(* A gate below a call is below the call above it, and in the step that made it. *)
LEMMA GateAbove ==
  ASSUME WalkInv, PlaceInv, RowInv, Returning, NEW s, s = walk.stack, NEW x, x = OwnerPath(Top),
         NEW m, m = Len(s), NEW g \in DOMAIN stepRows, Below(g, s[m].prefix)
  PROVE  Within(x, g) /\ Below(g, s[m - 1].prefix)
  <1>1. /\ m \in Nat \ {0} /\ m # 1 /\ m \in 1 .. Len(s)
        /\ x = Owner(s[m].prefix) /\ Len(x) = m - 1
        /\ Len(s[m].prefix) = m - 1 /\ Len(s[m - 1].prefix) = m - 2
        /\ Front(s[m].prefix) = s[m - 1].prefix
    BY ReturnsTo
  <1>2. PICK q, j : q = s[m].prefix /\ j = m - 1
    OBVIOUS
  <1>3. /\ q # <<>> /\ q \in Paths /\ q[j] = Last(q) /\ Last(q)[1] = Last(x)[1] /\ Front(q) = Front(x)
    BY <1>1, <1>2, OwnerTurn
  <1>4. g \in Paths /\ Len(g) \in Nat
    BY RowPath
  <1>5. j \in 1 .. Len(g) /\ Len(g) > j /\ Down(g, j + 1) = q /\ m = j + 1 /\ j \in Nat
    BY <1>1, <1>2, <1>4 DEF Below
  <1>6. Last(q) = g[j] /\ Front(q) = Down(g, j)
    <2>1. \A k \in 1 .. Len(g) : Last(Down(g, k + 1)) = g[k] /\ Front(Down(g, k + 1)) = Down(g, k)
      BY <1>4, DownNext
    <2>2. Last(Down(g, j + 1)) = g[j] /\ Front(Down(g, j + 1)) = Down(g, j)
      BY <1>5, <2>1
    <2>. QED  BY <1>5, <2>2
  <1>7. Within(x, g)
    <2>1. SubSeq(g, 1, Len(x) - 1) = Front(x)
      BY <1>1, <1>2, <1>3, <1>6 DEF Down
    <2>2. g[Len(x)][1] = Last(x)[1]
      BY <1>1, <1>2, <1>3, <1>6
    <2>. QED  BY <1>1, <1>2, <1>5, <2>1, <2>2 DEF Within
  <1>8. Below(g, s[m - 1].prefix)
    <2>1. Down(g, j) = s[m - 1].prefix
      BY <1>1, <1>2, <1>6
    <2>2. Len(g) > m - 2 /\ (m - 2) + 1 = j
      BY <1>1, <1>2, <1>4, <1>5
    <2>. QED  BY <1>1, <2>1, <2>2 DEF Below
  <1>. QED  BY <1>7, <1>8

LEMMA LooseLeaves ==
  ASSUME WalkInv, PlaceInv, RowInv, LooseNow, NEW result, NEW state, Leaves(result, state),
         NEW st2, st2 = StateNow', NEW R2, R2 = stepRows', NEW D2, D2 = decided', NEW w, w = walk'
  PROVE  /\ LooseRows(R2, D2, st2.done, st2.iteration, w.stack)
         /\ RetOK(w.ret, w.stack, R2, D2, st2.elapsed)
  <1>1. PICK x, st, s, t : x = OwnerPath(Top) /\ st = StateNow /\ s = walk.stack /\ t = w.stack
    OBVIOUS
  <1>2. /\ Off(x, stepRows, R2, st.done, st2.done, st.iteration, st2.iteration)
        /\ \E row : R2 = Extend(stepRows, x, row) /\ row.status = RowStatus(result)
        /\ st2.done = IF result \in {"completed", "skipped"} THEN st.done \cup {x} ELSE st.done
        /\ walk.ret # "completed" => st2.iteration = st.iteration
    BY <1>1, OffLeaves
  <1>3. PICK row : R2 = Extend(stepRows, x, row) /\ row.status = RowStatus(result)
    BY <1>2
  <1>4. x \in DOMAIN R2 /\ R2[x] = row /\ DOMAIN stepRows \subseteq DOMAIN R2
    BY <1>3 DEF Extend
  <1>5. /\ Returning /\ D2 = decided /\ decided \subseteq D2 /\ InWalk
        /\ walk.ret \in {"completed", "failed", "waiting", "paused"}
        /\ result = walk.ret \/ (walk.ret = "completed" /\ result \in {"completed", "failed"})
    BY DEF Leaves, Returning, PlaceInv, Returns
  <1>6. PICK m \in Nat \ {0} :
           /\ m = Len(s) /\ m # 1 /\ m \in 1 .. Len(s) /\ m - 1 \in 1 .. Len(s)
           /\ x = Owner(s[m].prefix) /\ x = Under(s[m - 1], 0) /\ InList(s[m - 1]) /\ Len(x) = m - 1
           /\ Len(s[m - 1].prefix) = m - 2
           /\ x \in DOMAIN stepRows /\ stepRows[x].status = "running" /\ x \notin st.done
    BY <1>1, <1>5, ReturnsTo
  <1>7. PICK n : n = m - 1
    OBVIOUS
  <1>8. n \in Nat \ {0} /\ n \in 1 .. Len(s) /\ n = Len(s) - 1 /\ Len(s) \in Nat
    BY <1>6, <1>7
  <1>9. \/ Settles(x, result) /\ w.ret = "none" /\ Ahead(s, t, n)
        \/ ~Settles(x, result) /\ w.ret = result /\ Same(s, t, n)
    BY <1>1, <1>8, LeavesCalls
  <1>10. s[n].at \in Nat /\ Len(s[n].list) \in Nat
    <2>1. FrameOK(s[n], settled)
      BY <1>1, <1>8, StackAt
    <2>. QED  BY <2>1, LenProperties DEF FrameOK
  <1>11. RetOK(walk.ret, s, stepRows, decided, st.elapsed)
    BY <1>1, <1>5 DEF LooseNow
  <1>12. ASSUME NEW p, Loose(p, R2, D2), p # x
         PROVE  /\ p \in DOMAIN stepRows /\ R2[p] = stepRows[p] /\ Undone(p, st.done)
                /\ InRound(p, st.iteration) /\ Unpassed(p, s) /\ Held(p, s, R2[p].status, DOMAIN stepRows)
                /\ result \in {"completed", "failed"} => \A k \in 1 .. Len(p) : StepAt(p, k) # x
    <2>1. /\ p \in DOMAIN stepRows /\ R2[p] = stepRows[p] /\ Loose(p, stepRows, decided)
          /\ Undone(p, st.done) /\ InRound(p, st.iteration) /\ Unpassed(p, s)
          /\ Held(p, s, R2[p].status, DOMAIN stepRows)
      BY <1>1, <1>2, <1>5, <1>6, <1>12, OtherLoose
    <2>2. ASSUME result \in {"completed", "failed"}, NEW k \in 1 .. Len(p), StepAt(p, k) = x PROVE FALSE
      <3>1. CASE k = Len(p)
        BY <1>12, <2>1, <2>2, <3>1, RowPath
      <3>2. CASE k # Len(p)
        <4>1. walk.ret \in {"completed", "failed"}
          BY <1>5, <2>2
        <4>. QED  BY <1>1, <1>5, <2>1, <2>2, <3>2, <4>1, ReturnsBelow
      <3>. QED  BY <3>1, <3>2
    <2>. QED  BY <2>1, <2>2
  <1>13. ASSUME NEW p, Loose(p, R2, D2) PROVE LooseOK(p, t, R2, st2.done, st2.iteration)
    <2>1. CASE p # x
      <3>1. /\ p \in DOMAIN stepRows /\ R2[p] = stepRows[p] /\ Undone(p, st.done)
            /\ InRound(p, st.iteration) /\ Unpassed(p, s) /\ Held(p, s, R2[p].status, DOMAIN stepRows)
            /\ result \in {"completed", "failed"} => \A k \in 1 .. Len(p) : StepAt(p, k) # x
        BY <1>12, <1>13, <2>1
      <3>2. Undone(p, st2.done)
        <4>1. x \in st2.done => x \in st.done \/ \A k \in 1 .. Len(p) : StepAt(p, k) # x
          BY <1>2, <1>5, <3>1
        <4>. QED  BY <1>2, <3>1, <4>1, UndoneStill
      <3>3. InRound(p, st2.iteration)
        <4>1. CASE walk.ret # "completed"
          BY <1>2, <3>1, <4>1
        <4>2. CASE walk.ret = "completed"
          <5>1. \A k \in 1 .. Len(p) : k # Len(p) => StepAt(p, k) # x
            BY <1>5, <3>1, <4>2
          <5>. QED  BY <1>2, <3>1, <5>1, RoundStill
        <4>. QED  BY <4>1, <4>2
      <3>4. Unpassed(p, t)
        <4>1. CASE Settles(x, result) /\ Ahead(s, t, n)
          <5>1. result \in {"completed", "failed"}
            BY <1>5, <4>1 DEF Settles
          <5>2. n \in 1 .. Len(p) => StepAt(p, n) # Under(s[n], 0)
            BY <1>6, <1>7, <3>1, <5>1
          <5>. QED  BY <1>8, <1>10, <3>1, <4>1, <5>2, UnpassedAhead
        <4>2. CASE Same(s, t, n)
          BY <1>8, <3>1, <4>2, UnpassedSame
        <4>. QED  BY <1>9, <4>1, <4>2
      <3>5. Held(p, t, R2[p].status, DOMAIN R2)
        <4>1. \A k \in 1 .. Len(s) : k \notin 1 .. n => p # Owner(s[k].prefix)
          <5>1. ASSUME NEW k \in 1 .. Len(s), k \notin 1 .. n PROVE k = m
            BY <1>6, <1>7, <5>1
          <5>. QED  BY <1>6, <2>1, <5>1
        <4>2. Ahead(s, t, n) \/ Same(s, t, n)
          BY <1>9
        <4>3. PICK status, X, X2 : status = R2[p].status /\ X = DOMAIN stepRows /\ X2 = DOMAIN R2
          OBVIOUS
        <4>4. Held(p, s, status, X) /\ X \subseteq X2
          BY <1>4, <3>1, <4>3
        <4>5. Held(p, t, status, X2)
          BY <1>8, <4>1, <4>2, <4>4, HeldStill
        <4>. QED  BY <4>3, <4>5, SMTT(30)
      <3>. QED  BY <3>2, <3>3, <3>4, <3>5 DEF LooseOK
    <2>2. CASE p = x
      <3>1. R2[p].status = RowStatus(result) /\ R2[p].status \in OpenRow
        BY <1>3, <1>4, <1>13, <2>2 DEF Loose
      <3>2. result \in {"waiting", "paused"} /\ walk.ret = result /\ R2[p].status # "running"
        BY <1>5, <3>1 DEF OpenRow, RowStatus
      <3>3. Same(s, t, n) /\ st2.done = st.done /\ st2.iteration = st.iteration
        BY <1>2, <1>9, <3>2 DEF Settles
      <3>4. Loose(p, stepRows, decided)
        <4>1. /\ \A o : o # x /\ o \in DOMAIN stepRows => o \in DOMAIN R2 /\ R2[o] = stepRows[o]
              /\ \A o : o # x /\ o \in DOMAIN R2 => o \in DOMAIN stepRows
          BY <1>2 DEF Off
        <4>2. p \in DOMAIN R2 /\ p \in DOMAIN stepRows /\ stepRows[p].status \in OpenRow
              /\ stepRows[x].status # "skipped"
          BY <1>4, <1>6, <2>2 DEF OpenRow
        <4>. QED  BY <1>5, <1>13, <4>1, <4>2, LooseWas
      <3>5. Undone(p, st.done) /\ InRound(p, st.iteration) /\ Unpassed(p, s)
        BY <1>1, <1>6, <2>2, <3>4 DEF LooseNow, LooseRows, LooseOK
      <3>6. Unpassed(p, t)
        BY <1>8, <3>3, <3>5, UnpassedSame
      <3>7. PICK g \in DOMAIN stepRows : Gate(g) /\ Below(g, s[m].prefix)
        BY <1>6, <1>11, <3>2 DEF RetOK
      <3>8. Within(p, g)
        BY <1>1, <1>5, <1>6, <2>2, <3>7, GateAbove
      <3>9. GatesIn(p, DOMAIN R2)
        BY <1>4, <3>7, <3>8 DEF GatesIn
      <3>10. Held(p, t, R2[p].status, DOMAIN R2)
        BY <3>2, <3>9 DEF Held
      <3>. QED  BY <3>3, <3>5, <3>6, <3>10 DEF LooseOK
    <2>. QED  BY <2>1, <2>2
  <1>14. LooseRows(R2, D2, st2.done, st2.iteration, t)
    BY <1>13 DEF LooseRows
  <1>15. CASE Settles(x, result) /\ w.ret = "none"
    BY <1>1, <1>14, <1>15 DEF RetOK
  <1>16. CASE ~Settles(x, result) /\ w.ret = result /\ Same(s, t, n)
    <2>1. Len(t) = n /\ t[n] = s[n]
      BY <1>8, <1>16 DEF Same
    <2>2. ASSUME result = "failed", NEW p, Loose(p, R2, D2), Below(p, s[n].prefix) PROVE FALSE
      <3>1. p # x
        BY <1>3, <1>4, <2>2 DEF Loose, RowStatus, OpenRow
      <3>2. p \in DOMAIN stepRows /\ Unpassed(p, s) /\ \A k \in 1 .. Len(p) : StepAt(p, k) # x
        BY <1>12, <2>2, <3>1
      <3>3. Len(p) \in Nat
        BY <3>2, RowPath
      <3>4. n \in 1 .. Len(p) /\ Down(p, n) = s[n].prefix
        BY <1>6, <1>7, <1>8, <2>2, <3>3 DEF Below
      <3>5. StepAt(p, n) = x \/ x \in settled
        BY <1>1, <1>6, <1>7, <1>8, <3>2, <3>4, BelowIndex
      <3>6. x \in settled => StepOf(x).onError = "continue"
        BY <1>1, <1>6 DEF RowInv, RowAll, SettledOK
      <3>. QED  BY <1>16, <2>2, <3>2, <3>4, <3>5, <3>6 DEF Settles
    <2>3. ASSUME result \in {"waiting", "paused"}
          PROVE  \E g \in DOMAIN R2 : Gate(g) /\ Below(g, s[n].prefix)
      <3>1. PICK g \in DOMAIN stepRows : Gate(g) /\ Below(g, s[m].prefix)
        BY <1>5, <1>6, <1>11, <2>3 DEF RetOK
      <3>2. Below(g, s[n].prefix)
        BY <1>1, <1>5, <1>6, <1>7, <3>1, GateAbove
      <3>. QED  BY <1>4, <3>1, <3>2
    <2>4. RetOK(w.ret, t, R2, D2, st2.elapsed)
      BY <1>16, <2>1, <2>2, <2>3 DEF RetOK
    <2>. QED  BY <1>1, <1>14, <2>4
  <1>. QED  BY <1>9, <1>15, <1>16

(* The state, the rows and the calls stay; only what is known of the result changes. *)
LEMMA FailsBelow ==
  ASSUME WalkInv, PlaceInv, RowInv, LooseNow, GuardFails, NEW s, s = walk.stack, NEW n, n = Len(s),
         NEW p, Loose(p, stepRows, decided), Below(p, s[n].prefix)
  PROVE  FALSE
  <1>1. PICK x : x = Here
    OBVIOUS
  <1>2. AtStepOf /\ StepOf(x).if = "bad"
    BY <1>1 DEF GuardFails
  <1>3. n \in Nat \ {0} /\ n \in 1 .. Len(s) /\ InList(s[n]) /\ x = Under(s[n], 0)
    BY <1>1, <1>2, HereAt
  <1>4. Len(s[n].prefix) = n - 1
    BY <1>3, StackAt DEF FramePlace
  <1>5. p \in DOMAIN stepRows /\ Unpassed(p, s)
    BY DEF Loose, LooseNow, LooseRows, LooseOK
  <1>6. Len(p) \in Nat /\ RowOK(p, DOMAIN stepRows, settled, decided)
    BY <1>5, RowPath
  <1>7. n \in 1 .. Len(p) /\ Down(p, n) = s[n].prefix
    BY <1>3, <1>4, <1>6 DEF Below
  <1>8. StepAt(p, n) = x \/ x \in settled
    BY <1>3, <1>5, <1>7, BelowIndex
  <1>9. x \notin settled
    BY <1>2 DEF RowInv, RowAll, SettledOK
  <1>10. x \in DOMAIN stepRows
    BY <1>6, <1>7, <1>8, <1>9 DEF RowOK
  <1>. QED  BY <1>2, <1>10 DEF RowInv, RowAll, RowOK

LEMMA PassesLoose ==
  ASSUME WalkInv, PlaceInv, RowInv, LooseNow, Passes, NEW s, s = walk.stack, NEW t, t = walk'.stack,
         NEW p, Loose(p, stepRows, decided)
  PROVE  LooseOK(p, t, stepRows, StateNow.done, StateNow.iteration)
  <1>1. PICK x, n, st : x = Here /\ n = Len(s) /\ st = StateNow
    OBVIOUS
  <1>2. n \in Nat \ {0} /\ n \in 1 .. Len(s) /\ Top = s[n] /\ x = Under(s[n], 0) /\ InWalk
    BY <1>1, HereAt DEF Passes
  <1>3. x \in st.done
    BY <1>1, <1>2 DEF Passes, StateNow
  <1>4. FrameOK(s[n], settled) /\ s[n].at \in Nat /\ Len(s[n].list) \in Nat
    <2>1. FrameOK(s[n], settled)
      BY <1>2, StackAt
    <2>. QED  BY <2>1, LenProperties DEF FrameOK
  <1>5. PICK g : g = [Top EXCEPT !.at = @ + 1]
    OBVIOUS
  <1>6. g.list = s[n].list /\ g.prefix = s[n].prefix /\ g.at = s[n].at + 1
    <2>1. DOMAIN s[n] = FrameFields
      BY <1>4 DEF FrameOK
    <2>2. PICK f : f = s[n]
      OBVIOUS
    <2>. QED  BY <1>2, <1>5, <2>1, <2>2 DEF FrameFields
  <1>7. Ahead(s, t, n)
    <2>1. t = OnTop(s, g)
      BY <1>5 DEF Passes, WalkInv, WalkOK
    <2>2. PICK T : s \in Seq(T)
      BY WalkStack
    <2>3. s # <<>>
      BY <1>2 DEF InWalk
    <2>4. Len(t) = n /\ t[n] = g /\ \A k \in 1 .. n - 1 : t[k] = s[k]
      BY <1>1, <2>1, <2>2, <2>3, OnTopIs
    <2>5. ASSUME NEW k \in 1 .. n, k # n PROVE t[k] = s[k]
      BY <1>2, <2>4, <2>5
    <2>. QED  BY <1>2, <1>6, <2>4, <2>5 DEF Ahead
  <1>8. /\ Undone(p, st.done) /\ InRound(p, st.iteration) /\ Unpassed(p, s)
        /\ Held(p, s, stepRows[p].status, DOMAIN stepRows)
    BY <1>1 DEF Loose, LooseNow, LooseRows, LooseOK
  <1>9. Unpassed(p, t)
    <2>1. n \in 1 .. Len(p) => StepAt(p, n) # Under(s[n], 0)
      BY <1>2, <1>3, <1>8 DEF Undone
    <2>2. Len(s) \in Nat
      BY <1>1, <1>2
    <2>. QED  BY <1>4, <1>7, <1>8, <2>1, <2>2, UnpassedAhead
  <1>10. Held(p, t, stepRows[p].status, DOMAIN stepRows)
    <2>1. PICK status, X : status = stepRows[p].status /\ X = DOMAIN stepRows
      OBVIOUS
    <2>2. \A k \in 1 .. Len(s) : k \notin 1 .. n => p # Owner(s[k].prefix)
      BY <1>1
    <2>3. Len(s) \in Nat /\ X \subseteq X /\ Held(p, s, status, X)
      BY <1>1, <1>2, <1>8, <2>1
    <2>4. Held(p, t, status, X)
      BY <1>7, <2>2, <2>3, HeldStill
    <2>. QED  BY <2>1, <2>4
  <1>. QED  BY <1>1, <1>8, <1>9, <1>10 DEF LooseOK

(* The execution starts, or ends: no call of it is left, or none below the top. *)
LEMMA OutsideLoose ==
  ASSUME WalkInv, PlaceInv, RowInv, LooseNow, Start \/ WalkEnds, NEW t, t = walk'.stack,
         NEW p, Loose(p, stepRows, decided)
  PROVE  LooseOK(p, t, stepRows, StateNow.done, StateNow.iteration)
  <1>1. PICK s, st : s = walk.stack /\ st = StateNow
    OBVIOUS
  <1>2. Len(s) \in 0 .. 1
    <2>1. CASE Start
      BY <1>1, <2>1, WalkStack DEF Start, InWalk
    <2>2. CASE WalkEnds
      BY <1>1, <2>2, WalkStack DEF WalkEnds, TopLevel
    <2>. QED  BY <2>1, <2>2
  <1>3. t = <<>> \/ \E g : t = <<g>> /\ g.at = 1
    BY DEF Start, WalkEnds, NoWalk, Walking, Frame
  <1>4. /\ Undone(p, st.done) /\ InRound(p, st.iteration)
        /\ Held(p, s, stepRows[p].status, DOMAIN stepRows)
    BY <1>1 DEF Loose, LooseNow, LooseRows, LooseOK
  <1>5. stepRows[p].status # "running" /\ GatesIn(p, DOMAIN stepRows)
    BY <1>2, <1>4 DEF Held
  <1>6. Held(p, t, stepRows[p].status, DOMAIN stepRows)
    BY <1>5 DEF Held
  <1>7. Unpassed(p, t)
    <2>1. CASE t = <<>>
      BY <2>1 DEF Unpassed
    <2>2. CASE \E g : t = <<g>> /\ g.at = 1
      <3>1. PICK g : t = <<g>> /\ g.at = 1
        BY <2>2
      <3>2. Len(t) = 1 /\ t[1] = g
        BY <3>1
      <3>. QED  BY <3>1, <3>2 DEF Unpassed
    <2>. QED  BY <1>3, <2>1, <2>2
  <1>. QED  BY <1>1, <1>4, <1>6, <1>7 DEF LooseOK

LEMMA LooseRests ==
  ASSUME WalkInv, PlaceInv, RowInv, LooseNow, Rests,
         NEW st2, st2 = StateNow', NEW R2, R2 = stepRows', NEW D2, D2 = decided', NEW w, w = walk'
  PROVE  /\ LooseRows(R2, D2, st2.done, st2.iteration, w.stack)
         /\ w.stack # <<>> => RetOK(w.ret, w.stack, R2, D2, st2.elapsed)
  <1>1. R2 = stepRows /\ D2 = decided /\ st2 = StateNow
    BY RestSame
  <1>2. PICK s, st : s = walk.stack /\ st = StateNow
    OBVIOUS
  <1>3. DOMAIN walk = {"stack", "state", "ret"}
    BY DEF WalkInv, WalkOK
  <1>4. CASE Start \/ WalkEnds
    <2>1. LooseRows(R2, D2, st2.done, st2.iteration, w.stack)
      BY <1>1, <1>4, OutsideLoose DEF LooseRows
    <2>2. w.stack # <<>> => w.ret = "none"
      BY <1>4 DEF Start, WalkEnds, NoWalk, Walking
    <2>. QED  BY <2>1, <2>2 DEF RetOK
  <1>5. CASE Passes
    <2>1. LooseRows(R2, D2, st2.done, st2.iteration, w.stack)
      BY <1>1, <1>5, PassesLoose DEF LooseRows
    <2>2. w.ret = "none"
      BY <1>3, <1>5 DEF Passes, AtStepOf
    <2>. QED  BY <2>1, <2>2 DEF RetOK
  <1>6. CASE ListEnds \/ RunTimesOut \/ GuardFails
    <2>1. w.stack = s /\ InWalk
      BY <1>2, <1>3, <1>6 DEF ListEnds, RunTimesOut, GuardFails, AtStepOf
    <2>2. LooseRows(R2, D2, st2.done, st2.iteration, w.stack)
      BY <1>1, <1>2, <2>1 DEF LooseNow
    <2>3. CASE ListEnds
      <3>1. w.ret = "completed"
        BY <1>3, <2>3 DEF ListEnds
      <3>. QED  BY <2>2, <3>1 DEF RetOK
    <2>4. CASE RunTimesOut
      <3>1. w.ret = "failed" /\ Len(s) = 1 /\ walk.state.elapsed > Budget
        BY <1>2, <1>3, <2>4 DEF RunTimesOut, OverBudget, TopLevel
      <3>2. st2.elapsed > Budget
        BY <1>1, <2>1, <3>1 DEF StateNow
      <3>. QED  BY <2>1, <2>2, <3>1, <3>2 DEF RetOK
    <2>5. CASE GuardFails
      <3>1. w.ret = "failed"
        BY <1>3, <2>5 DEF GuardFails
      <3>2. \A p \in DOMAIN R2 : Loose(p, R2, D2) => ~Below(p, s[Len(s)].prefix)
        BY <1>1, <1>2, <2>5, FailsBelow
      <3>. QED  BY <2>1, <2>2, <3>1, <3>2 DEF RetOK
    <2>. QED  BY <1>6, <2>3, <2>4, <2>5
  <1>7. CASE TimePasses \/ UNCHANGED walkVars
    <2>1. w = walk
      BY <1>7 DEF TimePasses, walkVars
    <2>. QED  BY <1>1, <2>1 DEF LooseNow, InWalk
  <1>. QED  BY <1>4, <1>5, <1>6, <1>7 DEF Rests

EndedNow ==
  ~InWalk /\ run.status \in {"succeeded", "failed"} /\ StateNow.elapsed <= Budget =>
    EndedOK(stepRows, decided, tasks)

(* A decision closes the row of its task, and may end a run that is parked.    *)
LEMMA LooseDecides ==
  ASSUME WalkInv, PlaceInv, RowInv, LooseNow, EndedNow, Decide,
         NEW st2, st2 = StateNow', NEW R2, R2 = stepRows', NEW D2, D2 = decided', NEW w, w = walk',
         NEW T2, T2 = tasks', NEW run2, run2 = run'
  PROVE  /\ LooseRows(R2, D2, st2.done, st2.iteration, w.stack)
         /\ w.stack # <<>> => RetOK(w.ret, w.stack, R2, D2, st2.elapsed)
         /\ w.stack = <<>> /\ run2.status \in {"succeeded", "failed"} /\ st2.elapsed <= Budget =>
              EndedOK(R2, D2, T2)
  <1>1. PICK s, st : s = walk.stack /\ st = StateNow
    OBVIOUS
  <1>2. \E q \in DOMAIN tasks, verdict \in {"approved", "rejected", "timeout"} :
          /\ tasks[q] = "pending" /\ T2 = [tasks EXCEPT ![q] = verdict]
          /\ run2 = IF run.status # "paused" THEN run
                    ELSE [run EXCEPT !.status = IF ~Aborts(q, verdict) THEN "queued"
                                                ELSE IF verdict = "timeout" THEN "failed" ELSE "canceled"]
          /\ Off(q, stepRows, R2, st.done, st2.done, st.iteration, st2.iteration) /\ st2 = st
          /\ \/ R2 = stepRows /\ stepRows[q].status # "paused"
             \/ /\ stepRows[q].status = "paused"
                /\ \E row : /\ R2 = Extend(stepRows, q, row)
                            /\ row.status \in {"succeeded", "skipped", "failed"}
    BY <1>1, OffDecide
  <1>3. PICK q \in DOMAIN tasks, verdict \in {"approved", "rejected", "timeout"} :
          /\ tasks[q] = "pending" /\ T2 = [tasks EXCEPT ![q] = verdict]
          /\ run2 = IF run.status # "paused" THEN run
                    ELSE [run EXCEPT !.status = IF ~Aborts(q, verdict) THEN "queued"
                                                ELSE IF verdict = "timeout" THEN "failed" ELSE "canceled"]
          /\ Off(q, stepRows, R2, st.done, st2.done, st.iteration, st2.iteration) /\ st2 = st
          /\ \/ R2 = stepRows /\ stepRows[q].status # "paused"
             \/ /\ stepRows[q].status = "paused"
                /\ \E row : /\ R2 = Extend(stepRows, q, row)
                            /\ row.status \in {"succeeded", "skipped", "failed"}
    BY <1>2
  <1>4. D2 = decided /\ decided \subseteq D2 /\ w = walk
    BY DEF Decide
  <1>5. q \in DOMAIN stepRows /\ StepOf(q).kind = "approval" /\ RowMeans(q, stepRows[q].status, st.done)
    BY <1>1 DEF RowInv, RowAll
  <1>6. DOMAIN R2 = DOMAIN stepRows
    BY <1>3, <1>5 DEF Extend
  <1>7. R2[q].status \notin OpenRow
    <2>1. CASE R2 = stepRows /\ stepRows[q].status # "paused"
      BY <1>5, <2>1 DEF RowMeans, OpenRow
    <2>2. CASE \E row : R2 = Extend(stepRows, q, row) /\ row.status \in {"succeeded", "skipped", "failed"}
      <3>1. R2[q].status \in {"succeeded", "skipped", "failed"}
        BY <2>2 DEF Extend
      <3>. QED  BY <3>1 DEF OpenRow
    <2>. QED  BY <1>3, <2>1, <2>2
  <1>8. ASSUME NEW p, Loose(p, R2, D2)
        PROVE  /\ p # q /\ p \in DOMAIN stepRows /\ R2[p] = stepRows[p] /\ Loose(p, stepRows, decided)
               /\ Undone(p, st.done) /\ InRound(p, st.iteration) /\ Unpassed(p, s)
               /\ Held(p, s, R2[p].status, DOMAIN stepRows)
    <2>1. p # q
      BY <1>7, <1>8 DEF Loose
    <2>. QED  BY <1>1, <1>3, <1>4, <1>5, <1>8, <2>1, OtherLoose
  <1>9. LooseRows(R2, D2, st2.done, st2.iteration, w.stack)
    BY <1>1, <1>3, <1>4, <1>6, <1>8 DEF LooseRows, LooseOK
  <1>10. w.stack # <<>> => RetOK(w.ret, w.stack, R2, D2, st2.elapsed)
    BY <1>1, <1>3, <1>4, <1>6, <1>8 DEF LooseNow, InWalk, RetOK
  <1>11. ASSUME w.stack = <<>>, run2.status \in {"succeeded", "failed"}, st2.elapsed <= Budget,
                NEW p \in DOMAIN R2, Loose(p, R2, D2)
         PROVE  \E o \in DOMAIN T2 \ {p} :
                  T2[o] = "timeout" /\ StepOf(o).onTimeout = "abort" /\ GatesIn(p, DOMAIN R2)
    <2>1. ~InWalk
      BY <1>4, <1>11 DEF InWalk
    <2>2. CASE run.status # "paused"
      <3>1. EndedOK(stepRows, decided, tasks)
        BY <1>1, <1>3, <1>11, <2>1, <2>2 DEF EndedNow
      <3>2. PICK o \in DOMAIN tasks \ {p} :
              tasks[o] = "timeout" /\ StepOf(o).onTimeout = "abort" /\ GatesIn(p, DOMAIN stepRows)
        BY <1>8, <1>11, <3>1 DEF EndedOK
      <3>3. o # q /\ T2[o] = "timeout" /\ o \in DOMAIN T2 \ {p}
        BY <1>3, <3>2
      <3>. QED  BY <1>6, <3>2, <3>3
    <2>3. CASE run.status = "paused"
      <3>1. Aborts(q, verdict) /\ verdict = "timeout"
        <4>1. PICK status : status = IF ~Aborts(q, verdict) THEN "queued"
                                     ELSE IF verdict = "timeout" THEN "failed" ELSE "canceled"
          OBVIOUS
        <4>2. run2 = [run EXCEPT !.status = status] /\ DOMAIN run = {"status", "state"}
          BY <1>3, <2>3, <4>1 DEF WalkInv
        <4>3. run2.status = status
          BY <4>2
        <4>. QED  BY <1>11, <4>1, <4>3
      <3>2. StepOf(q).onTimeout = "abort" /\ T2[q] = "timeout" /\ q \in DOMAIN T2
        BY <1>3, <3>1 DEF Aborts
      <3>3. GatesIn(p, DOMAIN stepRows)
        <4>1. s = <<>> /\ Held(p, s, R2[p].status, DOMAIN stepRows)
          BY <1>1, <1>4, <1>8, <1>11
        <4>2. Len(s) = 0
          BY <4>1
        <4>. QED  BY <4>1, <4>2 DEF Held
      <3>. QED  BY <1>6, <1>8, <1>11, <3>2, <3>3
    <2>. QED  BY <2>2, <2>3
  <1>. QED  BY <1>9, <1>10, <1>11 DEF EndedOK

(* The end of an execution that is not parked. *)
LEMMA EndsClosed ==
  ASSUME WalkInv, PlaceInv, RowInv, LooseNow, WalkEnds, NEW run2, run2 = run',
         run2.status \in {"succeeded", "failed"}, StateNow.elapsed \in Nat, StateNow.elapsed <= Budget,
         NEW p, Loose(p, stepRows, decided)
  PROVE  FALSE
  <1>1. PICK s : s = walk.stack
    OBVIOUS
  <1>2. Len(s) = 1 /\ InWalk /\ walk.ret \in {"completed", "failed", "waiting", "paused"}
    BY <1>1 DEF WalkEnds, TopLevel, PlaceInv, Returns
  <1>3. walk.ret \in {"completed", "failed"}
    BY <1>2 DEF WalkEnds
  <1>4. p \in DOMAIN stepRows /\ Unpassed(p, s)
    BY <1>1 DEF Loose, LooseNow, LooseRows, LooseOK
  <1>5. p \in Paths /\ Len(p) \in Nat \ {0}
    BY <1>4, RowPath
  <1>6. PICK m : m = 1
    OBVIOUS
  <1>7. m = Len(s) /\ m \in 1 .. Len(s) /\ m \in 1 .. Len(p)
    BY <1>2, <1>5, <1>6
  <1>8. Len(s[m].prefix) = 0 /\ s[m].prefix = <<>>
    <2>1. Len(s[m].prefix) = m - 1 /\ s[m].prefix \in Paths
      BY <1>1, <1>7, StackAt DEF FramePlace, FrameOK
    <2>. QED  BY <1>6, <2>1, EmptySeq DEF Paths
  <1>9. Down(p, m) = <<>>
    <2>1. \A k \in 1 .. Len(p) : Len(Down(p, k)) = k - 1 /\ Down(p, k) \in Paths
      BY <1>5, DownNext
    <2>2. Len(Down(p, m)) = 0 /\ Down(p, m) \in Paths
      BY <1>6, <1>7, <2>1
    <2>. QED  BY <2>2, EmptySeq DEF Paths
  <1>10. CASE walk.ret = "completed"
    BY <1>1, <1>2, <1>4, <1>7, <1>8, <1>9, <1>10, NoneBelow
  <1>11. CASE walk.ret = "failed"
    <2>1. RetOK(walk.ret, s, stepRows, decided, StateNow.elapsed)
      BY <1>1, <1>2 DEF LooseNow
    <2>2. StateNow.elapsed > Budget \/ ~Below(p, s[m].prefix)
      BY <1>4, <1>7, <1>11, <2>1 DEF RetOK
    <2>3. Below(p, s[m].prefix)
      BY <1>5, <1>6, <1>8, <1>9 DEF Below
    <2>4. ~(StateNow.elapsed > Budget)
      <3>1. Budget \in Nat
        BY WalkAssumption
      <3>2. PICK e \in Nat : e = StateNow.elapsed
        OBVIOUS
      <3>. QED  BY <3>1, <3>2
    <2>. QED  BY <2>2, <2>3, <2>4
  <1>. QED  BY <1>3, <1>10, <1>11

LEMMA LooseKeeps ==
  ASSUME UNCHANGED manifest, NEW R, NEW D, NEW done, NEW it, NEW s, NEW ret, NEW e, NEW T
  PROVE  /\ LooseRows(R, D, done, it, s) => LooseRows(R, D, done, it, s)'
         /\ RetOK(ret, s, R, D, e) => RetOK(ret, s, R, D, e)'
         /\ EndedOK(R, D, T) => EndedOK(R, D, T)'
  <1>1. \A p : Loose(p, R, D)' => Loose(p, R, D)
    BY DEF Loose, LeftAt, StepAt, Down
  <1>2. \A p, status : Held(p, s, status, DOMAIN R) => Held(p, s, status, DOMAIN R)'
    BY DEF Held, GatesIn, Gate, Within, Owner, StepOf, Step
  <1>3. \A p : LooseOK(p, s, R, done, it) => LooseOK(p, s, R, done, it)'
    <2>1. \A p : Undone(p, done) => Undone(p, done)'
      BY DEF Undone, StepAt, Down
    <2>2. \A p : InRound(p, it) => InRound(p, it)'
      BY DEF InRound, StepAt, Down, Step, At
    <2>3. \A p : Unpassed(p, s) => Unpassed(p, s)'
      BY DEF Unpassed, Down
    <2>. QED  BY <1>2, <2>1, <2>2, <2>3 DEF LooseOK
  <1>4. LooseRows(R, D, done, it, s) => LooseRows(R, D, done, it, s)'
    BY <1>1, <1>3 DEF LooseRows
  <1>5. RetOK(ret, s, R, D, e) => RetOK(ret, s, R, D, e)'
    BY <1>1 DEF RetOK, Below, Down, Gate, StepOf, Step
  <1>6. EndedOK(R, D, T) => EndedOK(R, D, T)'
    BY <1>1 DEF EndedOK, GatesIn, Gate, Within, StepOf, Step
  <1>. QED  BY <1>4, <1>5, <1>6

(* The open rows after a step. *)
LooseThen(R, D, st, w, r, T) ==
  /\ LooseRows(R, D, st.done, st.iteration, w.stack)
  /\ w.stack # <<>> => RetOK(w.ret, w.stack, R, D, st.elapsed)
  /\ w.stack = <<>> /\ r.status \in {"succeeded", "failed"} /\ st.elapsed <= Budget => EndedOK(R, D, T)

LEMMA LooseRested ==
  ASSUME WalkInv, PlaceInv, RowInv, LooseNow, EndedNow, StateNow.elapsed \in Nat, Rests,
         NEW R, NEW D, NEW st, NEW w, NEW r, NEW T,
         R = stepRows', D = decided', st = StateNow', w = walk', r = run', T = tasks'
  PROVE  LooseThen(R, D, st, w, r, T)
  <1>1. /\ LooseRows(R, D, st.done, st.iteration, w.stack)
        /\ w.stack # <<>> => RetOK(w.ret, w.stack, R, D, st.elapsed)
    BY LooseRests
  <1>2. R = stepRows /\ D = decided /\ st = StateNow /\ T = tasks
    BY RestSame
  <1>3. ASSUME w.stack = <<>>, r.status \in {"succeeded", "failed"}, st.elapsed <= Budget
        PROVE  EndedOK(R, D, T)
    <2>1. CASE WalkEnds
      <3>1. ~ \E p : Loose(p, stepRows, decided)
        BY <1>2, <1>3, <2>1, EndsClosed
      <3>. QED  BY <1>2, <3>1 DEF EndedOK
    <2>2. CASE TimePasses \/ UNCHANGED walkVars
      <3>1. w = walk /\ r = run
        BY <2>2 DEF TimePasses, walkVars
      <3>. QED  BY <1>2, <1>3, <3>1 DEF EndedNow, InWalk
    <2>3. CASE Start
      <3>1. PICK g : w.stack = <<g>>
        BY <2>3 DEF Start, Walking
      <3>2. Len(w.stack) = 1
        BY <3>1
      <3>. QED  BY <1>3, <3>2
    <2>4. CASE ListEnds \/ RunTimesOut \/ GuardFails \/ Passes
      <3>1. w.stack # <<>>
        <4>1. PICK s, n : s = walk.stack /\ n = Len(s)
          OBVIOUS
        <4>2. DOMAIN walk = {"stack", "state", "ret"}
          BY DEF WalkInv, WalkOK
        <4>3. CASE ListEnds \/ RunTimesOut \/ GuardFails
          BY <4>2, <4>3 DEF ListEnds, RunTimesOut, GuardFails, AtStepOf, InWalk
        <4>4. CASE Passes
          <5>1. PICK g : w.stack = OnTop(s, g)
            BY <4>1, <4>2, <4>4 DEF Passes
          <5>2. PICK X : s \in Seq(X) /\ s # <<>>
            BY <4>1, <4>4, WalkStack DEF Passes, AtStepOf, InWalk
          <5>. QED  BY <5>1, <5>2, OnTopIs
        <4>. QED  BY <2>4, <4>3, <4>4
      <3>. QED  BY <1>3, <3>1
    <2>. QED  BY <2>1, <2>2, <2>3, <2>4 DEF Rests
  <1>. QED  BY <1>1, <1>3 DEF LooseThen

LEMMA LooseMoved ==
  ASSUME WalkInv, PlaceInv, RowInv, LooseNow, EndedNow, StateNow.elapsed \in Nat, Shape,
         ~StatementThrows, decided \subseteq decided',
         NEW R, NEW D, NEW st, NEW w, NEW r, NEW T,
         R = stepRows', D = decided', st = StateNow', w = walk', r = run', T = tasks'
  PROVE  LooseThen(R, D, st, w, r, T)
  <1>1. CASE Rests
    BY <1>1, LooseRested
  <1>2. CASE Decide
    BY <1>2, LooseDecides DEF LooseThen
  <1>3. CASE \E result, state, u, row : Stops(result, state, u, row) /\ Outcome(result)
    <2>1. PICK result, state, u, row : Stops(result, state, u, row) /\ Outcome(result)
      BY <1>3
    <2>2. w.stack # <<>>
      BY <2>1, StopsState DEF InWalk
    <2>. QED  BY <2>1, <2>2, LooseStops DEF LooseThen
  <1>4. CASE \E n, list, state : Enters(n, list, state)
    <2>1. PICK n, list, state : Enters(n, list, state)
      BY <1>4
    <2>2. PICK X : walk.stack \in Seq(X)
      BY WalkStack
    <2>3. PICK g : w.stack = Append(walk.stack, g)
      BY <2>1 DEF Enters, Walking
    <2>4. w.stack # <<>>
      BY <2>2, <2>3, AppendIs
    <2>. QED  BY <2>1, <2>4, LooseEnters DEF LooseThen
  <1>5. CASE \E result, state : Leaves(result, state)
    <2>1. PICK result, state : Leaves(result, state)
      BY <1>5
    <2>2. w.stack # <<>>
      BY <2>1, LeavesState DEF InWalk
    <2>. QED  BY <2>1, <2>2, LooseLeaves DEF LooseThen
  <1>6. CASE \E n, loop, state : Repeats(n, loop, state)
    <2>1. PICK n, loop, state : Repeats(n, loop, state)
      BY <1>6
    <2>2. PICK X : walk.stack \in Seq(X) /\ walk.stack # <<>>
      BY <2>1, WalkStack DEF Repeats, Returning, InWalk
    <2>3. PICK g : w.stack = OnTop(walk.stack, g)
      BY <2>1 DEF Repeats, Walking
    <2>4. w.stack # <<>>
      BY <2>2, <2>3, OnTopIs
    <2>. QED  BY <2>1, <2>4, LooseRepeats DEF LooseThen
  <1>. QED  BY <1>1, <1>2, <1>3, <1>4, <1>5, <1>6 DEF Shape, Rests

LEMMA LooseStep ==
  ASSUME WalkInv, PlaceInv, RowInv, TimeInv, LooseInv, [WalkNext]_walkVars
  PROVE  LooseInv'
  <1>1. UNCHANGED manifest /\ Shape
    BY ManifestKeeps, StepShapes DEF PlaceInv
  <1>2. decided \subseteq decided' /\ clock.throws <= clock'.throws /\ ClockTyped' /\ ClockTyped
    BY <1>1, DecidedStep, ClockStep DEF PlaceInv
  <1>3. SUFFICES ASSUME clock'.throws = 0 PROVE LooseInv'
    BY DEF LooseInv
  <1>4. clock.throws = 0
    BY <1>2, <1>3 DEF ClockTyped
  <1>5. ~StatementThrows
    <2>1. SUFFICES ASSUME StatementThrows PROVE FALSE
      OBVIOUS
    <2>2. clock'.throws = clock.throws + 1
      BY <1>2, <2>1 DEF StatementThrows, ClockTyped
    <2>. QED  BY <1>3, <1>4, <2>2
  <1>6. LooseNow /\ EndedNow /\ StateNow.elapsed \in Nat
    BY <1>4 DEF LooseInv, LooseNow, EndedNow, TimeInv, TimeOK
  <1>7. PICK R, D, st, w, r, T : /\ R = stepRows' /\ D = decided' /\ st = StateNow'
                                 /\ w = walk' /\ r = run' /\ T = tasks'
    OBVIOUS
  <1>8. LooseThen(R, D, st, w, r, T)
    BY <1>1, <1>2, <1>5, <1>6, <1>7, LooseMoved
  <1>9. PICK done, it, s, ret, e : /\ done = st.done /\ it = st.iteration /\ s = w.stack
                                   /\ ret = w.ret /\ e = st.elapsed
    OBVIOUS
  <1>10. /\ LooseRows(R, D, done, it, s)'
         /\ s # <<>> => RetOK(ret, s, R, D, e)'
         /\ s = <<>> /\ r.status \in {"succeeded", "failed"} /\ e <= Budget => EndedOK(R, D, T)'
    BY <1>1, <1>8, <1>9, LooseKeeps DEF LooseThen
  <1>. QED  BY <1>7, <1>9, <1>10 DEF LooseInv, InWalk

LEMMA LooseStarts == WalkInit => LooseInv
  BY DEF WalkInit, LooseInv, LooseRows, NoWalk, Walking, InWalk, EmptyMap

LEMMA LooseHolds == WalkSpec => [](WalkInv /\ PlaceInv /\ RowInv /\ TimeInv /\ LooseInv)
  BY PlaceHolds, RowHolds, TimeHolds, LooseStarts, LooseStep, PTL DEF WalkSpec

(* What the properties say of a run that ended. *)
LEMMA LooseSays ==
  ASSUME WalkInv, PlaceInv, RowInv, LooseInv
  PROVE  RowsClosed
  <1>1. SUFFICES ASSUME run.status \in {"succeeded", "failed"}, clock.throws = 0,
                        run.state.elapsed <= Budget,
                        NEW p \in DOMAIN stepRows, stepRows[p].status \in OpenRow, ~LeftBehind(p)
                 PROVE  \E q \in DOMAIN tasks \ {p} : TimedOut(q) /\ AroundGate(p)
    BY DEF RowsClosed
  <1>2. ~InWalk
    BY <1>1 DEF RowInv
  <1>3. EndedOK(stepRows, decided, tasks)
    BY <1>1, <1>2 DEF LooseInv, StateNow
  <1>4. p \in Paths /\ Len(p) \in Nat /\ RowOK(p, DOMAIN stepRows, settled, decided)
    BY <1>1, RowPath
  <1>5. ASSUME NEW k \in 1 .. Len(p), k # Len(p), LeftAt(p, k, stepRows, decided) PROVE FALSE
    <2>1. PICK c : c = StepAt(p, k)
      OBVIOUS
    <2>2. /\ Last(c) = <<p[k][1], 0>> /\ Front(c) = Down(p, k) /\ Len(c) = k
      <3>1. \A h \in 1 .. Len(p) : /\ Last(StepAt(p, h)) = <<p[h][1], 0>>
                                   /\ Front(StepAt(p, h)) = Down(p, h) /\ Len(StepAt(p, h)) = h
        BY <1>4, DownNext
      <3>. QED  BY <1>5, <2>1, <3>1
    <2>3. c \in DOMAIN stepRows
      BY <1>4, <1>5, <2>1 DEF RowOK
    <2>4. Within(c, p)
      <3>1. Last(c)[1] = p[k][1] /\ Len(c) < Len(p)
        BY <1>4, <1>5, <2>2
      <3>2. SubSeq(p, 1, Len(c) - 1) = Front(c)
        BY <2>2 DEF Down
      <3>. QED  BY <2>2, <3>1, <3>2 DEF Within
    <2>5. BothWays(c) \/ stepRows[c].status = "skipped"
      BY <1>5, <2>1 DEF LeftAt, BothWays
    <2>. QED  BY <1>1, <2>3, <2>4, <2>5 DEF LeftBehind
  <1>6. Loose(p, stepRows, decided)
    BY <1>1, <1>5 DEF Loose
  <1>. QED  BY <1>1, <1>3, <1>6 DEF EndedOK, TimedOut, GatesIn, AroundGate

(* A run that succeeded or failed has no open row of a step, but those it      *)
(* turned away from, or its budget or the timeout of a task cut off; and it is *)
(* charged for the time its steps took.                                       *)
THEOREM EndsStayRecorded == WalkSpec => []EndsAreRecorded
  <1>1. WalkInv /\ PlaceInv /\ RowInv /\ LooseInv => RowsClosed
    BY LooseSays
  <1>2. RowsClosed /\ ElapsedCoversWork => EndsAreRecorded
    BY DEF EndsAreRecorded
  <1>. QED  BY <1>1, <1>2, LooseHolds, TimeIsCharged, PTL

=============================================================================
