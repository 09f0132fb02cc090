----------------------------- MODULE HoursProofs -----------------------------
(*****************************************************************************)
(* Proofs about volunteer hours, for any number of volunteers, entries,      *)
(* submissions, adjustments, rules and concurrent requests: impact is earned *)
(* once per approved entry that no two decided at once, an adjustment that   *)
(* no other overlaps never makes a total negative, and a call that nobody    *)
(* else's writes overlapped leaves the caches exact.                         *)
(*                                                                           *)
(* The sums come first: a sum over a finite set is what FoldFunctionOnSet    *)
(* picks out one element at a time, and that it leaves nothing out is shown  *)
(* on a smallest set for which it would (Smallest), which a finite set has.  *)
(* Shape says that a call's locals are values its next statement can use.    *)
(*                                                                           *)
(* Deciding: whoever is about to decide on an entry read it undecided, and   *)
(* it still is, unless two were about to (contested). Balanced: the approved *)
(* hours that a running adjustment counted are still there, or more, unless  *)
(* two were running (crossed). Quietly: a call that no other's write         *)
(* overlapped knows, label by label, what the rows say (Known).              *)
(*****************************************************************************)
EXTENDS VolunteerHours, FiniteSetTheorems, TLAPS

-----------------------------------------------------------------------------
(* Sums *)

Picked(s) == CHOOSE x \in s : TRUE

\* g sums f over the subsets of S, taking elements as SumFunctionOnSet does.
Sums(g, f, S) ==
    g = [s \in SUBSET S |-> IF s = {} THEN 0 ELSE f[Picked(s)] + g[s \ {Picked(s)}]]

LEMMA SumIs ==
    ASSUME NEW f, NEW S
    PROVE  SumFunctionOnSet(f, S) = (CHOOSE g : Sums(g, f, S))[S]
  BY DEF SumFunctionOnSet, FoldFunctionOnSet, MapThenFoldSet, Sums, Picked

\* A collection of subsets of a finite set has one that contains no other.
LEMMA Smallest ==
    ASSUME NEW S, IsFiniteSet(S), NEW Some \in SUBSET (SUBSET S), Some # {}
    PROVE  \E X \in Some : \A Y \in Some : Y \subseteq X => Y = X
<1>1. IsWellFoundedOn(StrictSubsetOrdering(S), SUBSET S)
  BY FS_StrictSubsetOrderingWellFounded, FS_FiniteSubsetsOfFinite
<1>2. PICK X \in Some : \A Y \in Some : <<Y, X>> \notin StrictSubsetOrdering(S)
  BY <1>1, WFMin
<1>3. QED BY <1>2 DEF StrictSubsetOrdering

LEMMA PickedIn == ASSUME NEW s, s # {} PROVE Picked(s) \in s
  BY DEF Picked

LEMMA SumsAt ==
    ASSUME NEW f, NEW S, NEW g, Sums(g, f, S), NEW s \in SUBSET S
    PROVE  g[s] = IF s = {} THEN 0 ELSE f[Picked(s)] + g[s \ {Picked(s)}]
  BY Zenon DEF Sums

LEMMA SumsTop ==
    ASSUME NEW f, NEW S, NEW g, Sums(g, f, S)
    PROVE  g[S] = IF S = {} THEN 0 ELSE f[Picked(S)] + g[S \ {Picked(S)}]
<1>1. S \in SUBSET S
  OBVIOUS
<1>2. QED BY <1>1, Zenon DEF Sums

LEMMA SumsAgree ==
    ASSUME NEW f, NEW S, NEW T, NEW g, NEW h, Sums(g, f, S), Sums(h, f, T),
           NEW U, U \subseteq S, U \subseteq T, IsFiniteSet(U)
    PROVE  g[U] = h[U]
<1> DEFINE Apart == {X \in SUBSET U : g[X] # h[X]}
<1>1. SUFFICES ASSUME Apart # {} PROVE FALSE
  OBVIOUS
<1>2. PICK X \in Apart : \A Y \in Apart : Y \subseteq X => Y = X
  <2>1. Apart \in SUBSET (SUBSET U)
    OBVIOUS
  <2> HIDE DEF Apart
  <2>2. QED BY <1>1, <2>1, Smallest
<1>3. X \in SUBSET S /\ X \in SUBSET T
  BY <1>2
<1>4. CASE X = {}
  BY <1>2, <1>3, <1>4, SumsAt
<1>5. CASE X # {}
  <2> DEFINE Y == X \ {Picked(X)}
  <2>1. Picked(X) \in X
    BY <1>5, PickedIn
  <2>2. g[Y] = h[Y]
    BY <1>2, <2>1
  <2>3. g[X] = f[Picked(X)] + g[Y] /\ h[X] = f[Picked(X)] + h[Y]
    BY <1>3, <1>5, SumsAt
  <2>4. QED BY <1>2, <2>2, <2>3
<1>6. QED BY <1>4, <1>5

LEMMA SumsExist ==
    ASSUME NEW S, IsFiniteSet(S), NEW f \in [S -> Nat]
    PROVE  \E g \in [SUBSET S -> Nat] : Sums(g, f, S)
<1> DEFINE Has(X) == \E g \in [SUBSET X -> Nat] : Sums(g, f, X)
           Without == {X \in SUBSET S : ~Has(X)}
           The(X) == CHOOSE g : g \in [SUBSET X -> Nat] /\ Sums(g, f, X)
           V(X) == The(X)[X]
<1>1. SUFFICES ASSUME Without # {} PROVE FALSE
  OBVIOUS
<1>2. PICK X \in Without : \A Y \in Without : Y \subseteq X => Y = X
  <2>1. Without \in SUBSET (SUBSET S)
    OBVIOUS
  <2> HIDE DEF Without
  <2>2. QED BY <1>1, <2>1, Smallest
<1>3. ASSUME NEW Y \in SUBSET X, Y # X
      PROVE  The(Y) \in [SUBSET Y -> Nat] /\ Sums(The(Y), f, Y) /\ V(Y) \in Nat
  <2>1. Has(Y)
    BY <1>2, <1>3
  <2>2. The(Y) \in [SUBSET Y -> Nat] /\ Sums(The(Y), f, Y)
    BY <2>1
  <2>3. Y \in SUBSET Y
    OBVIOUS
  <2> HIDE DEF The
  <2>4. QED BY <2>2, <2>3
<1> HIDE DEF The
<1>4. ASSUME NEW Y \in SUBSET X, Y # X
      PROVE  V(Y) = IF Y = {} THEN 0 ELSE f[Picked(Y)] + V(Y \ {Picked(Y)})
  <2> DEFINE Z == Y \ {Picked(Y)}
  <2>1. Sums(The(Y), f, Y) /\ Y \in SUBSET Y
    BY <1>3, <1>4
  <2>2. V(Y) = IF Y = {} THEN 0 ELSE f[Picked(Y)] + The(Y)[Z]
    <3> DEFINE g == The(Y)
    <3>1. Sums(g, f, Y)
      BY <2>1
    <3> HIDE DEF g
    <3>2. g[Y] = IF Y = {} THEN 0 ELSE f[Picked(Y)] + g[Y \ {Picked(Y)}]
      BY <3>1, SumsTop
    <3>3. QED BY <3>2 DEF g
  <2>3. CASE Y # {}
    <3>1. Picked(Y) \in Y
      BY <2>3, PickedIn
    <3>2. Z \in SUBSET X /\ Z # X /\ Z \subseteq Y /\ IsFiniteSet(Z)
      <4>1. Z \in SUBSET S
        BY <1>2
      <4>2. QED BY <1>4, <3>1, <4>1, FS_Subset
    <3>3. Sums(The(Z), f, Z)
      BY <1>3, <3>2
    <3> HIDE DEF Z
    <3>4. The(Y)[Z] = The(Z)[Z]
      BY <2>1, <3>2, <3>3, SumsAgree
    <3>5. QED BY <2>2, <2>3, <3>4 DEF Z
  <2>4. QED BY <2>2, <2>3
<1> HIDE DEF V
<1> DEFINE h == [s \in SUBSET X |-> IF s = {} THEN 0 ELSE f[Picked(s)] + V(s \ {Picked(s)})]
<1>5. ASSUME NEW s \in SUBSET X, s # {}
      PROVE  /\ Picked(s) \in S /\ s \ {Picked(s)} \in SUBSET X /\ s \ {Picked(s)} # X
             /\ h[s \ {Picked(s)}] = V(s \ {Picked(s)})
  <2>1. Picked(s) \in s
    BY <1>5, PickedIn
  <2>2. s \ {Picked(s)} \in SUBSET X /\ s \ {Picked(s)} # X /\ Picked(s) \in S
    BY <1>2, <1>5, <2>1
  <2> DEFINE t == s \ {Picked(s)}
  <2>3. h[t] = IF t = {} THEN 0 ELSE f[Picked(t)] + V(t \ {Picked(t)})
    BY <2>2
  <2>4. QED BY <1>4, <2>2, <2>3
<1>6. h \in [SUBSET X -> Nat]
  <2>1. ASSUME NEW s \in SUBSET X, s # {} PROVE f[Picked(s)] + V(s \ {Picked(s)}) \in Nat
    <3>1. Picked(s) \in S /\ s \ {Picked(s)} \in SUBSET X /\ s \ {Picked(s)} # X
      BY <1>5, <2>1
    <3>2. V(s \ {Picked(s)}) \in Nat
      BY <1>3, <3>1
    <3>3. QED BY <3>1, <3>2
  <2>2. QED BY <2>1
<1>7. Sums(h, f, X)
  <2>1. \A s \in SUBSET X : h[s] = IF s = {} THEN 0 ELSE f[Picked(s)] + h[s \ {Picked(s)}]
    BY <1>5
  <2>2. h = [s \in SUBSET X |-> h[s]]
    OBVIOUS
  <2> HIDE DEF h
  <2>3. [s \in SUBSET X |-> h[s]] = [s \in SUBSET X |-> IF s = {} THEN 0 ELSE f[Picked(s)] + h[s \ {Picked(s)}]]
    BY <2>1
  <2>4. QED BY <2>2, <2>3 DEF Sums
<1>8. QED BY <1>2, <1>6, <1>7

\* The function of SumFunctionOnSet, for all subsets of S.
LEMMA SumsOf ==
    ASSUME NEW S, IsFiniteSet(S), NEW f \in [S -> Nat]
    PROVE  \E g \in [SUBSET S -> Nat] :
              Sums(g, f, S) /\ \A X \in SUBSET S : SumFunctionOnSet(f, X) = g[X]
<1>1. PICK g \in [SUBSET S -> Nat] : Sums(g, f, S)
  BY SumsExist
<1>2. ASSUME NEW X \in SUBSET S PROVE SumFunctionOnSet(f, X) = g[X]
  <2> DEFINE h == CHOOSE h : Sums(h, f, X)
             e == [x \in X |-> f[x]]
             k == [s \in SUBSET X |-> g[s]]
  <2>1. IsFiniteSet(X)
    BY FS_Subset
  <2>2. Sums(k, f, X)
    <3>1. ASSUME NEW s \in SUBSET X
          PROVE  k[s] = IF s = {} THEN 0 ELSE f[Picked(s)] + k[s \ {Picked(s)}]
      <4>1. s \in SUBSET S /\ k[s] = g[s] /\ k[s \ {Picked(s)}] = g[s \ {Picked(s)}]
        OBVIOUS
      <4>2. QED BY <1>1, <4>1, SumsAt
    <3>2. k = [s \in SUBSET X |-> k[s]]
      OBVIOUS
    <3> HIDE DEF k
    <3>3. [s \in SUBSET X |-> k[s]] = [s \in SUBSET X |-> IF s = {} THEN 0 ELSE f[Picked(s)] + k[s \ {Picked(s)}]]
      BY <3>1
    <3>4. QED BY <3>2, <3>3 DEF Sums
  <2>3. Sums(h, f, X)
    <3> HIDE DEF k
    <3>1. QED BY <2>2
  <2> HIDE DEF h
  <2>4. h[X] = g[X]
    BY <1>1, <2>1, <2>3, SumsAgree
  <2>5. QED BY <2>4, SumIs DEF h
<1>3. QED BY <1>1, <1>2

LEMMA SumType ==
    ASSUME NEW S, IsFiniteSet(S), NEW f \in [S -> Nat], NEW X \in SUBSET S
    PROVE  SumFunctionOnSet(f, X) \in Nat
<1>1. PICK g \in [SUBSET S -> Nat] :
         Sums(g, f, S) /\ \A Y \in SUBSET S : SumFunctionOnSet(f, Y) = g[Y]
  BY SumsOf
<1>2. SumFunctionOnSet(f, X) = g[X] /\ g[X] \in Nat
  BY <1>1
<1>3. QED BY <1>2

\* A sum is that of all but any one of its terms, and that one.
LEMMA SumWithout ==
    ASSUME NEW S, IsFiniteSet(S), NEW f \in [S -> Nat], NEW X \in SUBSET S, NEW x \in X
    PROVE  SumFunctionOnSet(f, X) = f[x] + SumFunctionOnSet(f, X \ {x})
<1>1. PICK g \in [SUBSET S -> Nat] :
         Sums(g, f, S) /\ \A Y \in SUBSET S : SumFunctionOnSet(f, Y) = g[Y]
  BY SumsOf
<1> DEFINE Odd == {Y \in SUBSET S : \E y \in Y : g[Y] # f[y] + g[Y \ {y}]}
<1>2. SUFFICES ASSUME Odd # {} PROVE FALSE
  <2>1. Odd = {} => g[X] = f[x] + g[X \ {x}]
    OBVIOUS
  <2>2. X \ {x} \in SUBSET S
    OBVIOUS
  <2>3. QED BY <1>1, <2>1, <2>2
<1>3. PICK Y \in Odd : \A Z \in Odd : Z \subseteq Y => Z = Y
  <2>1. Odd \in SUBSET (SUBSET S)
    OBVIOUS
  <2> HIDE DEF Odd
  <2>2. QED BY <1>2, <2>1, Smallest
<1>4. PICK y \in Y : g[Y] # f[y] + g[Y \ {y}]
  BY <1>3
<1> DEFINE d == Picked(Y)
<1>5. d \in Y /\ Y # {} /\ Y \in SUBSET S
  BY <1>3, <1>4, PickedIn
<1>6. g[Y] = f[d] + g[Y \ {d}]
  BY <1>1, <1>5, SumsAt
<1> HIDE DEF d
<1>7. y # d
  BY <1>4, <1>6
<1>8. Y \ {d} \notin Odd /\ Y \ {y} \notin Odd
  BY <1>3, <1>4, <1>5
<1>9. g[Y \ {d}] = f[y] + g[(Y \ {d}) \ {y}]
  <2>1. Y \ {d} \in SUBSET S /\ y \in Y \ {d}
    BY <1>4, <1>5, <1>7
  <2>2. QED BY <1>8, <2>1
<1>10. g[Y \ {y}] = f[d] + g[(Y \ {y}) \ {d}]
  <2>1. Y \ {y} \in SUBSET S /\ d \in Y \ {y}
    BY <1>4, <1>5, <1>7
  <2>2. QED BY <1>8, <2>1
<1>11. (Y \ {d}) \ {y} = (Y \ {y}) \ {d}
  OBVIOUS
<1> DEFINE rest == g[(Y \ {y}) \ {d}]
<1>12. rest \in Nat /\ f[y] \in Nat /\ f[d] \in Nat
  BY <1>4, <1>5
<1> HIDE DEF rest
<1>13. g[Y] = f[d] + (f[y] + rest) /\ g[Y \ {y}] = f[d] + rest
  BY <1>6, <1>9, <1>10, <1>11 DEF rest
<1>14. QED BY <1>4, <1>12, <1>13

LEMMA SumNothing ==
    ASSUME NEW S, IsFiniteSet(S), NEW f \in [S -> Nat], NEW X \in SUBSET S, X = {}
    PROVE  SumFunctionOnSet(f, X) = 0
<1>1. PICK g \in [SUBSET S -> Nat] :
         Sums(g, f, S) /\ \A Y \in SUBSET S : SumFunctionOnSet(f, Y) = g[Y]
  BY SumsOf
<1>2. g[X] = 0
  BY <1>1, SumsAt
<1>3. QED BY <1>1, <1>2

-----------------------------------------------------------------------------
(* Levels and totals *)

LEMMA MaxIs ==
    ASSUME NEW S \in SUBSET Levels, S # {}
    PROVE  Max(S) \in S /\ \A y \in S : Max(S) >= y
<1> DEFINE Above(x) == {y \in S : y > x}
           Some == {Above(x) : x \in S}
<1>1. IsFiniteSet(Levels)
  BY LevelsType, FS_Interval DEF Levels
<1>2. PICK X \in Some : \A Y \in Some : Y \subseteq X => Y = X
  <2>1. Some \in SUBSET (SUBSET Levels) /\ Some # {}
    OBVIOUS
  <2> HIDE DEF Some
  <2>2. QED BY <1>1, <2>1, Smallest
<1>3. PICK x \in S : X = Above(x)
  BY <1>2
<1>4. \A y \in S : x >= y
  <2> SUFFICES ASSUME NEW y \in S, ~(x >= y) PROVE FALSE
    OBVIOUS
  <2>1. x \in Int /\ y \in Int /\ y > x /\ \A z \in S : z \in Int
    BY DEF Levels
  <2>2. Above(y) \subseteq Above(x) /\ y \in Above(x) /\ y \notin Above(y)
    <3>1. \A z \in S : z > y => z > x
      BY <2>1
    <3>2. ~(y > y)
      BY <2>1
    <3>3. QED BY <2>1, <3>1, <3>2
  <2>3. Above(y) \in Some
    OBVIOUS
  <2> HIDE DEF Above, Some
  <2>4. QED BY <1>2, <1>3, <2>2, <2>3
<1>5. \E z \in S : \A y \in S : z >= y
  BY <1>4
<1> HIDE DEF Above, Some
<1>6. QED BY <1>5, Zenon DEF Max

\* A better present level is a better best one.
LEMMA BestIs ==
    ASSUME NEW total \in Int, NEW score \in Int, NEW present \in Levels
    PROVE  /\ Best(total, score, present) \in Levels
           /\ Best(total, score, present) >= present
           /\ Best(total, score, present) >= Best(total, score, 0)
<1> DEFINE Reached == {rule.level : rule \in {x \in Rules : Met(x, total, score)}}
<1>1. Reached \in SUBSET Levels
  BY RulesType DEF Rule
<1>2. 0 \in Levels /\ \A x \in Levels : x \in Nat
  BY LevelsType DEF Levels
<1>3. Best(total, score, present) = Max({present} \cup Reached) /\ Best(total, score, 0) = Max({0} \cup Reached)
  BY DEF Best
<1> HIDE DEF Reached
<1>4. /\ Max({present} \cup Reached) \in {present} \cup Reached
      /\ \A y \in {present} \cup Reached : Max({present} \cup Reached) >= y
  <2>1. {present} \cup Reached \in SUBSET Levels /\ {present} \cup Reached # {}
    BY <1>1
  <2>2. QED BY <2>1, MaxIs
<1>5. Max({0} \cup Reached) \in {0} \cup Reached
  <2>1. {0} \cup Reached \in SUBSET Levels /\ {0} \cup Reached # {}
    BY <1>1, <1>2
  <2>2. QED BY <2>1, MaxIs
<1>6. QED
  <2>1. Max({present} \cup Reached) \in Levels /\ Max({present} \cup Reached) >= present
    BY <1>1, <1>4
  <2>2. CASE Max({0} \cup Reached) = 0
    BY <1>2, <1>3, <2>1, <2>2
  <2>3. CASE Max({0} \cup Reached) \in Reached
    BY <1>3, <1>4, <2>1, <2>3
  <2>4. QED BY <1>5, <2>2, <2>3

Statuses == {"none", "pending", "approved", "rejected"}

TablesOK ==
    /\ entry \in [Entries -> Statuses]
    /\ adjusted \in Int /\ adjustments \in Nat
    /\ impact \in [Entries -> Nat]
    /\ profile \in BOOLEAN /\ level \in Levels
    /\ approvedCache \in Int /\ pendingCache \in Int /\ scoreCache \in Int

LEMMA SumsTyped ==
    ASSUME TablesOK
    PROVE  /\ \A status : HoursOf(status) \in Nat
           /\ Total \in Int
           /\ Score \in Nat
<1>1. Hours \in [Entries -> Nat]
  BY HoursType
<1>2. ASSUME NEW status PROVE HoursOf(status) \in Nat
  <2> DEFINE X == {e \in Entries : entry[e] = status}
  <2>1. X \in SUBSET Entries
    OBVIOUS
  <2>2. HoursOf(status) = SumFunctionOnSet(Hours, X)
    BY DEF HoursOf
  <2> HIDE DEF X
  <2>3. QED BY <1>1, <2>1, <2>2, SumType, EntriesFinite
<1>3. Score \in Nat
  <2> DEFINE f == [e \in Entries |-> Hours[e] * impact[e]]
  <2>1. ASSUME NEW e \in Entries PROVE Hours[e] * impact[e] \in Nat
    <3>1. Hours[e] \in Nat /\ impact[e] \in Nat
      BY <1>1 DEF TablesOK
    <3>2. \A m, n \in Nat : m * n \in Nat
      OBVIOUS
    <3>3. QED BY <3>1, <3>2
  <2>2. f \in [Entries -> Nat] /\ Entries \in SUBSET Entries
    BY <2>1
  <2>3. Score = SumFunctionOnSet(f, Entries)
    BY DEF Score
  <2> HIDE DEF f
  <2>4. QED BY <2>2, <2>3, SumType, EntriesFinite
<1>4. Total \in Int
  <2>1. HoursOf("approved") \in Int /\ adjusted \in Int
    BY <1>2 DEF TablesOK
  <2>2. QED BY <2>1 DEF Total
<1>5. QED BY <1>2, <1>3, <1>4

-----------------------------------------------------------------------------
(* The shape of tables and calls *)

Labels ==
    {"idle", "insertProfile", "decide", "insertImpact", "readEvents", "writeScore",
     "readProfile", "rereadLevel", "writeLevel", "readCache", "sumEntries",
     "sumAdjustments", "insertAdjustment", "sumPending", "writeCaches", "done"}

Calls     == {"none", "activate", "submit", "get", "review", "adjust", "assign"}
Decisions == {"none", "approved", "rejected"}
Uses      == {"refresh", "answer", "check", "progress", "repair"}

Args ==
    [call : Calls, entry : Entries \cup {None}, to : Decisions, delta : Int, use : Uses,
     total : Int, pending : Int, score : Int, level : Levels, best : Levels,
     cache : Int, answer : Int]

Summing == {"sumEntries", "sumAdjustments", "sumPending", "writeCaches"}

\* Which calls come to a label, and what a total is for.
LocalsOK(r, l, a) ==
    /\ a.to # "none" => a.call = "review"
    /\ l = "insertProfile" => a.call = "activate"
    /\ l \in {"decide", "insertImpact"} => a.call = "review" /\ a.entry \in Entries
    /\ l = "decide" => a.to # "none"
    /\ l \in {"insertImpact", "readProfile", "rereadLevel", "readCache"} => a.to = "approved"
    /\ l \in {"readEvents", "writeScore"} => a.call = "adjust" \/ a.to = "approved"
    /\ l = "writeLevel" => a.call = "assign" \/ a.to = "approved"
    /\ l = "insertAdjustment" => a.call = "adjust" /\ a.use = "check"
    /\ l \in Summing =>
          \/ a.use = "check" /\ a.call = "adjust"
          \/ a.use = "progress" /\ a.to = "approved"
          \/ a.use \in {"answer", "repair"} /\ (a.call = "get" \/ a.to = "approved")
          \/ a.use = "refresh" /\ a.call \in {"submit", "review", "adjust"}
    /\ l \in {"sumPending", "writeCaches"} => a.use \in {"refresh", "repair"}

\* p and a are where the calls are and their locals.
CallsOK(p, a) ==
    /\ p \in [Requests -> Labels]
    /\ a \in [Requests -> Args]
    /\ \A r \in Requests : LocalsOK(r, p[r], a[r])

Shape ==
    /\ TablesOK
    /\ CallsOK(pc, arg)
    /\ quiet \in SUBSET Requests /\ crossed \in BOOLEAN

\* The call r goes on with well-formed locals.
Goes(r) == \E l \in Labels, a \in Args : LocalsOK(r, l, a) /\ GoTo(r, l, a)

LEMMA GoesOK ==
    ASSUME CallsOK(pc, arg), NEW r \in Requests, Goes(r)
    PROVE  CallsOK(pc', arg')
<1>1. PICK l \in Labels, a \in Args : LocalsOK(r, l, a) /\ GoTo(r, l, a)
  BY DEF Goes
<1>2. \A q \in Requests : IF q = r THEN pc'[q] = l /\ arg'[q] = a ELSE pc'[q] = pc[q] /\ arg'[q] = arg[q]
  BY <1>1 DEF GoTo, CallsOK
<1>3. pc' \in [Requests -> Labels] /\ arg' \in [Requests -> Args]
  BY <1>1 DEF GoTo, CallsOK
<1>4. QED
  <2>1. ASSUME NEW q \in Requests PROVE LocalsOK(q, pc'[q], arg'[q])
    BY <1>1, <1>2, <2>1 DEF CallsOK
  <2>2. QED BY <1>3, <2>1 DEF CallsOK

LEMMA NoArgIsArg == NoArg \in Args /\ \A r : LocalsOK(r, "idle", NoArg)
<1>1. 0 \in Levels
  BY LevelsType DEF Levels
<1>2. QED BY <1>1 DEF NoArg, Args, Calls, Decisions, Uses, LocalsOK, Summing

LEMMA ReturnGoes == ASSUME NEW r \in Requests, Return(r) PROVE Goes(r)
  BY NoArgIsArg DEF Return, Goes, Labels

\* One local set, the call and its decision left alone.
Like(a, b) == a.call = b.call /\ a.to = b.to /\ a.use = b.use /\ a.answer = b.answer

LEMMA ForgetIsArg ==
    ASSUME NEW a \in Args
    PROVE  Forget(a) \in Args /\ Like(Forget(a), a)
<1> DEFINE b == [a EXCEPT !.entry = None]
           c == [b EXCEPT !.delta = 0]
           d == [c EXCEPT !.total = 0]
           e == [d EXCEPT !.pending = 0]
           f == [e EXCEPT !.score = 0]
           g == [f EXCEPT !.level = 0]
           h == [g EXCEPT !.best = 0]
           i == [h EXCEPT !.cache = 0]
<1>1. 0 \in Levels
  BY LevelsType DEF Levels
<1>2. Forget(a) = i
  BY DEF Forget
<1> HIDE DEF i
<1>3. b \in Args /\ Like(b, a)
  BY DEF Args, Like
<1> HIDE DEF b
<1>4. c \in Args /\ Like(c, b)
  BY <1>1, <1>3 DEF Args, Like
<1> HIDE DEF c
<1>5. d \in Args /\ Like(d, c)
  BY <1>1, <1>4 DEF Args, Like
<1> HIDE DEF d
<1>6. e \in Args /\ Like(e, d)
  BY <1>1, <1>5 DEF Args, Like
<1> HIDE DEF e
<1>7. f \in Args /\ Like(f, e)
  BY <1>1, <1>6 DEF Args, Like
<1> HIDE DEF f
<1>8. g \in Args /\ Like(g, f)
  BY <1>1, <1>7 DEF Args, Like
<1> HIDE DEF g
<1>9. h \in Args /\ Like(h, g)
  BY <1>1, <1>8 DEF Args, Like
<1> HIDE DEF h
<1>10. i \in Args /\ Like(i, h)
  BY <1>1, <1>9 DEF Args, Like, i
<1>11. QED BY <1>2, <1>3, <1>4, <1>5, <1>6, <1>7, <1>8, <1>9, <1>10 DEF Like

\* A call that begins, by what it goes to.
LEMMA CallGoes ==
    ASSUME Shape, NEW r \in Requests, Call(r)
    PROVE  Goes(r) /\ TablesOK'
<1>1. 0 \in Levels
  BY LevelsType DEF Levels
<1>2. CASE ActivateVolunteerProfile(r)
  <2> DEFINE a == [NoArg EXCEPT !.call = "activate"]
  <2>1. a \in Args /\ a.call = "activate" /\ a.to = "none"
    BY <1>1 DEF NoArg, Args, Calls, Decisions, Uses
  <2>2. GoTo(r, "insertProfile", a)
    BY <1>2 DEF ActivateVolunteerProfile
  <2> HIDE DEF a
  <2>3. LocalsOK(r, "insertProfile", a)
    BY <2>1 DEF LocalsOK, Summing
  <2>4. TablesOK'
    BY <1>2 DEF ActivateVolunteerProfile, Shape, TablesOK, ledger, caches, person
  <2>5. QED BY <2>1, <2>2, <2>3, <2>4 DEF Goes, Labels
<1>3. CASE GetApprovedHoursForUser(r)
  <2> DEFINE a == [NoArg EXCEPT !.call = "get", !.use = "answer", !.cache = approvedCache]
  <2>1. a \in Args
    BY NoArgIsArg DEF Args, Calls, Decisions, Uses, Shape, TablesOK
  <2>2. a.call = "get" /\ a.to = "none" /\ a.use = "answer"
    BY DEF NoArg
  <2>3. GoTo(r, "sumEntries", a)
    BY <1>3 DEF GetApprovedHoursForUser
  <2> HIDE DEF a
  <2>4. LocalsOK(r, "sumEntries", a)
    BY <2>2 DEF LocalsOK, Summing
  <2>5. TablesOK'
    BY <1>3 DEF GetApprovedHoursForUser, Shape, TablesOK, ledger, caches, person
  <2>6. QED BY <2>1, <2>3, <2>4, <2>5 DEF Goes, Labels
<1>4. CASE \E e \in Entries : SubmitVolunteerHours(r, e)
  <2> DEFINE a == [NoArg EXCEPT !.call = "submit"]
  <2>1. a \in Args /\ a.call = "submit" /\ a.to = "none" /\ a.use = "refresh"
    BY <1>1 DEF NoArg, Args, Calls, Decisions, Uses
  <2>2. PICK e \in Entries : SubmitVolunteerHours(r, e)
    BY <1>4
  <2>3. GoTo(r, "sumEntries", a)
    BY <2>2 DEF SubmitVolunteerHours
  <2> HIDE DEF a
  <2>4. LocalsOK(r, "sumEntries", a)
    BY <2>1 DEF LocalsOK, Summing
  <2>5. TablesOK'
    BY <2>2 DEF SubmitVolunteerHours, Shape, TablesOK, caches, person, Statuses
  <2>6. QED BY <2>1, <2>3, <2>4, <2>5 DEF Goes, Labels
<1>5. CASE r \in Reviewers /\ \E e \in Entries, decision \in {"approved", "rejected"} : ReviewVolunteerHours(r, e, decision)
  <2>1. PICK e \in Entries, decision \in {"approved", "rejected"} : ReviewVolunteerHours(r, e, decision)
    BY <1>5
  <2> DEFINE a == [NoArg EXCEPT !.call = "review", !.entry = e, !.to = decision]
  <2>2. a \in Args
    BY NoArgIsArg DEF Args, Calls, Decisions, Uses
  <2>3. a.call = "review" /\ a.to = decision /\ a.entry = e
    BY DEF NoArg
  <2>4. GoTo(r, "decide", a)
    BY <2>1 DEF ReviewVolunteerHours
  <2> HIDE DEF a
  <2>5. LocalsOK(r, "decide", a)
    BY <1>5, <2>3 DEF LocalsOK, Summing
  <2>6. TablesOK'
    BY <2>1 DEF ReviewVolunteerHours, Shape, TablesOK, ledger, caches, person
  <2>7. QED BY <2>2, <2>4, <2>5, <2>6 DEF Goes, Labels
<1>6. CASE r \in Administrators /\ \E e \in Entries, delta \in Deltas : AdjustVolunteerHours(r, e, delta)
  <2>1. PICK e \in Entries, delta \in Deltas : AdjustVolunteerHours(r, e, delta)
    BY <1>6
  <2> DEFINE a == [NoArg EXCEPT !.call = "adjust", !.use = "check", !.delta = delta]
  <2>2. a \in Args
    BY NoArgIsArg, DeltasType DEF Args, Calls, Decisions, Uses
  <2>3. a.call = "adjust" /\ a.to = "none" /\ a.use = "check"
    BY DEF NoArg
  <2>4. GoTo(r, "sumEntries", a)
    BY <2>1 DEF AdjustVolunteerHours
  <2> HIDE DEF a
  <2>5. LocalsOK(r, "sumEntries", a)
    BY <1>6, <2>3 DEF LocalsOK, Summing
  <2>6. TablesOK'
    BY <2>1 DEF AdjustVolunteerHours, Shape, TablesOK, ledger, caches, person
  <2>7. QED BY <2>2, <2>4, <2>5, <2>6 DEF Goes, Labels
<1>7. CASE \E to \in Levels : AssignProgressionLevel(r, to)
  <2>1. PICK to \in Levels : AssignProgressionLevel(r, to)
    BY <1>7
  <2> DEFINE a == [NoArg EXCEPT !.call = "assign", !.best = to]
  <2>2. a \in Args /\ a.call = "assign" /\ a.to = "none"
    <3>1. a \in Args
      BY NoArgIsArg DEF Args, Calls, Decisions, Uses
    <3>2. a.call = "assign" /\ a.to = "none"
      BY DEF NoArg
    <3>3. QED BY <3>1, <3>2
  <2>3. GoTo(r, "writeLevel", a)
    BY <2>1 DEF AssignProgressionLevel
  <2> HIDE DEF a
  <2>4. LocalsOK(r, "writeLevel", a)
    BY <2>2 DEF LocalsOK, Summing
  <2>5. TablesOK'
    BY <2>1 DEF AssignProgressionLevel, Shape, TablesOK, ledger, caches, person
  <2>6. QED BY <2>2, <2>3, <2>4, <2>5 DEF Goes, Labels
<1>8. QED
  BY <1>2, <1>3, <1>4, <1>5, <1>6, <1>7 DEF Call, VolunteerCalls, ReviewerCalls, AdministratorCalls

\* A call's locals, where it goes on.
LEMMA LocalsAre ==
    ASSUME Shape, NEW r \in Requests
    PROVE  arg[r] \in Args /\ LocalsOK(r, pc[r], arg[r])
  BY DEF Shape, CallsOK

LEMMA TablesStay ==
    ASSUME TablesOK, UNCHANGED <<ledger, caches, person>>
    PROVE  TablesOK'
  BY DEF TablesOK, ledger, caches, person

\* The total is begun anew.
LEMMA RecomputeGoes ==
    ASSUME NEW r \in Requests, NEW a \in Args, GoTo(r, "sumEntries", [Forget(a) EXCEPT !.use = "refresh"]),
           NEW l, LocalsOK(r, l, a), a.call \in {"submit", "review", "adjust"}
    PROVE  Goes(r)
<1> DEFINE b == Forget(a)
           c == [b EXCEPT !.use = "refresh"]
<1>1. b \in Args /\ Like(b, a)
  BY ForgetIsArg
<1> HIDE DEF b
<1>2. c \in Args /\ c.call = a.call /\ c.to = a.to /\ c.use = "refresh"
  BY <1>1 DEF Args, Like, Uses
<1>3. GoTo(r, "sumEntries", c)
  BY DEF b
<1> HIDE DEF c
<1>4. LocalsOK(r, "sumEntries", c)
  BY <1>2 DEF LocalsOK, Summing
<1>5. QED BY <1>2, <1>3, <1>4 DEF Goes, Labels

\* The locals forgotten, at a label that asks no more of them.
LEMMA ForgetGoes ==
    ASSUME NEW r \in Requests, NEW a \in Args, NEW l \in Labels,
           NEW k \in Labels \ (Summing \cup {"insertProfile", "decide", "insertImpact", "insertAdjustment"}),
           LocalsOK(r, l, a), GoTo(r, k, Forget(a)),
           k \in {"readProfile", "rereadLevel", "readCache"} => a.to = "approved",
           k \in {"readEvents", "writeScore"} => a.call = "adjust" \/ a.to = "approved",
           k = "writeLevel" => a.call = "assign" \/ a.to = "approved"
    PROVE  Goes(r)
<1>1. Forget(a) \in Args /\ Like(Forget(a), a)
  BY ForgetIsArg
<1>2. LocalsOK(r, k, Forget(a))
  BY <1>1 DEF LocalsOK, Like, Summing
<1>3. QED BY <1>1, <1>2 DEF Goes

\* What follows an answer.
LEMMA AnsweredGoes ==
    ASSUME NEW r \in Requests, NEW a \in Args, NEW l \in Labels, LocalsOK(r, l, a), Answered(r, a)
    PROVE  Goes(r)
<1>1. CASE a.call = "review"
  <2>1. GoTo(r, "sumEntries", [Forget(a) EXCEPT !.use = "refresh"])
    BY <1>1 DEF Answered
  <2>2. QED BY <1>1, <2>1, RecomputeGoes
<1>2. CASE a.call # "review"
  <2>1. GoTo(r, "done", Forget(a))
    BY <1>2 DEF Answered
  <2>2. "done" \in Labels \ (Summing \cup {"insertProfile", "decide", "insertImpact"})
    BY DEF Labels, Summing
  <2>3. QED BY <2>1, <2>2, ForgetGoes
<1>3. QED BY <1>1, <1>2

\* The statements of a review and of an adjustment.
LEMMA WritersGo ==
    ASSUME Shape, NEW r \in Requests,
           InsertProfile(r) \/ WriteDecision(r) \/ InsertImpact(r) \/ InsertAdjustment(r)
    PROVE  Goes(r) /\ TablesOK'
<1> DEFINE l == pc[r]
           a == arg[r]
<1>1. a \in Args /\ LocalsOK(r, l, a) /\ l \in Labels
  BY LocalsAre DEF Shape, CallsOK
<1>2. CASE InsertProfile(r)
  <2>1. TablesOK'
    BY <1>2 DEF InsertProfile, Shape, TablesOK, ledger, caches
  <2>2. CASE profile
    BY <1>2, <2>1, <2>2, ReturnGoes DEF InsertProfile
  <2>3. CASE ~profile
    <3>1. GoTo(r, "done", a) /\ l = "insertProfile"
      BY <1>2, <2>3 DEF InsertProfile
    <3> HIDE DEF l, a
    <3>2. LocalsOK(r, "done", a)
      BY <1>1 DEF LocalsOK, Summing
    <3>3. QED BY <1>1, <2>1, <3>1, <3>2 DEF Goes, Labels
  <2>4. QED BY <2>2, <2>3
<1>3. CASE WriteDecision(r)
  <2>1. l = "decide" /\ a.entry \in Entries /\ a.to \in {"approved", "rejected"} /\ a.call = "review"
    BY <1>1, <1>3 DEF WriteDecision, LocalsOK, Args, Decisions
  <2>2. TablesOK'
    BY <1>3, <2>1 DEF WriteDecision, Shape, TablesOK, caches, person, Statuses
  <2>3. CASE a.to = "approved"
    <3>1. GoTo(r, "insertImpact", a)
      BY <1>3, <2>3 DEF WriteDecision
    <3> HIDE DEF l, a
    <3>2. LocalsOK(r, "insertImpact", a)
      BY <1>1, <2>1, <2>3 DEF LocalsOK, Summing
    <3>3. QED BY <1>1, <2>2, <3>1, <3>2 DEF Goes, Labels
  <2>4. CASE a.to # "approved"
    <3>1. GoTo(r, "sumEntries", [Forget(a) EXCEPT !.use = "refresh"])
      BY <1>3, <2>4 DEF WriteDecision, Recompute
    <3> HIDE DEF l, a
    <3>2. QED BY <1>1, <2>1, <2>2, <3>1, RecomputeGoes
  <2>5. QED BY <2>3, <2>4
<1>4. CASE InsertImpact(r)
  <2>1. l = "insertImpact" /\ a.entry \in Entries /\ a.to = "approved"
    BY <1>1, <1>4 DEF InsertImpact, LocalsOK
  <2>2. TablesOK'
    BY <1>4, <2>1 DEF InsertImpact, Shape, TablesOK, caches, person
  <2>3. GoTo(r, "readEvents", Forget(a))
    BY <1>4 DEF InsertImpact
  <2>4. "readEvents" \in Labels \ (Summing \cup {"insertProfile", "decide", "insertImpact"})
    BY DEF Labels, Summing
  <2> HIDE DEF l, a
  <2>5. QED BY <1>1, <2>1, <2>2, <2>3, <2>4, ForgetGoes
<1>5. CASE InsertAdjustment(r)
  <2>1. l = "insertAdjustment" /\ a.call = "adjust" /\ a.delta \in Int
    BY <1>1, <1>5 DEF InsertAdjustment, LocalsOK, Args
  <2>2. TablesOK'
    BY <1>5, <2>1 DEF InsertAdjustment, Shape, TablesOK, caches, person
  <2>3. GoTo(r, "sumEntries", [Forget(a) EXCEPT !.use = "refresh"])
    BY <1>5 DEF InsertAdjustment, Recompute
  <2> HIDE DEF l, a
  <2>4. QED BY <1>1, <2>1, <2>2, <2>3, RecomputeGoes
<1>6. QED BY <1>2, <1>3, <1>4, <1>5

\* The statements that score and promote.
LEMMA PromotersGo ==
    ASSUME Shape, NEW r \in Requests,
           \/ ReadEvents(r) \/ WriteScore(r) \/ ReadProfile(r)
           \/ RereadLevel(r) \/ WriteLevel(r) \/ EvaluateAutomaticBadges(r)
    PROVE  Goes(r) /\ TablesOK'
<1> DEFINE l == pc[r]
           a == arg[r]
           Plain == Labels \ (Summing \cup {"insertProfile", "decide", "insertImpact"})
<1>1. a \in Args /\ LocalsOK(r, l, a) /\ l \in Labels /\ TablesOK
  BY LocalsAre DEF Shape, CallsOK
<1>2. {"writeScore", "readProfile", "readCache", "rereadLevel", "writeLevel", "done"} \subseteq Plain
  BY DEF Labels, Summing
<1>3. CASE ReadEvents(r)
  <2> DEFINE b == [a EXCEPT !.score = Score]
  <2>1. b \in Args /\ b.call = a.call /\ b.to = a.to
    BY <1>1, SumsTyped DEF Args
  <2>2. GoTo(r, "writeScore", b) /\ l = "readEvents" /\ TablesOK'
    BY <1>1, <1>3, TablesStay DEF ReadEvents
  <2> HIDE DEF l, a, b
  <2>3. LocalsOK(r, "writeScore", b)
    BY <1>1, <2>1, <2>2 DEF LocalsOK, Summing
  <2>4. QED BY <2>1, <2>2, <2>3 DEF Goes, Labels
<1>4. CASE WriteScore(r)
  <2>1. TablesOK'
    BY <1>1, <1>4 DEF WriteScore, TablesOK, InProfile, Args, ledger, person
  <2>2. l = "writeScore" /\ (a.call = "adjust" \/ a.to = "approved")
    BY <1>1, <1>4 DEF WriteScore, LocalsOK
  <2>3. CASE a.call = "adjust"
    <3>1. GoTo(r, "done", Forget(a))
      BY <1>4, <2>3 DEF WriteScore
    <3> HIDE DEF l, a, Plain
    <3>2. QED BY <1>1, <1>2, <2>1, <3>1, ForgetGoes DEF Plain
  <2>4. CASE a.call # "adjust"
    <3>1. GoTo(r, "readProfile", Forget(a)) /\ a.to = "approved"
      BY <1>4, <2>2, <2>4 DEF WriteScore
    <3> HIDE DEF l, a, Plain
    <3>2. QED BY <1>1, <1>2, <2>1, <3>1, ForgetGoes DEF Plain
  <2>5. QED BY <2>3, <2>4
<1>5. CASE ReadProfile(r)
  <2>1. TablesOK' /\ l = "readProfile" /\ a.to = "approved"
    BY <1>1, <1>5, TablesStay DEF ReadProfile, LocalsOK
  <2>2. CASE GoTo(r, "readCache", a)
    <3> HIDE DEF l, a
    <3>1. LocalsOK(r, "readCache", a)
      BY <1>1, <2>1 DEF LocalsOK, Summing
    <3>2. QED BY <1>1, <2>1, <2>2, <3>1 DEF Goes, Labels
  <2>3. CASE GoTo(r, "sumEntries", [a EXCEPT !.use = "progress", !.score = scoreCache, !.level = level])
    <3> DEFINE b == [a EXCEPT !.use = "progress"]
               c == [b EXCEPT !.score = scoreCache]
               d == [c EXCEPT !.level = level]
    <3>1. GoTo(r, "sumEntries", d)
      BY <2>3
    <3>2. b \in Args /\ b.call = a.call /\ b.to = a.to /\ b.use = "progress"
      BY <1>1 DEF Args, Uses
    <3> HIDE DEF l, a, b
    <3>3. c \in Args /\ c.call = b.call /\ c.to = b.to /\ c.use = b.use
      BY <1>1, <3>2 DEF Args, TablesOK
    <3> HIDE DEF c
    <3>4. d \in Args /\ d.call = c.call /\ d.to = c.to /\ d.use = c.use
      BY <1>1, <3>3 DEF Args, TablesOK
    <3> HIDE DEF d
    <3>5. LocalsOK(r, "sumEntries", d)
      BY <1>1, <2>1, <3>2, <3>3, <3>4 DEF LocalsOK, Summing
    <3>6. QED BY <2>1, <3>1, <3>4, <3>5 DEF Goes, Labels
  <2>4. QED BY <1>5, <2>2, <2>3 DEF ReadProfile
<1>6. CASE RereadLevel(r)
  <2>1. TablesOK' /\ l = "rereadLevel" /\ a.to = "approved"
    BY <1>1, <1>6, TablesStay DEF RereadLevel, LocalsOK
  <2>2. CASE GoTo(r, "readCache", Forget(a))
    <3> HIDE DEF l, a, Plain
    <3>1. QED BY <1>1, <1>2, <2>1, <2>2, ForgetGoes DEF Plain
  <2>3. CASE GoTo(r, "writeLevel", a)
    <3> HIDE DEF l, a
    <3>1. LocalsOK(r, "writeLevel", a)
      BY <1>1, <2>1 DEF LocalsOK, Summing
    <3>2. QED BY <1>1, <2>1, <2>3, <3>1 DEF Goes, Labels
  <2>4. QED BY <1>6, <2>2, <2>3 DEF RereadLevel
<1>7. CASE WriteLevel(r)
  <2>1. TablesOK'
    BY <1>1, <1>7 DEF WriteLevel, TablesOK, Args, ledger, caches
  <2>2. l = "writeLevel" /\ (a.call = "assign" \/ a.to = "approved")
    BY <1>1, <1>7 DEF WriteLevel, LocalsOK
  <2>3. CASE a.call = "assign"
    <3>1. GoTo(r, "done", a)
      BY <1>7, <2>3 DEF WriteLevel
    <3> HIDE DEF l, a
    <3>2. LocalsOK(r, "done", a)
      BY <1>1 DEF LocalsOK, Summing
    <3>3. QED BY <1>1, <2>1, <3>1, <3>2 DEF Goes, Labels
  <2>4. CASE a.call # "assign"
    <3>1. GoTo(r, "readCache", Forget(a)) /\ a.to = "approved"
      BY <1>7, <2>2, <2>4 DEF WriteLevel
    <3> HIDE DEF l, a, Plain
    <3>2. QED BY <1>1, <1>2, <2>1, <3>1, ForgetGoes DEF Plain
  <2>5. QED BY <2>3, <2>4
<1>8. CASE EvaluateAutomaticBadges(r)
  <2>1. TablesOK' /\ l = "readCache" /\ a.to = "approved"
    BY <1>1, <1>8, TablesStay DEF EvaluateAutomaticBadges, LocalsOK
  <2> DEFINE b == [a EXCEPT !.use = "answer"]
             c == [b EXCEPT !.cache = approvedCache]
  <2>2. GoTo(r, "sumEntries", c)
    BY <1>8 DEF EvaluateAutomaticBadges
  <2>3. b \in Args /\ b.call = a.call /\ b.to = a.to /\ b.use = "answer"
    BY <1>1 DEF Args, Uses
  <2> HIDE DEF l, a, b
  <2>4. c \in Args /\ c.call = b.call /\ c.to = b.to /\ c.use = b.use
    BY <1>1, <2>3 DEF Args, TablesOK
  <2> HIDE DEF c
  <2>5. LocalsOK(r, "sumEntries", c)
    BY <1>1, <2>1, <2>3, <2>4 DEF LocalsOK, Summing
  <2>6. QED BY <2>1, <2>2, <2>4, <2>5 DEF Goes, Labels
<1>9. QED BY <1>3, <1>4, <1>5, <1>6, <1>7, <1>8

\* The statements that total, and the ends of a call.
LEMMA TotalsGo ==
    ASSUME Shape, NEW r \in Requests,
           SumEntries(r) \/ SumPending(r) \/ WriteCaches(r) \/ Done(r) \/ Crash(r)
    PROVE  Goes(r) /\ TablesOK'
<1> DEFINE l == pc[r]
           a == arg[r]
           Plain == Labels \ (Summing \cup {"insertProfile", "decide", "insertImpact"})
<1>1. a \in Args /\ LocalsOK(r, l, a) /\ l \in Labels /\ TablesOK
  BY LocalsAre DEF Shape, CallsOK
<1>2. {"readEvents", "done"} \subseteq Plain
  BY DEF Labels, Summing
<1>3. CASE SumEntries(r)
  <2> DEFINE b == [a EXCEPT !.total = HoursOf("approved")]
  <2>1. b \in Args /\ b.call = a.call /\ b.to = a.to /\ b.use = a.use
    BY <1>1, SumsTyped DEF Args
  <2>2. GoTo(r, "sumAdjustments", b) /\ l = "sumEntries" /\ TablesOK'
    BY <1>1, <1>3, TablesStay DEF SumEntries
  <2> HIDE DEF l, a, b
  <2>3. LocalsOK(r, "sumAdjustments", b)
    BY <1>1, <2>1, <2>2 DEF LocalsOK, Summing
  <2>4. QED BY <2>1, <2>2, <2>3 DEF Goes, Labels
<1>4. CASE SumPending(r)
  <2> DEFINE b == [a EXCEPT !.pending = HoursOf("pending")]
  <2>1. b \in Args /\ b.call = a.call /\ b.to = a.to /\ b.use = a.use
    BY <1>1, SumsTyped DEF Args
  <2>2. GoTo(r, "writeCaches", b) /\ l = "sumPending" /\ TablesOK'
    BY <1>1, <1>4, TablesStay DEF SumPending
  <2> HIDE DEF l, a, b
  <2>3. LocalsOK(r, "writeCaches", b)
    BY <1>1, <2>1, <2>2 DEF LocalsOK, Summing
  <2>4. QED BY <2>1, <2>2, <2>3 DEF Goes, Labels
<1>5. CASE WriteCaches(r)
  <2>1. TablesOK'
    BY <1>1, <1>5 DEF WriteCaches, TablesOK, InProfile, Args, ledger, person
  <2>2. CASE a.use = "repair"
    <3>1. Answered(r, a)
      BY <1>5, <2>2 DEF WriteCaches, CachesWritten
    <3> HIDE DEF l, a
    <3>2. QED BY <1>1, <2>1, <3>1, AnsweredGoes
  <2>3. CASE a.use # "repair"
    <3>1. GoTo(r, IF a.call = "adjust" THEN "readEvents" ELSE "done", Forget(a))
      BY <1>5, <2>3 DEF WriteCaches, CachesWritten
    <3> HIDE DEF l, a, Plain
    <3>2. QED BY <1>1, <1>2, <2>1, <3>1, ForgetGoes DEF Plain
  <2>4. QED BY <2>2, <2>3
<1>6. CASE Done(r) \/ Crash(r)
  BY <1>1, <1>6, ReturnGoes, TablesStay DEF Done, Crash
<1>7. QED BY <1>3, <1>4, <1>5, <1>6

LEMMA SumAdjustmentsGoes ==
    ASSUME Shape, NEW r \in Requests, SumAdjustments(r)
    PROVE  Goes(r) /\ TablesOK'
<1> DEFINE l == pc[r]
           a == arg[r]
           total == a.total + adjusted
           Plain == Labels \ (Summing \cup {"insertProfile", "decide", "insertImpact"})
<1>1. a \in Args /\ LocalsOK(r, l, a) /\ l \in Labels /\ TablesOK /\ total \in Int
  BY LocalsAre DEF Shape, CallsOK, Args, TablesOK
<1>2. {"readCache", "rereadLevel"} \subseteq Plain
  BY DEF Labels, Summing
<1>3. TablesOK' /\ l = "sumAdjustments"
  BY <1>1, TablesStay DEF SumAdjustments
<1>4. CASE a.use = "check" /\ CheckedAdjust(r, total)
  <2>1. CASE Return(r)
    BY <1>3, <2>1, ReturnGoes
  <2>2. CASE GoTo(r, "insertAdjustment", [a EXCEPT !.total = 0])
    <3> DEFINE b == [a EXCEPT !.total = 0]
    <3>1. b \in Args /\ b.call = a.call /\ b.to = a.to /\ b.use = a.use
      BY <1>1 DEF Args
    <3> HIDE DEF b
    <3>2. LocalsOK(r, "insertAdjustment", b)
      BY <1>1, <1>3, <1>4, <3>1 DEF LocalsOK, Summing
    <3>3. QED BY <1>3, <2>2, <3>1, <3>2 DEF Goes, Labels, b
  <2>3. QED BY <1>4, <2>1, <2>2 DEF CheckedAdjust
<1>5. CASE a.use = "answer" /\ Answer(r, total)
  <2> DEFINE b == [a EXCEPT !.answer = IF a.call = "get" THEN total ELSE 0]
             c == Forget(b)
             d == [c EXCEPT !.use = "repair"]
  <2>1. b \in Args /\ b.call = a.call /\ b.to = a.to /\ b.use = "answer"
    BY <1>1, <1>5 DEF Args
  <2>2. Answered(r, b) \/ GoTo(r, "sumEntries", d)
    BY <1>5 DEF Answer
  <2> HIDE DEF b, l, a, total
  <2>3. LocalsOK(r, "sumAdjustments", b)
    BY <1>1, <1>3, <2>1, <1>5 DEF LocalsOK, Summing
  <2>4. CASE Answered(r, b)
    BY <1>1, <1>3, <2>1, <2>3, <2>4, AnsweredGoes
  <2>5. CASE GoTo(r, "sumEntries", d)
    <3>1. c \in Args /\ Like(c, b)
      BY <2>1, ForgetIsArg
    <3> HIDE DEF c
    <3>2. d \in Args /\ d.call = b.call /\ d.to = b.to /\ d.use = "repair"
      BY <3>1 DEF Args, Uses, Like
    <3> HIDE DEF d
    <3>3. LocalsOK(r, "sumEntries", d)
      BY <2>1, <2>3, <3>2 DEF LocalsOK, Summing
    <3>4. QED BY <1>3, <2>5, <3>2, <3>3 DEF Goes, Labels
  <2>6. QED BY <2>2, <2>4, <2>5
<1>6. CASE a.use = "progress" /\ EvaluateAutoProgression(r, total)
  <2> DEFINE best == Best(total, a.score, a.level)
             c == Forget(a)
             d == [c EXCEPT !.best = best]
  <2>1. best \in Levels /\ a.to = "approved"
    BY <1>1, <1>3, <1>6, BestIs DEF Args, LocalsOK, Summing
  <2>2. GoTo(r, "readCache", c) \/ GoTo(r, "rereadLevel", d)
    BY <1>6 DEF EvaluateAutoProgression
  <2> HIDE DEF best, l, a, total, Plain
  <2>3. CASE GoTo(r, "readCache", c)
    BY <1>1, <1>2, <1>3, <2>1, <2>3, ForgetGoes DEF Plain
  <2>4. CASE GoTo(r, "rereadLevel", d)
    <3>1. c \in Args /\ Like(c, a)
      BY <1>1, ForgetIsArg
    <3> HIDE DEF c
    <3>2. d \in Args /\ d.call = a.call /\ d.to = a.to
      BY <2>1, <3>1 DEF Args, Like
    <3> HIDE DEF d
    <3>3. LocalsOK(r, "rereadLevel", d)
      BY <1>1, <2>1, <3>2 DEF LocalsOK, Summing
    <3>4. QED BY <1>3, <2>4, <3>2, <3>3 DEF Goes, Labels
  <2>5. QED BY <2>2, <2>3, <2>4
<1>7. CASE a.use \in {"refresh", "repair"} /\ GoTo(r, "sumPending", [a EXCEPT !.total = total])
  <2> DEFINE b == [a EXCEPT !.total = total]
  <2>1. b \in Args /\ b.call = a.call /\ b.to = a.to /\ b.use = a.use
    BY <1>1 DEF Args
  <2>2. GoTo(r, "sumPending", b)
    BY <1>7
  <2> HIDE DEF l, a, b
  <2>3. LocalsOK(r, "sumPending", b)
    BY <1>1, <1>3, <1>7, <2>1 DEF LocalsOK, Summing
  <2>4. QED BY <1>3, <2>1, <2>2, <2>3 DEF Goes, Labels
<1>8. QED BY <1>4, <1>5, <1>6, <1>7 DEF SumAdjustments

LEMMA StepGoes ==
    ASSUME Shape, NEW r \in Requests, Call(r) \/ Continue(r) \/ Crash(r)
    PROVE  Goes(r) /\ TablesOK'
  BY CallGoes, WritersGo, PromotersGo, TotalsGo, SumAdjustmentsGoes DEF Continue

LEMMA ShapeStep == Shape /\ [Next]_vars => Shape'
<1> SUFFICES ASSUME Shape, [Next]_vars PROVE Shape'
  OBVIOUS
<1>1. ASSUME NEW r \in Requests, Call(r) \/ Continue(r) \/ Crash(r), Observe(r) PROVE Shape'
  <2>1. TablesOK' /\ CallsOK(pc', arg')
    BY <1>1, StepGoes, GoesOK DEF Shape
  <2>2. quiet' \in SUBSET Requests /\ crossed' \in BOOLEAN
    BY <1>1 DEF Observe, Shape
  <2>3. QED BY <2>1, <2>2 DEF Shape
<1>2. CASE UNCHANGED vars
  <2>1. TablesOK'
    BY <1>2, TablesStay DEF vars, Shape
  <2>2. pc' = pc /\ arg' = arg /\ quiet' = quiet /\ crossed' = crossed
    BY <1>2 DEF vars, callVars, history
  <2>3. QED BY <2>1, <2>2 DEF Shape
<1>3. QED BY <1>1, <1>2 DEF Next

LEMMA ShapeInit == Init => Shape
<1> SUFFICES ASSUME Init PROVE Shape
  OBVIOUS
<1>1. 0 \in Levels
  BY LevelsType DEF Levels
<1>2. TablesOK /\ quiet \in SUBSET Requests /\ crossed \in BOOLEAN
  <2>1. entry \in [Entries -> Statuses] /\ impact \in [Entries -> Nat]
    BY DEF Init, Statuses
  <2>2. profile \in BOOLEAN /\ quiet \in SUBSET Requests /\ crossed \in BOOLEAN
    BY DEF Init
  <2>3. adjusted \in Int /\ adjustments \in Nat /\ level \in Levels
    BY <1>1 DEF Init
  <2>4. approvedCache \in Int /\ pendingCache \in Int /\ scoreCache \in Int
    BY DEF Init
  <2>5. QED BY <2>1, <2>2, <2>3, <2>4 DEF TablesOK
<1>3. CallsOK(pc, arg)
  <2>1. "idle" \in Labels /\ NoArg \in Args /\ \A r : LocalsOK(r, "idle", NoArg)
    BY NoArgIsArg DEF Labels
  <2>2. pc = [r \in Requests |-> "idle"] /\ arg = [r \in Requests |-> NoArg]
    BY DEF Init
  <2>3. pc \in [Requests -> Labels] /\ arg \in [Requests -> Args]
    BY <2>1, <2>2
  <2>4. \A r \in Requests : LocalsOK(r, pc[r], arg[r])
    BY <2>1, <2>2
  <2>5. QED BY <2>3, <2>4 DEF CallsOK
<1>4. QED BY <1>2, <1>3 DEF Shape

-----------------------------------------------------------------------------
(* Decisions: impact is earned once *)

\* What a review relies on at its two writes, if no two have decided the entry.
Reviewing(l, a, statuses, events, disputed) ==
    a.entry \notin disputed =>
        /\ l = "decide" => statuses[a.entry] = "pending"
        /\ l = "insertImpact" => statuses[a.entry] = "approved" /\ events[a.entry] = 0

Writes == {"decide", "insertImpact"}

\* Two that are about to write for one entry have been seen to decide it.
Seen(r, q) == pc[r] \in Writes /\ pc[q] \in Writes /\ arg[r].entry = arg[q].entry => arg[r].entry \in contested

Deciding ==
    /\ DecidedOnceEarnsOnce
    /\ \A r \in Requests : Reviewing(pc[r], arg[r], entry, impact, contested)
    /\ \A r, q \in Requests : r # q => Seen(r, q)

\* The labels whose statement relies on what was read before it.
Relying == {"decide", "insertImpact", "sumAdjustments", "insertAdjustment"}

LEMMA GoToMoves ==
    ASSUME Shape, NEW r \in Requests, NEW l, NEW a, GoTo(r, l, a)
    PROVE  /\ pc'[r] = l /\ arg'[r] = a
           /\ \A q \in Requests \ {r} : pc'[q] = pc[q] /\ arg'[q] = arg[q]
  BY DEF GoTo, Shape, CallsOK

\* The steps that neither write what others rely on nor come to rely on it.
LEMMA PlainStep ==
    ASSUME Shape, NEW r \in Requests,
           \/ ActivateVolunteerProfile(r) \/ GetApprovedHoursForUser(r)
           \/ \E e \in Entries, delta \in Deltas : AdjustVolunteerHours(r, e, delta)
           \/ \E to \in Levels : AssignProgressionLevel(r, to)
           \/ InsertProfile(r) \/ ReadEvents(r) \/ WriteScore(r) \/ ReadProfile(r)
           \/ RereadLevel(r) \/ WriteLevel(r) \/ EvaluateAutomaticBadges(r)
           \/ SumPending(r) \/ WriteCaches(r) \/ Done(r) \/ Crash(r)
    PROVE  /\ UNCHANGED ledger
           /\ pc'[r] \notin Relying
           /\ \A q \in Requests \ {r} : pc'[q] = pc[q] /\ arg'[q] = arg[q]
<1> DEFINE To(l) == \E a : GoTo(r, l, a)
<1>1. UNCHANGED ledger
  BY DEF ActivateVolunteerProfile, GetApprovedHoursForUser, AdjustVolunteerHours,
         AssignProgressionLevel, InsertProfile, ReadEvents, WriteScore, ReadProfile,
         RereadLevel, WriteLevel, EvaluateAutomaticBadges, SumPending, WriteCaches,
         Done, Crash
<1>2. \E l : l \notin Relying /\ To(l)
  <2>1. To("insertProfile") \/ To("idle") \/ To("done") \/ To("sumEntries") \/ To("writeLevel")
        \/ To("writeScore") \/ To("readProfile") \/ To("readCache") \/ To("writeCaches") \/ To("readEvents")
    <3>1. ASSUME ActivateVolunteerProfile(r) \/ GetApprovedHoursForUser(r)
                 \/ (\E e \in Entries, delta \in Deltas : AdjustVolunteerHours(r, e, delta))
                 \/ \E to \in Levels : AssignProgressionLevel(r, to)
          PROVE  To("insertProfile") \/ To("sumEntries") \/ To("writeLevel")
      BY <3>1
         DEF ActivateVolunteerProfile, GetApprovedHoursForUser, AdjustVolunteerHours,
             AssignProgressionLevel
    <3>2. ASSUME InsertProfile(r) \/ Done(r) \/ Crash(r) PROVE To("idle") \/ To("done")
      BY <3>2 DEF InsertProfile, Done, Crash, Return
    <3>3. ASSUME ReadEvents(r) \/ WriteScore(r) PROVE To("writeScore") \/ To("done") \/ To("readProfile")
      <4>1. ReadEvents(r) => To("writeScore")
        BY DEF ReadEvents
      <4>2. WriteScore(r) => GoTo(r, IF arg[r].call = "adjust" THEN "done" ELSE "readProfile", Forget(arg[r]))
        BY DEF WriteScore
      <4>3. WriteScore(r) => To("done") \/ To("readProfile")
        BY <4>2
      <4>4. QED BY <3>3, <4>1, <4>3
    <3>4. ASSUME ReadProfile(r) \/ RereadLevel(r) \/ WriteLevel(r) \/ EvaluateAutomaticBadges(r)
          PROVE  To("readCache") \/ To("sumEntries") \/ To("writeLevel") \/ To("done")
      BY <3>4 DEF ReadProfile, RereadLevel, WriteLevel, EvaluateAutomaticBadges
    <3>5. ASSUME SumPending(r) \/ WriteCaches(r)
          PROVE  To("writeCaches") \/ To("sumEntries") \/ To("done") \/ To("readEvents")
      <4>1. SumPending(r) => To("writeCaches")
        BY DEF SumPending
      <4>2. ASSUME WriteCaches(r) PROVE To("sumEntries") \/ To("done") \/ To("readEvents")
        <5>1. CASE arg[r].use = "repair"
          BY <4>2, <5>1 DEF WriteCaches, CachesWritten, Answered
        <5>2. CASE arg[r].use # "repair"
          <6>1. GoTo(r, IF arg[r].call = "adjust" THEN "readEvents" ELSE "done", Forget(arg[r]))
            BY <4>2, <5>2 DEF WriteCaches, CachesWritten
          <6>2. QED BY <6>1
        <5>3. QED BY <5>1, <5>2
      <4>3. QED BY <3>5, <4>1, <4>2
    <3> HIDE DEF To
    <3>6. QED BY <3>1, <3>2, <3>3, <3>4, <3>5
  <2> HIDE DEF To
  <2>2. QED BY <2>1 DEF Relying
<1>3. PICK l, a : l \notin Relying /\ GoTo(r, l, a)
  BY <1>2
<1>4. QED BY <1>1, <1>3, GoToMoves

LEMMA DecidingStep ==
    ASSUME Shape, Deciding, NEW r \in Requests, Call(r) \/ Continue(r) \/ Crash(r), Observe(r)
    PROVE  Deciding'
<1> DEFINE Others == \A q \in Requests \ {r} : pc'[q] = pc[q] /\ arg'[q] = arg[q]
           Safe(q) == Reviewing(pc'[q], arg'[q], entry', impact', contested')
           EarnedOnce(e) == impact'[e] <= 1 /\ (impact'[e] = 1 => entry'[e] = "approved")
           Earns == \A e \in Entries \ contested : EarnedOnce(e)
           Apart(q) == Seen(r, q)' /\ Seen(q, r)'
<1>1. contested \subseteq contested' /\ Contested' \subseteq contested'
  BY DEF Observe
<1>2. \A q \in Requests :
         /\ arg[q] \in Args /\ LocalsOK(q, pc[q], arg[q])
         /\ Reviewing(pc[q], arg[q], entry, impact, contested)
  BY LocalsAre DEF Deciding
<1>3. /\ entry \in [Entries -> Statuses] /\ impact \in [Entries -> Nat]
      /\ \A e \in Entries \ contested : impact[e] <= 1 /\ (impact[e] = 1 => entry[e] = "approved")
  BY DEF Shape, TablesOK, Deciding, DecidedOnceEarnsOnce
\* It is enough to look at r, at who writes for the same entry, and at the rest.
<1>4. SUFFICES ASSUME Others
               PROVE  Earns /\ (\A q \in Requests : Safe(q)) /\ \A q \in Requests \ {r} : Apart(q)
  <2>1. Others
    <3>1. \E l, a : GoTo(r, l, a)
      BY StepGoes DEF Goes
    <3>2. QED BY <3>1, GoToMoves
  <2>2. ASSUME Earns, \A q \in Requests : Safe(q), \A q \in Requests \ {r} : Apart(q)
        PROVE  Deciding'
    <3>1. DecidedOnceEarnsOnce'
      BY <1>1, <2>2 DEF DecidedOnceEarnsOnce
    <3>2. ASSUME NEW p \in Requests, NEW q \in Requests, p # q PROVE Seen(p, q)'
      <4>1. CASE p = r
        BY <2>2, <3>2, <4>1
      <4>2. CASE q = r
        BY <2>2, <3>2, <4>2
      <4>3. CASE p # r /\ q # r
        <5>1. Seen(p, q)
          BY <3>2 DEF Deciding
        <5>2. QED BY <1>1, <2>1, <4>3, <5>1 DEF Seen
      <4>4. QED BY <4>1, <4>2, <4>3
    <3>3. QED BY <2>2, <3>1, <3>2 DEF Deciding
  <2>3. QED BY <2>1, <2>2
<1> HIDE DEF Safe
<1>5. ASSUME entry' = entry, impact' = impact, NEW q \in Requests \ {r}
      PROVE  Safe(q)
  BY <1>1, <1>2, <1>4, <1>5 DEF Safe, Reviewing
<1>6. ASSUME pc'[r] \notin Writes PROVE Safe(r) /\ \A q \in Requests \ {r} : Apart(q)
  BY <1>6 DEF Safe, Reviewing, Seen, Writes
<1>7. ASSUME entry' = entry, impact' = impact, pc'[r] \notin Writes
      PROVE  Earns /\ (\A q \in Requests : Safe(q)) /\ \A q \in Requests \ {r} : Apart(q)
  BY <1>3, <1>5, <1>6, <1>7
\* At a write of r for an entry not disputed there is no other.
<1>8. ASSUME pc[r] \in Writes, NEW q \in Requests \ {r}, arg[r].entry \notin contested,
             entry' = entry \/ entry' = [entry EXCEPT ![arg[r].entry] = arg[r].to],
             impact' = impact \/ impact' = [impact EXCEPT ![arg[r].entry] = @ + 1]
      PROVE  Safe(q)
  <2>1. Reviewing(pc[q], arg[q], entry, impact, contested) /\ pc'[q] = pc[q] /\ arg'[q] = arg[q]
    BY <1>2, <1>4
  <2>2. pc[q] \in Writes => arg[q].entry # arg[r].entry /\ arg[q].entry \in Entries
    <3>1. Seen(r, q)
      BY DEF Deciding
    <3>2. LocalsOK(q, pc[q], arg[q])
      BY <1>2
    <3>3. QED BY <1>8, <3>1, <3>2 DEF Seen, LocalsOK, Writes
  <2>3. QED BY <1>1, <1>3, <1>8, <2>1, <2>2 DEF Safe, Reviewing, Writes
\* And for one that is, nothing is promised of those that write for it too.
<1>9. ASSUME pc[r] \in Writes, NEW q \in Requests \ {r}, arg[r].entry \in contested,
             arg[r].entry \in Entries,
             entry' = entry \/ entry' = [entry EXCEPT ![arg[r].entry] = arg[r].to],
             impact' = impact \/ impact' = [impact EXCEPT ![arg[r].entry] = @ + 1]
      PROVE  Safe(q)
  <2>1. Reviewing(pc[q], arg[q], entry, impact, contested) /\ pc'[q] = pc[q] /\ arg'[q] = arg[q]
    BY <1>2, <1>4
  <2>2. pc[q] \in Writes => arg[q].entry \in Entries
    <3>1. LocalsOK(q, pc[q], arg[q])
      BY <1>2
    <3>2. QED BY <3>1 DEF LocalsOK, Writes
  <2>3. CASE pc[q] \in Writes /\ arg[q].entry # arg[r].entry
    BY <1>1, <1>3, <1>9, <2>1, <2>2, <2>3 DEF Safe, Reviewing, Writes
  <2>4. CASE arg[q].entry = arg[r].entry
    BY <1>1, <1>9, <2>1, <2>4 DEF Safe, Reviewing
  <2>5. CASE pc[q] \notin Writes
    BY <2>1, <2>5 DEF Safe, Reviewing, Writes
  <2>6. QED BY <2>3, <2>4, <2>5
<1>10. CASE \E e \in Entries : SubmitVolunteerHours(r, e)
  <2>1. PICK e \in Entries : SubmitVolunteerHours(r, e)
    BY <1>10
  <2>2. entry[e] = "none" /\ entry' = [entry EXCEPT ![e] = "pending"] /\ impact' = impact
    BY <2>1 DEF SubmitVolunteerHours
  <2>3. pc'[r] \notin Writes
    BY <2>1, GoToMoves DEF SubmitVolunteerHours, Writes
  <2>4. Earns
    BY <1>3, <2>2
  <2>5. ASSUME NEW q \in Requests \ {r} PROVE Safe(q)
    <3>1. pc[q] \in Writes => arg[q].entry \in Entries
      BY <1>2 DEF LocalsOK, Writes
    <3>2. Reviewing(pc[q], arg[q], entry, impact, contested) /\ pc'[q] = pc[q] /\ arg'[q] = arg[q]
      BY <1>2, <1>4
    <3>3. QED BY <1>1, <1>3, <2>2, <3>1, <3>2 DEF Safe, Reviewing, Writes
  <2>6. QED BY <1>6, <2>3, <2>4, <2>5
<1>11. CASE \E e \in Entries, decision \in {"approved", "rejected"} : ReviewVolunteerHours(r, e, decision)
  <2>1. PICK e \in Entries, decision \in {"approved", "rejected"} : ReviewVolunteerHours(r, e, decision)
    BY <1>11
  <2> DEFINE a == [NoArg EXCEPT !.call = "review", !.entry = e, !.to = decision]
  <2>2. a.entry = e
    BY DEF NoArg
  <2>3. GoTo(r, "decide", a) /\ entry[e] = "pending" /\ entry' = entry /\ impact' = impact
    BY <2>1 DEF ReviewVolunteerHours, ledger
  <2> HIDE DEF a
  <2>4. pc'[r] = "decide" /\ arg'[r] = a
    BY <2>3, GoToMoves
  <2>5. Safe(r)
    BY <2>2, <2>3, <2>4 DEF Safe, Reviewing
  <2>6. ASSUME NEW q \in Requests \ {r}, pc'[q] \in Writes, arg'[q].entry = e PROVE e \in contested'
    <3>1. pc[q] \in Writes /\ arg[q].entry = e /\ pc'[q] = pc[q] /\ arg'[q] = arg[q]
      BY <1>4, <2>6
    <3>2. CASE pc[q] = "decide"
      <4>1. Decides(r, e)' /\ Decides(q, e)'
        BY <2>2, <2>4, <3>1, <3>2 DEF Decides
      <4>2. e \in Contested'
        BY <4>1 DEF Contested
      <4>3. QED BY <1>1, <4>2
    <3>3. CASE pc[q] = "insertImpact"
      BY <1>1, <1>2, <2>3, <3>1, <3>3 DEF Reviewing
    <3>4. QED BY <3>1, <3>2, <3>3 DEF Writes
  <2>7. ASSUME NEW q \in Requests \ {r} PROVE Apart(q)
    BY <2>2, <2>4, <2>6 DEF Seen
  <2>8. Earns
    BY <1>3, <2>3
  <2>9. QED BY <1>5, <2>3, <2>5, <2>7, <2>8
<1>12. CASE WriteDecision(r)
  <2> DEFINE e == arg[r].entry
             to == arg[r].to
  <2>1. pc[r] = "decide" /\ entry' = [entry EXCEPT ![e] = to] /\ impact' = impact
    BY <1>12 DEF WriteDecision
  <2>2. e \in Entries /\ (e \notin contested => entry[e] = "pending" /\ impact[e] = 0)
    BY <1>2, <1>3, <2>1 DEF LocalsOK, Reviewing
  <2>3. Earns
    BY <1>3, <2>1, <2>2
  <2>4. Safe(r) /\ \A q \in Requests \ {r} : Apart(q)
    <3>1. CASE to = "approved"
      <4>1. GoTo(r, "insertImpact", arg[r])
        BY <1>12, <3>1 DEF WriteDecision
      <4>2. pc'[r] = "insertImpact" /\ arg'[r] = arg[r]
        BY <4>1, GoToMoves
      <4>3. Safe(r)
        BY <1>1, <1>3, <2>1, <2>2, <3>1, <4>2 DEF Safe, Reviewing
      <4>4. ASSUME NEW q \in Requests \ {r} PROVE Apart(q)
        <5>1. Seen(r, q) /\ Seen(q, r)
          BY DEF Deciding
        <5>2. pc'[q] = pc[q] /\ arg'[q] = arg[q]
          BY <1>4
        <5>3. QED BY <1>1, <2>1, <4>2, <5>1, <5>2 DEF Seen, Writes
      <4>5. QED BY <4>3, <4>4
    <3>2. CASE to # "approved"
      <4>1. pc'[r] \notin Writes
        BY <1>12, <3>2, GoToMoves DEF WriteDecision, Recompute, Writes
      <4>2. QED BY <1>6, <4>1
    <3>3. QED BY <3>1, <3>2
  <2>5. ASSUME NEW q \in Requests \ {r} PROVE Safe(q)
    BY <1>8, <1>9, <2>1, <2>2 DEF Writes
  <2>6. QED BY <2>3, <2>4, <2>5
<1>13. CASE InsertImpact(r)
  <2> DEFINE e == arg[r].entry
  <2>1. pc[r] = "insertImpact" /\ impact' = [impact EXCEPT ![e] = @ + 1] /\ entry' = entry
    BY <1>13 DEF InsertImpact
  <2>2. e \in Entries /\ (e \notin contested => entry[e] = "approved" /\ impact[e] = 0)
    BY <1>2, <2>1 DEF LocalsOK, Reviewing
  <2>3. Earns
    BY <1>3, <2>1, <2>2
  <2>4. pc'[r] \notin Writes
    BY <1>13, GoToMoves DEF InsertImpact, Writes
  <2>5. ASSUME NEW q \in Requests \ {r} PROVE Safe(q)
    BY <1>8, <1>9, <2>1, <2>2 DEF Writes
  <2>6. QED BY <1>6, <2>3, <2>4, <2>5
<1>14. CASE SumEntries(r) \/ InsertAdjustment(r)
  <2>1. entry' = entry /\ impact' = impact
    BY <1>14 DEF SumEntries, InsertAdjustment, ledger
  <2>2. pc'[r] \notin Writes
    BY <1>14, GoToMoves DEF SumEntries, InsertAdjustment, Recompute, Writes
  <2>3. QED BY <1>7, <2>1, <2>2
<1>15. CASE SumAdjustments(r)
  <2>1. entry' = entry /\ impact' = impact
    BY <1>15 DEF SumAdjustments, ledger
  <2>2. \E l, a : GoTo(r, l, a) /\ l \notin {"decide", "insertImpact"}
    BY <1>15 DEF SumAdjustments, CheckedAdjust, Return, Answer, Answered, EvaluateAutoProgression
  <2>3. pc'[r] \notin Writes
    BY <2>2, GoToMoves DEF Writes
  <2>4. QED BY <1>7, <2>1, <2>3
<1>16. CASE \/ ActivateVolunteerProfile(r) \/ GetApprovedHoursForUser(r)
            \/ \E e \in Entries, delta \in Deltas : AdjustVolunteerHours(r, e, delta)
            \/ \E to \in Levels : AssignProgressionLevel(r, to)
            \/ InsertProfile(r) \/ ReadEvents(r) \/ WriteScore(r) \/ ReadProfile(r)
            \/ RereadLevel(r) \/ WriteLevel(r) \/ EvaluateAutomaticBadges(r)
            \/ SumPending(r) \/ WriteCaches(r) \/ Done(r) \/ Crash(r)
  <2>1. entry' = entry /\ impact' = impact
    BY <1>16, PlainStep DEF ledger
  <2>2. pc'[r] \notin Writes
    BY <1>16, PlainStep DEF Relying, Writes
  <2>3. QED BY <1>7, <2>1, <2>2
<1>17. QED
  BY <1>10, <1>11, <1>12, <1>13, <1>14, <1>15, <1>16
  DEF Call, VolunteerCalls, ReviewerCalls, AdministratorCalls, Continue

LEMMA DecidingInit == Init => Deciding
  BY DEF Init, Deciding, DecidedOnceEarnsOnce, Reviewing, Seen, Writes

LEMMA DecidingStays ==
    ASSUME Deciding, UNCHANGED vars
    PROVE  Deciding'
<1>1. entry' = entry /\ impact' = impact /\ pc' = pc /\ arg' = arg /\ contested' = contested
  BY DEF vars, ledger, callVars, history
<1>2. QED BY <1>1 DEF Deciding, DecidedOnceEarnsOnce, Reviewing, Seen

\* reviewVolunteerHours: hours that no two calls decided at once earn their impact
\* at most once, and only approved hours do, for any number of reviewers.
THEOREM HoursEarnOnce == Spec => []DecidedOnceEarnsOnce
<1> DEFINE Inv == Shape /\ Deciding
<1>1. Init => Inv
  BY DecidingInit, ShapeInit
<1>2. Inv /\ [Next]_vars => Inv'
  <2> SUFFICES ASSUME Shape, Deciding, [Next]_vars PROVE Shape' /\ Deciding'
    OBVIOUS
  <2>1. CASE UNCHANGED vars
    BY <2>1, ShapeStep, DecidingStays
  <2>2. CASE Next
    BY <2>2, ShapeStep, DecidingStep DEF Next
  <2>3. QED BY <2>1, <2>2
<1>3. Inv => DecidedOnceEarnsOnce
  BY DEF Deciding
<1>4. QED BY <1>1, <1>2, <1>3, PTL DEF Spec

-----------------------------------------------------------------------------
(* Corrections: the total stays *)

\* What an adjustment relies on: approved hours only grow.
Totalling(l, a, approved, sum) ==
    /\ l = "sumAdjustments" /\ a.use = "check" => a.total <= approved
    /\ l = "insertAdjustment" => approved + sum + a.delta >= 0

\* No two corrections have been under way at once, and no two decisions on an entry.
Calm == ~crossed /\ contested = {}

Balanced ==
    /\ Calm => /\ Total >= 0
               /\ \A r \in Requests : Totalling(pc[r], arg[r], HoursOf("approved"), adjusted)
    /\ \A r, q \in Requests : r # q /\ Adjusts(r) /\ Adjusts(q) => crossed

LEMMA HoursOfUnchanged ==
    ASSUME entry' = entry
    PROVE  /\ HoursOf("approved")' = HoursOf("approved")
           /\ HoursOf("pending")' = HoursOf("pending")
  BY DEF HoursOf

\* An entry that changes was none or pending.
LEMMA ApprovedHoursGrow ==
    ASSUME TablesOK, NEW e \in Entries, entry[e] # "approved", NEW s, entry' = [entry EXCEPT ![e] = s]
    PROVE  HoursOf("approved") <= HoursOf("approved")'
<1> DEFINE X == {x \in Entries : entry[x] = "approved"}
           Y == {x \in Entries : entry'[x] = "approved"}
<1>1. HoursOf("approved") = SumFunctionOnSet(Hours, X) /\ HoursOf("approved")' = SumFunctionOnSet(Hours, Y)
  BY DEF HoursOf
<1>2. X \in SUBSET Entries /\ Y \in SUBSET Entries /\ e \notin X
  OBVIOUS
<1>3. Y = X \/ (e \in Y /\ Y \ {e} = X)
  BY DEF TablesOK
<1>4. Hours \in [Entries -> Nat]
  BY HoursType
<1> HIDE DEF X, Y
<1>5. SumFunctionOnSet(Hours, X) \in Nat
  BY <1>2, <1>4, EntriesFinite, SumType
<1>6. CASE Y = X
  BY <1>1, <1>5, <1>6
<1>7. CASE e \in Y /\ Y \ {e} = X
  <2>1. SumFunctionOnSet(Hours, Y) = Hours[e] + SumFunctionOnSet(Hours, Y \ {e})
    BY <1>2, <1>4, <1>7, EntriesFinite, SumWithout
  <2>2. Hours[e] \in Nat
    BY <1>4
  <2>3. SumFunctionOnSet(Hours, Y) = Hours[e] + SumFunctionOnSet(Hours, X)
    BY <1>7, <2>1
  <2>4. QED BY <1>1, <1>5, <2>2, <2>3
<1>8. QED BY <1>3, <1>6, <1>7

LEMMA BalancedStep ==
    ASSUME Shape, Deciding, Balanced,
           NEW r \in Requests, Call(r) \/ Continue(r) \/ Crash(r), Observe(r)
    PROVE  Balanced'
<1> DEFINE Others == \A q \in Requests \ {r} : pc'[q] = pc[q] /\ arg'[q] = arg[q]
           h == HoursOf("approved")
           h2 == HoursOf("approved")'
           Safe(q) == Totalling(pc'[q], arg'[q], h2, adjusted')
<1>1. SUFFICES ASSUME Calm PROVE h2 + adjusted' >= 0 /\ \A q \in Requests : Safe(q)
  <2>1. Calm' => Calm
    BY DEF Calm, Observe, Shape
  <2>2. (\A p, q \in Requests : p # q /\ Adjusts(p) /\ Adjusts(q) => crossed)'
    BY DEF Observe, Shape, Crossed
  <2>3. Total' = h2 + adjusted'
    BY DEF Total
  <2>4. QED BY <2>1, <2>2, <2>3 DEF Balanced
<1>2. \A q \in Requests :
         /\ arg[q] \in Args /\ LocalsOK(q, pc[q], arg[q])
         /\ Reviewing(pc[q], arg[q], entry, impact, contested)
         /\ Totalling(pc[q], arg[q], h, adjusted)
  BY <1>1, LocalsAre DEF Deciding, Balanced
<1>3. h \in Int /\ h2 \in Int /\ adjusted \in Int /\ h + adjusted >= 0
  <2>1. TablesOK /\ TablesOK'
    BY StepGoes DEF Shape
  <2>2. h \in Nat
    BY <2>1, SumsTyped
  <2>3. h2 \in Nat
    <3>1. (\A status : HoursOf(status) \in Nat)'
      BY <2>1, SumsTyped, PTL
    <3>2. QED BY <3>1
  <2>4. QED BY <1>1, <2>1, <2>2, <2>3 DEF TablesOK, Balanced, Total
<1>4. entry' = entry => h2 = h
  BY HoursOfUnchanged
<1> HIDE DEF Safe, h, h2
<1>5. ASSUME h <= h2, adjusted' = adjusted, Others,
             pc'[r] \notin {"sumAdjustments", "insertAdjustment"}
      PROVE  h2 + adjusted' >= 0 /\ \A q \in Requests : Safe(q)
  <2>1. Safe(r)
    BY <1>5 DEF Safe, Totalling
  <2>2. ASSUME NEW q \in Requests \ {r} PROVE Safe(q)
    <3>1. Totalling(pc[q], arg[q], h, adjusted) /\ arg[q].total \in Int /\ arg[q].delta \in Int
      BY <1>2 DEF Args
    <3>2. pc'[q] = pc[q] /\ arg'[q] = arg[q]
      BY <1>5
    <3>3. Totalling(pc[q], arg[q], h2, adjusted)
      BY <1>3, <1>5, <3>1 DEF Totalling
    <3>4. QED BY <1>5, <3>2, <3>3 DEF Safe
  <2>3. QED BY <1>3, <1>5, <2>1, <2>2
<1>6. ASSUME h2 = h, adjusted' = adjusted, Others, Safe(r)
      PROVE  h2 + adjusted' >= 0 /\ \A q \in Requests : Safe(q)
  <2>1. ASSUME NEW q \in Requests \ {r} PROVE Safe(q)
    BY <1>2, <1>6, <2>1 DEF Safe
  <2>2. QED BY <1>3, <1>6, <2>1
<1>7. CASE \E e \in Entries : SubmitVolunteerHours(r, e)
  <2>1. PICK e \in Entries : SubmitVolunteerHours(r, e)
    BY <1>7
  <2>2. entry[e] = "none" /\ entry' = [entry EXCEPT ![e] = "pending"] /\ adjusted' = adjusted
    BY <2>1 DEF SubmitVolunteerHours
  <2>3. pc'[r] = "sumEntries" /\ Others
    BY <2>1, GoToMoves DEF SubmitVolunteerHours
  <2>4. h <= h2
    BY <2>2, ApprovedHoursGrow DEF Shape, h, h2
  <2>5. QED BY <1>5, <2>2, <2>3, <2>4
<1>8. CASE \E e \in Entries, decision \in {"approved", "rejected"} : ReviewVolunteerHours(r, e, decision)
  <2>1. PICK e \in Entries, decision \in {"approved", "rejected"} : ReviewVolunteerHours(r, e, decision)
    BY <1>8
  <2>2. entry' = entry /\ adjusted' = adjusted
    BY <2>1 DEF ReviewVolunteerHours, ledger
  <2>3. pc'[r] = "decide" /\ Others
    BY <2>1, GoToMoves DEF ReviewVolunteerHours
  <2>4. h <= h2
    BY <1>3, <1>4, <2>2
  <2>5. QED BY <1>5, <2>2, <2>3, <2>4
<1>9. CASE WriteDecision(r)
  <2> DEFINE e == arg[r].entry
  <2>1. pc[r] = "decide" /\ entry' = [entry EXCEPT ![e] = arg[r].to] /\ adjusted' = adjusted
    BY <1>9 DEF WriteDecision
  <2>2. e \in Entries /\ entry[e] = "pending"
    BY <1>1, <1>2, <2>1 DEF LocalsOK, Reviewing, Calm
  <2>3. h <= h2
    BY <2>1, <2>2, ApprovedHoursGrow DEF Shape, h, h2
  <2>4. \E l \in {"insertImpact", "sumEntries"} : \E a : GoTo(r, l, a)
    BY <1>9 DEF WriteDecision, Recompute
  <2>5. pc'[r] \in {"insertImpact", "sumEntries"} /\ Others
    BY <2>4, GoToMoves
  <2>6. QED BY <1>5, <2>1, <2>3, <2>5
<1>10. CASE InsertImpact(r)
  <2>1. entry' = entry /\ adjusted' = adjusted
    BY <1>10 DEF InsertImpact
  <2>2. pc'[r] = "readEvents" /\ Others
    BY <1>10, GoToMoves DEF InsertImpact
  <2>3. h <= h2
    BY <1>3, <1>4, <2>1
  <2>4. QED BY <1>5, <2>1, <2>2, <2>3
<1>11. CASE SumEntries(r)
  <2> DEFINE b == [arg[r] EXCEPT !.total = HoursOf("approved")]
  <2>1. b.total = h
    BY <1>2 DEF Args, h
  <2>2. GoTo(r, "sumAdjustments", b) /\ entry' = entry /\ adjusted' = adjusted
    BY <1>11 DEF SumEntries, ledger
  <2> HIDE DEF b
  <2>3. pc'[r] = "sumAdjustments" /\ arg'[r] = b /\ Others
    BY <2>2, GoToMoves
  <2>4. Safe(r)
    BY <1>3, <1>4, <2>1, <2>2, <2>3 DEF Safe, Totalling
  <2>5. QED BY <1>4, <1>6, <2>2, <2>3, <2>4
<1>12. CASE SumAdjustments(r)
  <2> DEFINE a == arg[r]
             total == a.total + adjusted
  <2>1. pc[r] = "sumAdjustments" /\ entry' = entry /\ adjusted' = adjusted
    BY <1>12 DEF SumAdjustments, ledger
  <2>2. CASE a.use = "check" /\ CheckedAdjust(r, total)
    <3>1. CASE total + a.delta < 0
      <4>1. pc'[r] = "idle" /\ Others
        BY <2>2, <3>1, GoToMoves DEF CheckedAdjust, Return
      <4>2. QED BY <1>3, <1>4, <1>5, <2>1, <4>1
    <3>2. CASE ~(total + a.delta < 0)
      <4> DEFINE b == [a EXCEPT !.total = 0]
      <4>1. b.delta = a.delta
        BY <1>2 DEF Args
      <4>2. GoTo(r, "insertAdjustment", b)
        BY <2>2, <3>2 DEF CheckedAdjust
      <4> HIDE DEF b
      <4>3. pc'[r] = "insertAdjustment" /\ arg'[r] = b /\ Others
        BY <4>2, GoToMoves
      <4>4. a.total <= h /\ a.total \in Int /\ a.delta \in Int
        BY <1>2, <2>1, <2>2 DEF Totalling, Args
      <4>5. h + adjusted + a.delta >= 0
        BY <1>3, <3>2, <4>4
      <4>6. Safe(r)
        BY <1>3, <1>4, <2>1, <4>1, <4>3, <4>5 DEF Safe, Totalling
      <4>7. QED BY <1>4, <1>6, <2>1, <4>3, <4>6
    <3>3. QED BY <3>1, <3>2
  <2>3. CASE ~(a.use = "check" /\ CheckedAdjust(r, total))
    <3>1. \E l, b : GoTo(r, l, b) /\ l \notin {"sumAdjustments", "insertAdjustment"}
      BY <1>12, <2>3 DEF SumAdjustments, Answer, Answered, EvaluateAutoProgression
    <3>2. pc'[r] \notin {"sumAdjustments", "insertAdjustment"} /\ Others
      BY <3>1, GoToMoves
    <3>3. h <= h2
      BY <1>3, <1>4, <2>1
    <3>4. QED BY <1>5, <2>1, <3>2, <3>3
  <2>4. QED BY <2>2, <2>3
\* There is no other adjustment under way.
<1>13. CASE InsertAdjustment(r)
  <2> DEFINE a == arg[r]
  <2>1. pc[r] = "insertAdjustment" /\ entry' = entry /\ adjusted' = adjusted + a.delta
    BY <1>13 DEF InsertAdjustment
  <2>2. Adjusts(r) /\ h + adjusted + a.delta >= 0 /\ a.delta \in Int
    BY <1>2, <2>1 DEF LocalsOK, Totalling, Args, Adjusts
  <2>3. h2 + adjusted' >= 0
    BY <1>3, <1>4, <2>1, <2>2
  <2>4. pc'[r] = "sumEntries" /\ Others
    BY <1>13, GoToMoves DEF InsertAdjustment, Recompute
  <2>5. Safe(r)
    BY <2>4 DEF Safe, Totalling
  <2>6. ASSUME NEW q \in Requests \ {r} PROVE Safe(q)
    <3>1. ~Adjusts(q)
      BY <1>1, <2>2 DEF Balanced, Calm
    <3>2. pc'[q] # "insertAdjustment" /\ ~(pc'[q] = "sumAdjustments" /\ arg'[q].use = "check")
      BY <1>2, <2>4, <3>1 DEF LocalsOK, Adjusts
    <3>3. QED BY <3>2 DEF Safe, Totalling
  <2>7. QED BY <2>3, <2>5, <2>6
<1>14. CASE \/ ActivateVolunteerProfile(r) \/ GetApprovedHoursForUser(r)
            \/ \E e \in Entries, delta \in Deltas : AdjustVolunteerHours(r, e, delta)
            \/ \E to \in Levels : AssignProgressionLevel(r, to)
            \/ InsertProfile(r) \/ ReadEvents(r) \/ WriteScore(r) \/ ReadProfile(r)
            \/ RereadLevel(r) \/ WriteLevel(r) \/ EvaluateAutomaticBadges(r)
            \/ SumPending(r) \/ WriteCaches(r) \/ Done(r) \/ Crash(r)
  <2>1. entry' = entry /\ adjusted' = adjusted
    BY <1>14, PlainStep DEF ledger
  <2>2. pc'[r] \notin {"sumAdjustments", "insertAdjustment"} /\ Others
    BY <1>14, PlainStep DEF Relying
  <2>3. h <= h2
    BY <1>3, <1>4, <2>1
  <2>4. QED BY <1>5, <2>1, <2>2, <2>3
<1>15. QED
  BY <1>7, <1>8, <1>9, <1>10, <1>11, <1>12, <1>13, <1>14
  DEF Call, VolunteerCalls, ReviewerCalls, AdministratorCalls, Continue

LEMMA NoHours ==
    ASSUME Init
    PROVE  HoursOf("approved") = 0
<1>1. {x \in Entries : entry[x] = "approved"} = {}
  BY DEF Init
<1>2. HoursOf("approved") = SumFunctionOnSet(Hours, {})
  BY <1>1 DEF HoursOf
<1>3. Hours \in [Entries -> Nat]
  BY HoursType
<1>4. SumFunctionOnSet(Hours, {}) = 0
  <2>1. {} \in SUBSET Entries
    OBVIOUS
  <2>2. QED BY <1>3, <2>1, EntriesFinite, SumNothing
<1>5. QED BY <1>2, <1>4

\* adjustVolunteerHours: no adjustment makes the total negative, whatever
\* submissions, reviews and crashes go on between its check and its insertion,
\* unless two adjustments were under way at once or two calls decided one entry.
THEOREM TotalsStay == Spec => []CorrectionsKeepTotal
<1> DEFINE Inv == Shape /\ Deciding /\ Balanced
<1>1. Init => Inv
  <2> SUFFICES ASSUME Init PROVE Inv
    OBVIOUS
  <2>1. Total = 0
    <3>1. HoursOf("approved") = 0
      BY NoHours
    <3>2. adjusted = 0
      BY DEF Init
    <3>3. QED BY <3>1, <3>2 DEF Total
  <2>2. \A r \in Requests : pc[r] = "idle" /\ arg[r].use = "refresh"
    BY DEF Init, NoArg
  <2>3. Balanced
    BY <2>1, <2>2 DEF Balanced, Totalling, Adjusts
  <2>4. QED BY <2>3, DecidingInit, ShapeInit
<1>2. Inv /\ [Next]_vars => Inv'
  <2> SUFFICES ASSUME Shape, Deciding, Balanced, [Next]_vars PROVE Shape' /\ Deciding' /\ Balanced'
    OBVIOUS
  <2>1. CASE UNCHANGED vars
    <3>1. /\ entry' = entry /\ adjusted' = adjusted /\ pc' = pc /\ arg' = arg
          /\ contested' = contested /\ crossed' = crossed
      BY <2>1 DEF vars, ledger, callVars, history
    <3>2. Balanced'
      BY <3>1, HoursOfUnchanged DEF Balanced, Total, Totalling, Calm, Adjusts
    <3>3. QED BY <2>1, <3>2, ShapeStep, DecidingStays
  <2>2. CASE Next
    BY <2>2, ShapeStep, DecidingStep, BalancedStep DEF Next
  <2>3. QED BY <2>1, <2>2
<1>3. Inv => CorrectionsKeepTotal
  BY DEF Balanced, Calm, CorrectionsKeepTotal
<1>4. QED BY <1>1, <1>2, <1>3, PTL DEF Spec

-----------------------------------------------------------------------------
(* Quiet calls *)

\* What a call can read: sums, the profile and its caches.
Now == [approved |-> HoursOf("approved"), pending |-> HoursOf("pending"), sum |-> adjusted,
        score |-> Score, profile |-> profile, level |-> level,
        approvedCache |-> approvedCache, pendingCache |-> pendingCache, scoreCache |-> scoreCache]

TotalOf(n)  == n.approved + n.sum
Earned(n)   == n.level >= Best(TotalOf(n), n.score, 0)

\* What a call knows of n at label l with locals a, if no other wrote since it began.
Summed(l, a, n) ==
    /\ l = "sumAdjustments" => a.total = n.approved
    /\ l \in {"sumPending", "writeCaches"} => a.total = TotalOf(n)
    /\ l = "writeCaches" => a.pending = n.pending

Answering(l, a, n) ==
    /\ l \in {"sumEntries", "sumAdjustments"} /\ a.use = "answer" => a.cache = n.approvedCache
    /\ a.call = "get" /\ (l = "done" \/ (l \in Summing /\ a.use = "repair")) => a.answer = TotalOf(n)
    /\ a.call = "get" /\ l = "done" /\ n.profile => n.approvedCache = TotalOf(n)

Refreshed(l, a, n) ==
    /\ n.profile
    /\ \/ l = "done" /\ a.call \in {"submit", "review"}
       \/ l \in {"readEvents", "writeScore", "done"} /\ a.call = "adjust"
    => n.approvedCache = TotalOf(n) /\ n.pendingCache = n.pending

AfterScore == {"readProfile", "rereadLevel", "writeLevel", "readCache", "done"} \cup Summing

Scored(l, a, n) ==
    /\ l = "writeScore" => a.score = n.score
    /\ n.profile /\ ((l = "done" /\ a.call = "adjust") \/ (l \in AfterScore /\ a.to = "approved"))
          => n.scoreCache = n.score

Promoted(l, a, n) ==
    /\ l \in {"sumEntries", "sumAdjustments"} /\ a.use = "progress" =>
          n.profile /\ a.score = n.scoreCache /\ a.level = n.level
    /\ l \in {"rereadLevel", "writeLevel"} /\ a.to = "approved" =>
          a.best > n.level /\ a.best >= Best(TotalOf(n), n.score, 0)
    /\ n.profile /\ a.to = "approved"
       /\ (\/ l \in {"readCache", "sumPending", "writeCaches", "done"}
           \/ l \in {"sumEntries", "sumAdjustments"} /\ a.use # "progress")
          => Earned(n)

Known(l, a, n) ==
    Summed(l, a, n) /\ Answering(l, a, n) /\ Refreshed(l, a, n) /\ Scored(l, a, n) /\ Promoted(l, a, n)

Quietly == \A r \in quiet : Known(pc[r], arg[r], Now)

LEMMA NowStays ==
    ASSUME UNCHANGED <<ledger, caches, person>>
    PROVE  Now' = Now
<1>1. entry' = entry /\ impact' = impact /\ adjusted' = adjusted /\ profile' = profile /\ level' = level
      /\ approvedCache' = approvedCache /\ pendingCache' = pendingCache /\ scoreCache' = scoreCache
  BY DEF ledger, caches, person
<1>2. HoursOf("approved")' = HoursOf("approved") /\ HoursOf("pending")' = HoursOf("pending")
  BY <1>1, HoursOfUnchanged
<1>3. Score' = Score
  BY <1>1 DEF Score
<1>4. QED BY <1>1, <1>2, <1>3 DEF Now

\* The call r goes on knowing what it should.
Informed(r) == \E l, a : GoTo(r, l, a) /\ Known(l, a, Now')

\* At most labels a call whose decision was not to approve knows nothing.
LEMMA CallInforms ==
    ASSUME Shape, NEW r \in Requests, Call(r)
    PROVE  Informed(r)
<1>1. CASE ActivateVolunteerProfile(r)
  <2> DEFINE a == [NoArg EXCEPT !.call = "activate"]
  <2>1. GoTo(r, "insertProfile", a)
    BY <1>1 DEF ActivateVolunteerProfile
  <2>2. Known("insertProfile", a, Now')
    BY DEF Known, Summed, Answering, Refreshed, Scored, AfterScore, Promoted, Summing
  <2>3. QED BY <2>1, <2>2 DEF Informed
<1>2. CASE GetApprovedHoursForUser(r)
  <2> DEFINE a == [NoArg EXCEPT !.call = "get", !.use = "answer", !.cache = approvedCache]
  <2>1. GoTo(r, "sumEntries", a) /\ Now' = Now
    BY <1>2, NowStays DEF GetApprovedHoursForUser
  <2>2. a.call = "get" /\ a.use = "answer" /\ a.cache = approvedCache /\ a.to = "none"
    BY DEF NoArg
  <2>3. Now.approvedCache = approvedCache
    BY DEF Now
  <2> HIDE DEF a
  <2>4. Known("sumEntries", a, Now)
    BY <2>2, <2>3 DEF Known, Summed, Answering, Refreshed, Scored, AfterScore, Promoted, Summing
  <2>5. QED BY <2>1, <2>4 DEF Informed
<1>3. CASE \E e \in Entries : SubmitVolunteerHours(r, e)
  <2> DEFINE a == [NoArg EXCEPT !.call = "submit"]
  <2>1. GoTo(r, "sumEntries", a)
    BY <1>3 DEF SubmitVolunteerHours
  <2>2. a.call = "submit" /\ a.use = "refresh" /\ a.to = "none"
    BY DEF NoArg
  <2> HIDE DEF a
  <2>3. Known("sumEntries", a, Now')
    BY <2>2 DEF Known, Summed, Answering, Refreshed, Scored, AfterScore, Promoted, Summing
  <2>4. QED BY <2>1, <2>3 DEF Informed
<1>4. CASE \E e \in Entries, decision \in {"approved", "rejected"} : ReviewVolunteerHours(r, e, decision)
  <2>1. PICK e \in Entries, decision \in {"approved", "rejected"} : ReviewVolunteerHours(r, e, decision)
    BY <1>4
  <2> DEFINE a == [NoArg EXCEPT !.call = "review", !.entry = e, !.to = decision]
  <2>2. GoTo(r, "decide", a)
    BY <2>1 DEF ReviewVolunteerHours
  <2> HIDE DEF a
  <2>3. Known("decide", a, Now')
    BY DEF Known, Summed, Answering, Refreshed, Scored, AfterScore, Promoted, Summing
  <2>4. QED BY <2>2, <2>3 DEF Informed
<1>5. CASE \E e \in Entries, delta \in Deltas : AdjustVolunteerHours(r, e, delta)
  <2>1. PICK e \in Entries, delta \in Deltas : AdjustVolunteerHours(r, e, delta)
    BY <1>5
  <2> DEFINE a == [NoArg EXCEPT !.call = "adjust", !.use = "check", !.delta = delta]
  <2>2. GoTo(r, "sumEntries", a)
    BY <2>1 DEF AdjustVolunteerHours
  <2>3. a.call = "adjust" /\ a.use = "check" /\ a.to = "none"
    BY DEF NoArg
  <2> HIDE DEF a
  <2>4. Known("sumEntries", a, Now')
    BY <2>3 DEF Known, Summed, Answering, Refreshed, Scored, AfterScore, Promoted, Summing
  <2>5. QED BY <2>2, <2>4 DEF Informed
<1>6. CASE \E to \in Levels : AssignProgressionLevel(r, to)
  <2>1. PICK to \in Levels : AssignProgressionLevel(r, to)
    BY <1>6
  <2> DEFINE a == [NoArg EXCEPT !.call = "assign", !.best = to]
  <2>2. GoTo(r, "writeLevel", a)
    BY <2>1 DEF AssignProgressionLevel
  <2>3. a.call = "assign" /\ a.to = "none"
    BY DEF NoArg
  <2> HIDE DEF a
  <2>4. Known("writeLevel", a, Now')
    BY <2>3 DEF Known, Summed, Answering, Refreshed, Scored, AfterScore, Promoted, Summing
  <2>5. QED BY <2>2, <2>4 DEF Informed
<1>7. QED
  BY <1>1, <1>2, <1>3, <1>4, <1>5, <1>6 DEF Call, VolunteerCalls, ReviewerCalls, AdministratorCalls

\* No fact is of the idle.
LEMMA IdleKnows == ASSUME NEW a, NEW n PROVE Known("idle", a, n)
  BY DEF Known, Summed, Answering, Refreshed, Scored, AfterScore, Promoted, Summing

LEMMA WritersInform ==
    ASSUME Shape, NEW r \in Requests,
           InsertProfile(r) \/ WriteDecision(r) \/ InsertImpact(r) \/ InsertAdjustment(r)
    PROVE  Informed(r)
<1> DEFINE l == pc[r]
           a == arg[r]
<1>1. a \in Args /\ LocalsOK(r, l, a)
  BY LocalsAre
<1>2. CASE InsertProfile(r)
  <2>1. a.call = "activate" /\ a.to = "none"
    BY <1>1, <1>2 DEF InsertProfile, LocalsOK
  <2>2. GoTo(r, "idle", NoArg) \/ GoTo(r, "done", a)
    BY <1>2 DEF InsertProfile, Return
  <2> HIDE DEF a
  <2>3. Known("done", a, Now')
    BY <2>1 DEF Known, Summed, Answering, Refreshed, Scored, AfterScore, Promoted, Summing
  <2>4. QED BY <2>2, <2>3, IdleKnows DEF Informed
<1>3. CASE WriteDecision(r)
  <2>1. l = "decide" /\ a.call = "review" /\ a.to # "none"
    BY <1>1, <1>3 DEF WriteDecision, LocalsOK
  <2>2. CASE a.to = "approved"
    <3>1. GoTo(r, "insertImpact", a)
      BY <1>3, <2>2 DEF WriteDecision
    <3>2. Known("insertImpact", a, Now')
      BY DEF Known, Summed, Answering, Refreshed, Scored, AfterScore, Promoted, Summing
    <3>3. QED BY <3>1, <3>2 DEF Informed
  <2>3. CASE a.to # "approved"
    <3> DEFINE b == Forget(a)
               c == [b EXCEPT !.use = "refresh"]
    <3>1. GoTo(r, "sumEntries", c)
      BY <1>3, <2>3 DEF WriteDecision, Recompute
    <3>2. b \in Args /\ Like(b, a)
      BY <1>1, ForgetIsArg
    <3> HIDE DEF a, b
    <3>3. c.call = "review" /\ c.to # "approved" /\ c.use = "refresh"
      BY <2>1, <2>3, <3>2 DEF Args, Like
    <3> HIDE DEF c
    <3>4. Known("sumEntries", c, Now')
      BY <3>3 DEF Known, Summed, Answering, Refreshed, Scored, AfterScore, Promoted, Summing
    <3>5. QED BY <3>1, <3>4 DEF Informed
  <2>4. QED BY <2>2, <2>3
<1>4. CASE InsertImpact(r)
  <2>1. GoTo(r, "readEvents", Forget(a)) /\ a.to = "approved" /\ a.call = "review"
    BY <1>1, <1>4 DEF InsertImpact, LocalsOK
  <2>2. Forget(a).call = "review"
    BY <1>1, <2>1, ForgetIsArg DEF Like
  <2> HIDE DEF a
  <2>3. Known("readEvents", Forget(a), Now')
    BY <2>2 DEF Known, Summed, Answering, Refreshed, Scored, AfterScore, Promoted, Summing
  <2>4. QED BY <2>1, <2>3 DEF Informed
<1>5. CASE InsertAdjustment(r)
  <2> DEFINE b == Forget(a)
             c == [b EXCEPT !.use = "refresh"]
  <2>1. GoTo(r, "sumEntries", c) /\ a.call = "adjust" /\ a.to = "none"
    BY <1>1, <1>5 DEF InsertAdjustment, Recompute, LocalsOK
  <2>2. b \in Args /\ Like(b, a)
    BY <1>1, ForgetIsArg
  <2> HIDE DEF a, b
  <2>3. c.call = "adjust" /\ c.to = "none" /\ c.use = "refresh"
    BY <2>1, <2>2 DEF Args, Like
  <2> HIDE DEF c
  <2>4. Known("sumEntries", c, Now')
    BY <2>3 DEF Known, Summed, Answering, Refreshed, Scored, AfterScore, Promoted, Summing
  <2>5. QED BY <2>1, <2>4 DEF Informed
<1>6. QED BY <1>2, <1>3, <1>4, <1>5

LEMMA NowFields ==
    /\ Now.approved = HoursOf("approved") /\ Now.pending = HoursOf("pending")
    /\ Now.score = Score /\ Now.level = level /\ TotalOf(Now) = Total
    /\ Now.approvedCache = approvedCache /\ Now.pendingCache = pendingCache
    /\ Now.scoreCache = scoreCache
  BY DEF Now, TotalOf, Total

LEMMA NowTyped ==
    ASSUME TablesOK
    PROVE  TotalOf(Now) \in Int /\ Now.score \in Int /\ Now.level \in Levels
<1>1. Total \in Int /\ Score \in Int /\ level \in Levels
  BY SumsTyped DEF TablesOK
<1>2. QED BY <1>1, NowFields

LEMMA PromotersInform ==
    ASSUME Shape, NEW r \in Requests, Known(pc[r], arg[r], Now),
           \/ ReadEvents(r) \/ ReadProfile(r)
           \/ RereadLevel(r) \/ EvaluateAutomaticBadges(r)
    PROVE  Informed(r)
<1> DEFINE l == pc[r]
           a == arg[r]
           n == Now
<1>1. a \in Args /\ LocalsOK(r, l, a) /\ Known(l, a, n)
  BY LocalsAre
<1>2. Now' = n
  BY NowStays DEF ReadEvents, ReadProfile, RereadLevel, EvaluateAutomaticBadges
<1>3. CASE ReadEvents(r)
  <2> DEFINE b == [a EXCEPT !.score = Score]
  <2>1. b.call = a.call /\ b.to = a.to /\ b.score = n.score
    BY <1>1, NowFields DEF Args
  <2>2. GoTo(r, "writeScore", b) /\ l = "readEvents"
    BY <1>3 DEF ReadEvents
  <2> HIDE DEF l, a, b, n
  <2>3. Known("writeScore", b, n)
    BY <1>1, <2>1, <2>2 DEF Known, Summed, Answering, Refreshed, Scored, AfterScore, Promoted, Summing
  <2>4. QED BY <1>2, <2>2, <2>3 DEF Informed
<1>4. CASE ReadProfile(r)
  <2>1. l = "readProfile" /\ a.to = "approved"
    BY <1>1, <1>4 DEF ReadProfile, LocalsOK
  <2>2. CASE ~profile /\ GoTo(r, "readCache", a)
    <3>1. ~n.profile
      BY <2>2 DEF Now
    <3> HIDE DEF l, a, n
    <3>2. Known("readCache", a, n)
      BY <1>1, <2>1, <3>1
         DEF Known, Summed, Answering, Refreshed, Scored, AfterScore, Promoted, Summing,
             Earned, LocalsOK
    <3>3. QED BY <1>2, <2>2, <3>2 DEF Informed
  <2>3. CASE profile /\ GoTo(r, "sumEntries", [a EXCEPT !.use = "progress", !.score = scoreCache, !.level = level])
    <3> DEFINE b == [a EXCEPT !.use = "progress"]
               c == [b EXCEPT !.score = scoreCache]
               d == [c EXCEPT !.level = level]
    <3>1. GoTo(r, "sumEntries", d)
      BY <2>3
    <3>2. b \in Args /\ b.call = a.call /\ b.to = a.to /\ b.use = "progress"
      BY <1>1 DEF Args, Uses
    <3>3. n.profile
      BY <2>3 DEF Now
    <3>4. scoreCache \in Int /\ n.scoreCache = scoreCache /\ n.level = level
      BY NowFields DEF Shape, TablesOK
    <3> HIDE DEF l, a, b, n
    <3>5. c \in Args /\ c.call = b.call /\ c.to = b.to /\ c.use = b.use /\ c.score = n.scoreCache
      BY <3>2, <3>4 DEF Args
    <3> HIDE DEF c
    <3>6. d.call = c.call /\ d.to = c.to /\ d.use = c.use /\ d.score = c.score /\ d.level = n.level
      BY <3>4, <3>5 DEF Args
    <3> HIDE DEF d
    <3>7. Known("sumEntries", d, n)
      BY <1>1, <2>1, <3>2, <3>3, <3>5, <3>6
         DEF Known, Summed, Answering, Refreshed, Scored, AfterScore, Promoted, Summing,
             LocalsOK
    <3>8. QED BY <1>2, <3>1, <3>7 DEF Informed
  <2>4. QED BY <1>4, <2>2, <2>3 DEF ReadProfile
<1>5. CASE RereadLevel(r)
  <2>1. l = "rereadLevel" /\ a.to = "approved" /\ n.level \in Int /\ a.best \in Int
    <3>1. level \in Int /\ a.best \in Int
      BY <1>1 DEF Shape, TablesOK, Args, Levels
    <3>2. QED BY <1>1, <1>5, <3>1, NowFields DEF RereadLevel, LocalsOK
  <2>2. a.best > n.level
    BY <1>1, <2>1 DEF Known, Promoted
  <2>3. GoTo(r, "writeLevel", a)
    BY <1>5, <2>1, <2>2, NowFields DEF RereadLevel
  <2> HIDE DEF l, a, n
  <2>4. Known("writeLevel", a, n)
    BY <1>1, <2>1
       DEF Known, Summed, Answering, Refreshed, Scored, AfterScore, Promoted, Summing, LocalsOK
  <2>5. QED BY <1>2, <2>3, <2>4 DEF Informed
<1>6. CASE EvaluateAutomaticBadges(r)
  <2>1. l = "readCache" /\ a.to = "approved" /\ a.call = "review"
    BY <1>1, <1>6 DEF EvaluateAutomaticBadges, LocalsOK
  <2> DEFINE b == [a EXCEPT !.use = "answer"]
             c == [b EXCEPT !.cache = approvedCache]
  <2>2. GoTo(r, "sumEntries", c)
    BY <1>6 DEF EvaluateAutomaticBadges
  <2>3. b \in Args /\ b.call = a.call /\ b.to = a.to /\ b.use = "answer"
    BY <1>1 DEF Args, Uses
  <2> HIDE DEF l, a, b, n
  <2>4. c.call = b.call /\ c.to = b.to /\ c.use = b.use /\ c.cache = approvedCache
    BY <2>3 DEF Args
  <2> HIDE DEF c
  <2>5. c.cache = n.approvedCache
    BY <2>4, NowFields DEF n
  <2>6. Known("sumEntries", c, n)
    BY <1>1, <2>1, <2>3, <2>4, <2>5
       DEF Known, Summed, Answering, Refreshed, Scored, AfterScore, Promoted, Summing
  <2>7. QED BY <1>2, <2>2, <2>6 DEF Informed
<1>7. QED BY <1>3, <1>4, <1>5, <1>6

\* What follows an answer that is right, the cache with it.
LEMMA AnsweredInforms ==
    ASSUME NEW r, NEW a \in Args, NEW n, Now' = n, Answered(r, a),
           a.to # "none" => a.call = "review",
           a.call \in {"get", "review"},
           a.call = "get" => a.answer = TotalOf(n) /\ (n.profile => n.approvedCache = TotalOf(n)),
           a.to = "approved" /\ n.profile => n.scoreCache = n.score /\ Earned(n)
    PROVE  Informed(r)
<1> DEFINE b == Forget(a)
           c == [b EXCEPT !.use = "refresh"]
<1>1. b \in Args /\ b.call = a.call /\ b.to = a.to /\ b.answer = a.answer
  BY ForgetIsArg DEF Like
<1>2. CASE a.call = "review"
  <2>1. GoTo(r, "sumEntries", c)
    BY <1>2 DEF Answered
  <2> HIDE DEF b
  <2>2. c.call = b.call /\ c.to = b.to /\ c.use = "refresh"
    BY <1>1 DEF Args
  <2> HIDE DEF c
  <2>3. Known("sumEntries", c, n)
    BY <1>1, <1>2, <2>2 DEF Known, Summed, Answering, Refreshed, Scored, AfterScore, Promoted, Summing
  <2>4. QED BY <2>1, <2>3 DEF Informed
<1>3. CASE a.call # "review"
  <2>1. GoTo(r, "done", b) /\ a.call = "get" /\ a.to # "approved"
    BY <1>3 DEF Answered
  <2> HIDE DEF b
  <2>2. Known("done", b, n)
    BY <1>1, <2>1 DEF Known, Summed, Answering, Refreshed, Scored, AfterScore, Promoted, Summing
  <2>3. QED BY <2>1, <2>2 DEF Informed
<1>4. QED BY <1>2, <1>3

LEMMA TotalsInform ==
    ASSUME Shape, NEW r \in Requests, Known(pc[r], arg[r], Now),
           SumEntries(r) \/ SumPending(r) \/ Done(r) \/ Crash(r)
    PROVE  Informed(r)
<1> DEFINE l == pc[r]
           a == arg[r]
           n == Now
<1>1. a \in Args /\ LocalsOK(r, l, a) /\ Known(l, a, n)
  BY LocalsAre
<1>2. Now' = n
  BY NowStays DEF SumEntries, SumPending, Done, Crash
<1>3. CASE SumEntries(r)
  <2> DEFINE b == [a EXCEPT !.total = HoursOf("approved")]
  <2>1. b.call = a.call /\ b.to = a.to /\ b.use = a.use /\ b.total = n.approved
        /\ b.cache = a.cache /\ b.answer = a.answer /\ b.score = a.score /\ b.level = a.level
    BY <1>1, NowFields DEF Args
  <2>2. GoTo(r, "sumAdjustments", b) /\ l = "sumEntries"
    BY <1>3 DEF SumEntries
  <2> HIDE DEF l, a, b, n
  <2>3. Known("sumAdjustments", b, n)
    BY <1>1, <2>1, <2>2 DEF Known, Summed, Answering, Refreshed, Scored, AfterScore, Promoted, Summing
  <2>4. QED BY <1>2, <2>2, <2>3 DEF Informed
<1>4. CASE SumPending(r)
  <2> DEFINE b == [a EXCEPT !.pending = HoursOf("pending")]
  <2>1. b.call = a.call /\ b.to = a.to /\ b.use = a.use /\ b.total = a.total
        /\ b.pending = n.pending /\ b.answer = a.answer
    BY <1>1, NowFields DEF Args
  <2>2. GoTo(r, "writeCaches", b) /\ l = "sumPending"
    BY <1>4 DEF SumPending
  <2> HIDE DEF l, a, b, n
  <2>3. Known("writeCaches", b, n)
    BY <1>1, <2>1, <2>2 DEF Known, Summed, Answering, Refreshed, Scored, AfterScore, Promoted, Summing
  <2>4. QED BY <1>2, <2>2, <2>3 DEF Informed
<1>5. CASE Done(r) \/ Crash(r)
  BY <1>5, IdleKnows DEF Done, Crash, Return, Informed
<1>6. QED BY <1>3, <1>4, <1>5

LEMMA LedgerStays ==
    ASSUME UNCHANGED ledger, profile' = profile
    PROVE  /\ Now'.approved = Now.approved /\ Now'.pending = Now.pending
           /\ Now'.score = Now.score /\ Now'.profile = Now.profile
           /\ TotalOf(Now') = TotalOf(Now)
           /\ Now'.level = level' /\ Now'.approvedCache = approvedCache'
           /\ Now'.pendingCache = pendingCache' /\ Now'.scoreCache = scoreCache'
<1>1. entry' = entry /\ impact' = impact /\ adjusted' = adjusted
  BY DEF ledger
<1>2. HoursOf("approved")' = HoursOf("approved") /\ HoursOf("pending")' = HoursOf("pending")
  BY <1>1, HoursOfUnchanged
<1>3. Score' = Score
  BY <1>1 DEF Score
<1>4. QED BY <1>1, <1>2, <1>3 DEF Now, TotalOf

LEMMA WriteScoreInforms ==
    ASSUME Shape, NEW r \in Requests, Known(pc[r], arg[r], Now), WriteScore(r)
    PROVE  Informed(r)
<1> DEFINE l == pc[r]
           a == arg[r]
           b == Forget(a)
           n == Now
           m == Now'
<1>1. a \in Args /\ LocalsOK(r, l, a) /\ Known(l, a, n)
  BY LocalsAre
<1>2. /\ TotalOf(m) = TotalOf(n) /\ m.pending = n.pending
      /\ m.score = n.score /\ m.profile = n.profile
      /\ m.approvedCache = n.approvedCache /\ m.pendingCache = n.pendingCache
  <2>1. UNCHANGED ledger /\ profile' = profile /\ approvedCache' = approvedCache /\ pendingCache' = pendingCache
    BY DEF WriteScore, person
  <2>2. QED BY <2>1, LedgerStays, NowFields
<1>3. m.profile => m.scoreCache = a.score
  <2>1. m.profile => profile
    BY <1>2 DEF Now
  <2>2. scoreCache' = InProfile(a.score, scoreCache)
    BY DEF WriteScore
  <2>3. m.scoreCache = scoreCache'
    <3>1. UNCHANGED ledger /\ profile' = profile
      BY DEF WriteScore, person
    <3>2. QED BY <3>1, LedgerStays
  <2> HIDE DEF m, a
  <2>4. QED BY <2>1, <2>2, <2>3 DEF InProfile
<1>4. b.call = a.call /\ b.to = a.to
  BY <1>1, ForgetIsArg DEF Like
<1>5. l = "writeScore" /\ GoTo(r, IF a.call = "adjust" THEN "done" ELSE "readProfile", b)
  BY DEF WriteScore
<1> HIDE DEF l, a, b, n, m
<1>6. a.score = n.score
  BY <1>1, <1>5 DEF Known, Scored
<1>7. CASE a.call = "adjust"
  <2>1. Known("done", b, m)
    BY <1>1, <1>2, <1>3, <1>4, <1>5, <1>6, <1>7
       DEF Known, Summed, Answering, Refreshed, Scored, AfterScore, Promoted, Summing, LocalsOK
  <2>2. QED BY <1>5, <1>7, <2>1 DEF Informed, m
<1>8. CASE a.call # "adjust"
  <2>1. Known("readProfile", b, m)
    BY <1>1, <1>2, <1>3, <1>4, <1>5, <1>6, <1>8
       DEF Known, Summed, Answering, Refreshed, Scored, AfterScore, Promoted, Summing
  <2>2. QED BY <1>5, <1>8, <2>1 DEF Informed, m
<1>9. QED BY <1>7, <1>8

LEMMA WriteLevelInforms ==
    ASSUME Shape, NEW r \in Requests, Known(pc[r], arg[r], Now), WriteLevel(r)
    PROVE  Informed(r)
<1> DEFINE l == pc[r]
           a == arg[r]
           b == Forget(a)
           n == Now
           m == Now'
<1>1. a \in Args /\ LocalsOK(r, l, a) /\ Known(l, a, n)
  BY LocalsAre
<1>2. /\ TotalOf(m) = TotalOf(n) /\ m.pending = n.pending
      /\ m.score = n.score /\ m.profile = n.profile
      /\ m.approvedCache = n.approvedCache /\ m.pendingCache = n.pendingCache
      /\ m.scoreCache = n.scoreCache /\ m.level = a.best
  <2>1. UNCHANGED ledger /\ profile' = profile /\ approvedCache' = approvedCache
        /\ pendingCache' = pendingCache /\ scoreCache' = scoreCache /\ level' = a.best
    BY DEF WriteLevel, caches
  <2>2. QED BY <2>1, LedgerStays, NowFields
<1>3. b.call = a.call /\ b.to = a.to
  BY <1>1, ForgetIsArg DEF Like
<1>4. l = "writeLevel"
  BY DEF WriteLevel
<1>5. CASE a.call = "assign"
  <2>1. GoTo(r, "done", a)
    BY <1>5 DEF WriteLevel
  <2>2. a.to = "none"
    BY <1>1, <1>5 DEF LocalsOK
  <2> HIDE DEF l, a, b, n, m
  <2>3. Known("done", a, m)
    BY <1>5, <2>2 DEF Known, Summed, Answering, Refreshed, Scored, AfterScore, Promoted, Summing
  <2>4. QED BY <2>1, <2>3 DEF Informed, m
<1>6. CASE a.call # "assign"
  <2>1. GoTo(r, "readCache", b)
    BY <1>6 DEF WriteLevel
  <2>2. a.to = "approved" /\ a.call = "review"
    BY <1>1, <1>4, <1>6 DEF LocalsOK
  <2> HIDE DEF l, a, b, n, m
  <2>3. a.best >= Best(TotalOf(n), n.score, 0)
    BY <1>1, <1>4, <2>2 DEF Known, Promoted
  <2>4. Earned(m)
    BY <1>2, <2>3 DEF Earned
  <2>5. Known("readCache", b, m)
    BY <1>1, <1>2, <1>3, <1>4, <2>2, <2>4
       DEF Known, Summed, Answering, Refreshed, Scored, AfterScore, Promoted, Summing
  <2>6. QED BY <2>1, <2>5 DEF Informed, m
<1>7. QED BY <1>5, <1>6

LEMMA WriteCachesInforms ==
    ASSUME Shape, NEW r \in Requests, Known(pc[r], arg[r], Now), WriteCaches(r)
    PROVE  Informed(r)
<1> DEFINE l == pc[r]
           a == arg[r]
           b == Forget(a)
           n == Now
           m == Now'
<1>1. a \in Args /\ LocalsOK(r, l, a) /\ Known(l, a, n)
  BY LocalsAre
<1>2. UNCHANGED ledger /\ profile' = profile /\ scoreCache' = scoreCache /\ level' = level
  BY DEF WriteCaches, person
<1>3. /\ TotalOf(m) = TotalOf(n) /\ m.pending = n.pending
      /\ m.score = n.score /\ m.profile = n.profile
      /\ m.scoreCache = n.scoreCache /\ m.level = n.level
  BY <1>2, LedgerStays, NowFields
<1>4. m.profile => m.approvedCache = a.total /\ m.pendingCache = a.pending
  <2>1. m.profile => profile
    BY <1>3 DEF Now
  <2>2. approvedCache' = InProfile(a.total, approvedCache) /\ pendingCache' = InProfile(a.pending, pendingCache)
    BY DEF WriteCaches
  <2>3. m.approvedCache = approvedCache' /\ m.pendingCache = pendingCache'
    BY <1>2, LedgerStays
  <2> HIDE DEF m, a
  <2>4. QED BY <2>1, <2>2, <2>3 DEF InProfile
<1>5. b.call = a.call /\ b.to = a.to
  BY <1>1, ForgetIsArg DEF Like
<1>6. l = "writeCaches"
  BY DEF WriteCaches
<1>7. a.total = TotalOf(n) /\ a.pending = n.pending
  BY <1>1, <1>6 DEF Known, Summed
<1>8. CASE a.use = "repair"
  <2>1. Answered(r, a)
    BY <1>8 DEF WriteCaches, CachesWritten
  <2> HIDE DEF l, a, b, n, m
  <2>2. a.call \in {"get", "review"} /\ (a.to # "none" => a.call = "review")
    BY <1>1, <1>6, <1>8 DEF LocalsOK, Summing
  <2>3. a.call = "get" => a.answer = TotalOf(m)
    BY <1>1, <1>3, <1>6, <1>8 DEF Known, Answering, Summing
  <2>4. m.profile => m.approvedCache = TotalOf(m)
    BY <1>3, <1>4, <1>7
  <2>5. a.to = "approved" /\ m.profile => m.scoreCache = m.score
    BY <1>1, <1>3, <1>6 DEF Known, Scored, AfterScore, Summing
  <2>6. a.to = "approved" /\ m.profile => Earned(n)
    BY <1>1, <1>3, <1>6 DEF Known, Promoted
  <2>7. Earned(n) => Earned(m)
    BY <1>3 DEF Earned
  <2>8. Now' = m
    BY DEF m
  <2>9. QED BY <1>1, <2>1, <2>2, <2>3, <2>4, <2>5, <2>6, <2>7, <2>8, AnsweredInforms
<1>9. CASE a.use # "repair"
  <2>1. GoTo(r, IF a.call = "adjust" THEN "readEvents" ELSE "done", b)
    BY <1>9 DEF WriteCaches, CachesWritten
  <2> HIDE DEF l, a, b, n, m
  <2>2. a.call \in {"submit", "review", "adjust"} /\ (a.to # "none" => a.call = "review")
    BY <1>1, <1>6, <1>9 DEF LocalsOK, Summing
  <2>3. m.profile => m.approvedCache = TotalOf(m) /\ m.pendingCache = m.pending
    BY <1>3, <1>4, <1>7
  <2>4. CASE a.call = "adjust"
    <3>1. Known("readEvents", b, m)
      BY <1>5, <2>2, <2>3, <2>4
         DEF Known, Summed, Answering, Refreshed, Scored, AfterScore, Promoted, Summing
    <3>2. QED BY <2>1, <2>4, <3>1 DEF Informed, m
  <2>5. CASE a.call # "adjust"
    <3>1. a.to = "approved" /\ m.profile => m.scoreCache = m.score
      BY <1>1, <1>3, <1>6 DEF Known, Scored, AfterScore, Summing
    <3>2. a.to = "approved" /\ m.profile => Earned(n)
      BY <1>1, <1>3, <1>6 DEF Known, Promoted
    <3>3. Earned(n) => Earned(m)
      BY <1>3 DEF Earned
    <3>4. Known("done", b, m)
      BY <1>5, <2>2, <2>3, <2>5, <3>1, <3>2, <3>3
         DEF Known, Summed, Answering, Refreshed, Scored, AfterScore, Promoted, Summing
    <3>5. QED BY <2>1, <2>5, <3>4 DEF Informed, m
  <2>6. QED BY <2>4, <2>5
<1>10. QED BY <1>8, <1>9

LEMMA SumAdjustmentsInforms ==
    ASSUME Shape, NEW r \in Requests, Known(pc[r], arg[r], Now), SumAdjustments(r)
    PROVE  Informed(r)
<1> DEFINE l == pc[r]
           a == arg[r]
           n == Now
           total == a.total + adjusted
<1>1. a \in Args /\ LocalsOK(r, l, a) /\ Known(l, a, n)
  BY LocalsAre
<1>2. Now' = n /\ l = "sumAdjustments"
  BY NowStays DEF SumAdjustments
<1>3. total = TotalOf(n)
  <2>1. a.total = HoursOf("approved")
    BY <1>1, <1>2, NowFields DEF Known, Summed
  <2>2. QED BY <2>1, NowFields DEF Total
<1>4. CASE a.use = "check" /\ CheckedAdjust(r, total)
  <2> DEFINE b == [a EXCEPT !.total = 0]
  <2>1. GoTo(r, "idle", NoArg) \/ GoTo(r, "insertAdjustment", b)
    BY <1>4 DEF CheckedAdjust, Return
  <2>2. Known("insertAdjustment", b, n)
    BY DEF Known, Summed, Answering, Refreshed, Scored, AfterScore, Promoted, Summing
  <2>3. QED BY <1>2, <2>1, <2>2, IdleKnows DEF Informed
<1>5. CASE a.use = "answer" /\ Answer(r, total)
  <2> DEFINE b == [a EXCEPT !.answer = IF a.call = "get" THEN total ELSE 0]
             c == Forget(b)
             d == [c EXCEPT !.use = "repair"]
  <2>1. b \in Args
    BY <1>1, <1>3, NowTyped DEF Args, Shape
  <2>2. b.call = a.call /\ b.to = a.to /\ b.cache = a.cache /\ (a.call = "get" => b.answer = total)
    BY <1>1 DEF Args
  <2>3. IF total = b.cache \/ ~profile THEN Answered(r, b) ELSE GoTo(r, "sumEntries", d)
    BY <1>5 DEF Answer
  <2>4. n.profile => profile
    BY DEF Now
  <2>5. a.call \in {"get", "review"} /\ (a.to # "none" => a.call = "review")
    BY <1>1, <1>2, <1>5 DEF LocalsOK, Summing
  <2>6. a.cache = n.approvedCache
    BY <1>1, <1>2, <1>5 DEF Known, Answering
  <2>7. a.to = "approved" /\ n.profile => n.scoreCache = n.score /\ Earned(n)
    BY <1>1, <1>2, <1>5 DEF Known, Scored, AfterScore, Promoted, Summing
  <2> HIDE DEF l, a, n, b, total
  <2>8. CASE total = b.cache \/ ~profile
    <3>1. Answered(r, b)
      BY <2>3, <2>8
    <3>2. a.call = "get" => b.answer = TotalOf(n) /\ (n.profile => n.approvedCache = TotalOf(n))
      BY <1>3, <2>2, <2>4, <2>6, <2>8
    <3>3. QED BY <1>2, <2>1, <2>2, <2>5, <2>7, <3>1, <3>2, AnsweredInforms
  <2>9. CASE ~(total = b.cache \/ ~profile)
    <3>1. GoTo(r, "sumEntries", d)
      BY <2>3, <2>9
    <3>2. c \in Args /\ Like(c, b)
      BY <2>1, ForgetIsArg
    <3> HIDE DEF c
    <3>3. d.call = a.call /\ d.to = a.to /\ d.answer = b.answer /\ d.use = "repair"
      BY <2>2, <3>2 DEF Args, Like
    <3> HIDE DEF d
    <3>4. a.call = "get" => d.answer = TotalOf(n)
      BY <1>3, <2>2, <3>3
    <3>5. Known("sumEntries", d, n)
      BY <2>5, <2>7, <3>3, <3>4
         DEF Known, Summed, Answering, Refreshed, Scored, AfterScore, Promoted, Summing
    <3>6. QED BY <1>2, <3>1, <3>5 DEF Informed
  <2>10. QED BY <2>8, <2>9
<1>6. CASE a.use = "progress" /\ EvaluateAutoProgression(r, total)
  <2> DEFINE best == Best(total, a.score, a.level)
             c == Forget(a)
             d == [c EXCEPT !.best = best]
  <2>1. a.to = "approved" /\ a.call = "review"
    BY <1>1, <1>2, <1>6 DEF LocalsOK, Summing
  <2>2. n.profile /\ n.scoreCache = n.score /\ a.score = n.score /\ a.level = n.level
    BY <1>1, <1>2, <1>6, <2>1 DEF Known, Scored, AfterScore, Promoted, Summing
  <2>3. /\ best \in Levels /\ n.level \in Levels
        /\ best >= n.level /\ best >= Best(TotalOf(n), n.score, 0)
    <3>1. TotalOf(n) \in Int /\ n.score \in Int /\ n.level \in Levels
      BY NowTyped DEF Shape
    <3>2. best = Best(TotalOf(n), n.score, n.level)
      BY <1>3, <2>2
    <3> HIDE DEF best, n
    <3>3. QED BY <3>1, <3>2, BestIs
  <2>4. IF best = a.level THEN GoTo(r, "readCache", c) ELSE GoTo(r, "rereadLevel", d)
    BY <1>6 DEF EvaluateAutoProgression
  <2>5. c \in Args /\ Like(c, a)
    BY <1>1, ForgetIsArg
  <2> HIDE DEF best, l, a, n, c, total
  <2>6. CASE best = a.level
    <3>1. Earned(n)
      BY <2>2, <2>3, <2>6 DEF Earned
    <3>2. Known("readCache", c, n)
      BY <2>1, <2>2, <2>5, <3>1
         DEF Known, Summed, Answering, Refreshed, Scored, AfterScore, Promoted, Summing, Like
    <3>3. QED BY <1>2, <2>4, <2>6, <3>2 DEF Informed
  <2>7. CASE best # a.level
    <3>1. d.call = a.call /\ d.to = a.to /\ d.best = best
      BY <2>3, <2>5 DEF Args, Like
    <3>2. best > n.level
      BY <2>2, <2>3, <2>7 DEF Levels
    <3> HIDE DEF d
    <3>3. Known("rereadLevel", d, n)
      BY <2>1, <2>2, <2>3, <3>1, <3>2
         DEF Known, Summed, Answering, Refreshed, Scored, AfterScore, Promoted, Summing
    <3>4. QED BY <1>2, <2>4, <2>7, <3>3 DEF Informed
  <2>8. QED BY <2>6, <2>7
<1>7. CASE a.use \in {"refresh", "repair"} /\ GoTo(r, "sumPending", [a EXCEPT !.total = total])
  <2> DEFINE b == [a EXCEPT !.total = total]
  <2>1. b.call = a.call /\ b.to = a.to /\ b.use = a.use /\ b.total = total /\ b.answer = a.answer
    BY <1>1 DEF Args
  <2>2. GoTo(r, "sumPending", b)
    BY <1>7
  <2> HIDE DEF l, a, b, n, total
  <2>3. Known("sumPending", b, n)
    BY <1>1, <1>2, <1>3, <1>7, <2>1
       DEF Known, Summed, Answering, Refreshed, Scored, AfterScore, Promoted, Summing
  <2>4. QED BY <1>2, <2>2, <2>3 DEF Informed
<1>8. QED BY <1>4, <1>5, <1>6, <1>7 DEF SumAdjustments

LEMMA StepInforms ==
    ASSUME Shape, NEW r \in Requests, Call(r) \/ Continue(r) \/ Crash(r),
           pc[r] = "idle" \/ Known(pc[r], arg[r], Now)
    PROVE  Informed(r)
<1>1. Known(pc[r], arg[r], Now)
  BY IdleKnows
<1>2. QED
  BY <1>1, CallInforms, WritersInform, PromotersInform, TotalsInform, WriteScoreInforms,
     WriteLevelInforms, WriteCachesInforms, SumAdjustmentsInforms DEF Continue

LEMMA QuietStep ==
    ASSUME Shape, Quietly, NEW r \in Requests, Call(r) \/ Continue(r) \/ Crash(r), Observe(r)
    PROVE  Quietly'
<1>1. SUFFICES ASSUME NEW q \in quiet' PROVE Known(pc'[q], arg'[q], Now')
  BY DEF Quietly
<1>2. q \in Requests
  BY DEF Observe, Shape
<1>3. CASE q = r
  <2>1. pc[r] = "idle" \/ r \in quiet
    BY <1>3 DEF Observe
  <2>2. Informed(r)
    BY <2>1, StepInforms DEF Quietly
  <2>3. PICK l, a : GoTo(r, l, a) /\ Known(l, a, Now')
    BY <2>2 DEF Informed
  <2>4. pc'[r] = l /\ arg'[r] = a
    BY <2>3, GoToMoves
  <2>5. QED BY <1>3, <2>3, <2>4
<1>4. CASE q # r
  <2>1. q \in quiet /\ UNCHANGED <<ledger, caches, person>>
    BY <1>4 DEF Observe
  <2>2. Now' = Now
    BY <2>1, NowStays
  <2>3. \E l, a : GoTo(r, l, a)
    BY StepGoes DEF Goes
  <2>4. pc'[q] = pc[q] /\ arg'[q] = arg[q]
    BY <1>2, <1>4, <2>3, GoToMoves
  <2>5. QED BY <2>1, <2>2, <2>4 DEF Quietly
<1>5. QED BY <1>3, <1>4

LEMMA QuietlyRefreshes == ASSUME Shape, Quietly PROVE QuietCallsRefresh
<1> SUFFICES ASSUME NEW r \in quiet
             PROVE  LET call == arg[r].call
                        approval == arg[r].to = "approved"
                    IN
                    /\ pc[r] = "done" /\ call = "get" => arg[r].answer = Total
                    /\ pc[r] = "done" /\ profile =>
                           /\ call \in {"get", "submit", "review", "adjust"} => approvedCache = Total
                           /\ call \in {"submit", "review", "adjust"} => pendingCache = HoursOf("pending")
                           /\ approval \/ call = "adjust" => scoreCache = Score
                           /\ approval => level >= Best(Total, Score, 0)
                    /\ pc[r] = "writeLevel" /\ approval => arg[r].best > level
  BY DEF QuietCallsRefresh
<1> DEFINE l == pc[r]
           a == arg[r]
           n == Now
<1>1. Known(l, a, n)
  BY DEF Quietly
<1>2. profile => n.profile
  BY DEF Now
<1>3. /\ n.pending = HoursOf("pending") /\ n.score = Score /\ n.level = level
      /\ TotalOf(n) = Total /\ n.approvedCache = approvedCache
      /\ n.pendingCache = pendingCache /\ n.scoreCache = scoreCache
  BY NowFields
<1> HIDE DEF n
<1>4. l = "done" /\ a.call = "get" => a.answer = Total
  BY <1>1, <1>3 DEF Known, Answering
<1>5. l = "done" /\ profile /\ a.call \in {"get", "submit", "review", "adjust"} => approvedCache = Total
  BY <1>1, <1>2, <1>3 DEF Known, Answering, Refreshed
<1>6. l = "done" /\ profile /\ a.call \in {"submit", "review", "adjust"} => pendingCache = HoursOf("pending")
  BY <1>1, <1>2, <1>3 DEF Known, Refreshed
<1>7. l = "done" /\ profile /\ (a.to = "approved" \/ a.call = "adjust") => scoreCache = Score
  BY <1>1, <1>2, <1>3 DEF Known, Scored, AfterScore
<1>8. l = "done" /\ profile /\ a.to = "approved" => level >= Best(Total, Score, 0)
  BY <1>1, <1>2, <1>3 DEF Known, Promoted, Earned
<1>9. l = "writeLevel" /\ a.to = "approved" => a.best > level
  BY <1>1, <1>3 DEF Known, Promoted
<1>10. QED BY <1>4, <1>5, <1>6, <1>7, <1>8, <1>9

\* refreshProfileHourCaches, refreshImpactScore, evaluateAutoProgression: a call
\* during which no other wrote leaves the caches it refreshes exact and the
\* volunteer at no lower level than the rules give, for any hours, rules and calls.
THEOREM QuietRefreshes == Spec => []QuietCallsRefresh
<1> DEFINE Inv == Shape /\ Quietly
<1>1. Init => Inv
  BY ShapeInit DEF Init, Quietly
<1>2. Inv /\ [Next]_vars => Inv'
  <2> SUFFICES ASSUME Shape, Quietly, [Next]_vars PROVE Shape' /\ Quietly'
    OBVIOUS
  <2>1. CASE UNCHANGED vars
    <3>1. Now' = Now /\ pc' = pc /\ arg' = arg /\ quiet' = quiet
      BY <2>1, NowStays DEF vars, callVars, history
    <3>2. QED BY <3>1, ShapeStep DEF Quietly
  <2>2. CASE Next
    BY <2>2, ShapeStep, QuietStep DEF Next
  <2>3. QED BY <2>1, <2>2
<1>3. Inv => QuietCallsRefresh
  BY QuietlyRefreshes
<1>4. QED BY <1>1, <1>2, <1>3, PTL DEF Spec
=============================================================================
