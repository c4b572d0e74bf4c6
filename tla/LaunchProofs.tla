---------------------------- MODULE LaunchProofs ----------------------------
(***************************************************************************)
(* Theorems about Launch, for every table of the settings store, however   *)
(* many pages it takes, and every environment a container may be given.    *)
(***************************************************************************)
EXTENDS Launch, SequenceTheorems, WellFoundedInduction, TLAPS

\* Three scopes, ranked in the order of SCOPES.
LEMMA Ranks ==
  /\ 1..Len(Scopes) = {1, 2, 3}
  /\ Scopes[1] = "*" /\ Scopes[2] = "aida" /\ Scopes[3] = "aida-agent"
  /\ Rank["*"] = 1 /\ Rank["aida"] = 2 /\ Rank["aida-agent"] = 3
<1>1. Len(Scopes) = 3 /\ Scopes[1] = "*" /\ Scopes[2] = "aida" /\ Scopes[3] = "aida-agent"
  BY DEF Scopes
<1>2. \A i \in 1..3 : i = 1 \/ i = 2 \/ i = 3
  OBVIOUS
<1>3. 1..Len(Scopes) = {1, 2, 3}
  BY <1>1, <1>2
<1>4. Rank["*"] = 1 /\ Rank["aida"] = 2 /\ Rank["aida-agent"] = 3
  BY DEF Rank
<1>5. QED
  BY <1>1, <1>3, <1>4

-----------------------------------------------------------------------------
\* resolve

\* The scopes of the loop are those of this worker.
LEMMA ScopesAreScoped == ToSet(Scopes) = {"*", "aida", "aida-agent"}
<1>1. Len(Scopes) = 3 /\ DOMAIN Scopes = 1..3
  BY DEF Scopes
<1>2. QED
  BY <1>1, Ranks DEF ToSet

\* The least number principle, which stands for induction on the rows of a table.
LEMMA LeastNumber ==
  ASSUME NEW T \in SUBSET Nat, T # {}
  PROVE  \E n \in T : \A m \in T : n <= m
<1> DEFINE Less == OpToRel(<, Nat)
<1>1. IsWellFoundedOn(Less, Nat)
  BY NatLessThanWellFounded
<1>2. \A m, n \in Nat : m < n => <<m, n>> \in Less
  BY DEF OpToRel
<1> HIDE DEF Less
<1>3. PICK n \in T : \A m \in T : ~ (<<m, n>> \in Less)
  BY <1>1, WFMin
<1>4. \A m \in T : n <= m
  <2>1. \A m \in T : ~ (m < n)
    BY <1>2, <1>3
  <2>2. \A i, j \in Nat : ~ (i < j) => j <= i
    OBVIOUS
  <2>3. QED
    BY <2>1, <2>2
<1>5. QED
  BY <1>4

\* In the pass over a scope, a row assigns its value to a setting.
Assigns(row, scope, k) == row.app = scope /\ row.key = k /\ row.value # ""

LEMMA AssignAt ==
  ASSUME NEW values, DOMAIN values = Setting, NEW row, NEW scope
  PROVE  /\ DOMAIN Assign(values, row, scope) = Setting
         /\ \A k \in Setting :
              Assign(values, row, scope)[k] = IF Assigns(row, scope, k) THEN row.value ELSE values[k]
<1>1. CASE row.app = scope /\ row.key \in Setting /\ row.value # ""
  BY <1>1 DEF Assign, Assigns
<1>2. CASE ~(row.app = scope /\ row.key \in Setting /\ row.value # "")
  BY <1>2 DEF Assign, Assigns
<1>3. QED
  BY <1>1, <1>2

\* The values after each row, up to row n of the list.
IsRun(after, n, list, scope, values) ==
  after[0] = values /\ \A i \in 1..n : after[i] = Assign(after[i - 1], list[i], scope)

\* The inner loop runs to its end.
LEMMA PassRuns ==
  ASSUME NEW list \in Seq(Row), NEW scope, NEW values
  PROVE  \E after : IsRun(after, Len(list), list, scope, values)
<1> DEFINE Stuck == {n \in 0..Len(list) : ~ \E after : IsRun(after, n, list, scope, values)}
<1>1. Len(list) \in Nat
  BY LenProperties
<1>2. ASSUME Stuck # {} PROVE FALSE
  <2>1. PICK n \in Stuck : \A m \in Stuck : n <= m
    <3>1. Stuck \in SUBSET Nat
      BY <1>1
    <3> HIDE DEF Stuck
    <3>2. QED
      BY <1>2, <3>1, LeastNumber
  <2>2. n \in 0..Len(list) /\ ~ \E after : IsRun(after, n, list, scope, values)
    OBVIOUS
  <2>3. CASE n = 0
    <3> DEFINE blank == [i \in {0} |-> values]
    <3>1. IsRun(blank, 0, list, scope, values)
      BY DEF IsRun
    <3>2. QED
      BY <2>2, <2>3, <3>1
  <2>4. CASE n # 0
    <3>1. n - 1 \in 0..Len(list) /\ ~(n <= n - 1) /\ n \in 1..n
      BY <1>1, <2>2, <2>4
    <3>2. PICK before : IsRun(before, n - 1, list, scope, values)
      BY <2>1, <3>1
    <3> DEFINE after == [i \in 0..n |-> IF i = n THEN Assign(before[n - 1], list[n], scope)
                                                 ELSE before[i]]
    <3>3. after[0] = values /\ after[n] = Assign(before[n - 1], list[n], scope)
          /\ \A i \in 0..n - 1 : after[i] = before[i]
      BY <1>1, <2>2, <2>4, <3>2 DEF IsRun
    <3> HIDE DEF after
    <3>4. ASSUME NEW i \in 1..n PROVE after[i] = Assign(after[i - 1], list[i], scope)
      <4>1. CASE i = n
        <5>1. n - 1 \in 0..n - 1
          BY <1>1, <2>2, <2>4
        <5>2. QED
          BY <3>3, <4>1, <5>1
      <4>2. CASE i # n
        <5>1. i \in 1..n - 1 /\ i \in 0..n - 1 /\ i - 1 \in 0..n - 1
          BY <1>1, <2>2, <3>4, <4>2
        <5>2. QED
          BY <3>2, <3>3, <5>1 DEF IsRun
      <4>3. QED
        BY <4>1, <4>2
    <3>5. QED
      BY <2>2, <3>3, <3>4 DEF IsRun
  <2>5. QED
    BY <2>3, <2>4
<1>3. Len(list) \in 0..Len(list)
  BY <1>1
<1>4. QED
  BY <1>2, <1>3

LEMMA PassIsRun ==
  ASSUME NEW list \in Seq(Row), NEW scope, NEW values
  PROVE  \E after : /\ IsRun(after, Len(list), list, scope, values)
                    /\ Pass(list, scope, values) = after[Len(list)]
<1> DEFINE after[i \in 0..Len(list)] ==
             IF i = 0 THEN values ELSE Assign(after[i - 1], list[i], scope)
           Loop(f) == f = [i \in 0..Len(list) |->
                             IF i = 0 THEN values ELSE Assign(f[i - 1], list[i], scope)]
<1>1. Len(list) \in Nat
  BY LenProperties
<1>2. PICK run : IsRun(run, Len(list), list, scope, values)
  BY PassRuns
<1>3. \E f : Loop(f)
  <2> DEFINE f == [i \in 0..Len(list) |-> run[i]]
  <2>1. ASSUME NEW i \in 0..Len(list)
        PROVE  f[i] = IF i = 0 THEN values ELSE Assign(f[i - 1], list[i], scope)
    <3>1. CASE i = 0
      BY <1>2, <2>1, <3>1 DEF IsRun
    <3>2. CASE i # 0
      <4>1. i \in 1..Len(list) /\ i - 1 \in 0..Len(list)
        BY <1>1, <2>1, <3>2
      <4>2. QED
        BY <1>2, <3>2, <4>1 DEF IsRun
    <3>3. QED
      BY <3>1, <3>2
  <2>2. Loop(f)
    BY <2>1
  <2>3. QED
    BY <2>2
<1>4. Loop(after)
  BY <1>3
<1>5. Pass(list, scope, values) = after[Len(list)]
  BY DEF Pass
<1> HIDE DEF after
<1>6. IsRun(after, Len(list), list, scope, values)
  <2>1. 0 \in 0..Len(list) /\ \A i \in 1..Len(list) : i \in 0..Len(list) /\ i # 0
    BY <1>1
  <2>2. QED
    BY <1>4, <2>1 DEF IsRun
<1>7. QED
  BY <1>5, <1>6


\* The pass over a scope leaves in each setting the value of its last row there, and
\* what was there before when it has none.
LEMMA PassAt ==
  ASSUME NEW list \in Seq(Row), NEW scope, NEW values, DOMAIN values = Setting
  PROVE  /\ DOMAIN Pass(list, scope, values) = Setting
         /\ \A k \in Setting :
              \/ /\ Pass(list, scope, values)[k] = values[k]
                 /\ \A j \in 1..Len(list) : ~Assigns(list[j], scope, k)
              \/ \E j \in 1..Len(list) :
                   /\ Assigns(list[j], scope, k) /\ Pass(list, scope, values)[k] = list[j].value
                   /\ \A l \in j + 1..Len(list) : ~Assigns(list[l], scope, k)
<1>1. Len(list) \in Nat
  BY LenProperties
<1>2. PICK after : /\ IsRun(after, Len(list), list, scope, values)
                   /\ Pass(list, scope, values) = after[Len(list)]
  BY PassIsRun
<1> DEFINE LastOne(n, k, j) ==
             /\ Assigns(list[j], scope, k) /\ after[n][k] = list[j].value
             /\ \A l \in j + 1..n : ~Assigns(list[l], scope, k)
           None(n, k) == after[n][k] = values[k] /\ \A j \in 1..n : ~Assigns(list[j], scope, k)
           Holds(n) == /\ DOMAIN after[n] = Setting
                       /\ \A k \in Setting : None(n, k) \/ \E j \in 1..n : LastOne(n, k, j)
           Wrong == {n \in 0..Len(list) : ~Holds(n)}
<1>3. Holds(0)
  <2>1. after[0] = values
    BY <1>2 DEF IsRun
  <2>2. \A j \in 1..0 : FALSE
    OBVIOUS
  <2>3. QED
    BY <2>1, <2>2
<1>4. ASSUME NEW n \in 1..Len(list), Holds(n - 1) PROVE Holds(n)
  <2>1. n \in Nat /\ n - 1 \in Nat /\ n - 1 + 1 = n
    BY <1>1
  <2>2. after[n] = Assign(after[n - 1], list[n], scope)
    BY <1>2 DEF IsRun
  <2>3. DOMAIN after[n - 1] = Setting
    BY <1>4
  <2>4. /\ DOMAIN after[n] = Setting
        /\ \A k \in Setting :
             after[n][k] = IF Assigns(list[n], scope, k) THEN list[n].value ELSE after[n - 1][k]
    BY <2>2, <2>3, AssignAt
  <2>5. ASSUME NEW k \in Setting PROVE None(n, k) \/ \E j \in 1..n : LastOne(n, k, j)
    <3>1. CASE Assigns(list[n], scope, k)
      <4>1. n \in 1..n /\ \A l \in n + 1..n : FALSE
        BY <2>1
      <4>2. LastOne(n, k, n)
        BY <2>4, <3>1, <4>1
      <4>3. QED
        BY <4>1, <4>2
    <3>2. CASE ~Assigns(list[n], scope, k)
      <4>1. after[n][k] = after[n - 1][k]
        BY <2>4, <3>2
      <4>2. CASE None(n - 1, k)
        <5>1. \A j \in 1..n : j = n \/ j \in 1..n - 1
          BY <2>1
        <5>2. QED
          BY <3>2, <4>1, <4>2, <5>1
      <4>3. ASSUME NEW j \in 1..n - 1, LastOne(n - 1, k, j) PROVE \E i \in 1..n : LastOne(n, k, i)
        <5>1. j \in 1..n /\ \A l \in j + 1..n : l = n \/ l \in j + 1..n - 1
          BY <2>1
        <5>2. LastOne(n, k, j)
          BY <3>2, <4>1, <4>3, <5>1
        <5>3. QED
          BY <5>1, <5>2
      <4>4. QED
        BY <1>4, <4>2, <4>3
    <3>3. QED
      BY <3>1, <3>2
  <2>6. QED
    BY <2>4, <2>5
<1> HIDE DEF Holds
<1>5. Wrong = {}
  <2> SUFFICES ASSUME Wrong # {} PROVE FALSE
    OBVIOUS
  <2>1. PICK n \in Wrong : \A m \in Wrong : n <= m
    <3>1. Wrong \in SUBSET Nat
      BY <1>1
    <3> HIDE DEF Wrong
    <3>2. QED
      BY <3>1, LeastNumber
  <2>2. n \in 0..Len(list) /\ ~Holds(n)
    OBVIOUS
  <2>3. n # 0
    BY <1>3, <2>2
  <2>4. n \in 1..Len(list) /\ n - 1 \in 0..Len(list) /\ ~(n <= n - 1)
    BY <1>1, <2>2, <2>3
  <2>5. Holds(n - 1)
    BY <2>1, <2>4
  <2>6. QED
    BY <1>4, <2>2, <2>4, <2>5
<1>6. Holds(Len(list))
  <2>1. Len(list) \in 0..Len(list)
    BY <1>1
  <2>2. QED
    BY <1>5, <2>1
<1>7. QED
  BY <1>2, <1>6 DEF Holds

\* What the loop over the scopes resolves for a setting: nothing when no row of a scope
\* assigns it, or else the value of the last row of the most specific scope that does.
THEOREM ResolveAt ==
  ASSUME NEW list \in Seq(Row), NEW k \in Setting
  PROVE  \/ /\ Resolve(list)[k] = ""
            /\ \A j \in 1..Len(list), scope \in ToSet(Scopes) : ~Assigns(list[j], scope, k)
         \/ \E j \in 1..Len(list), scope \in ToSet(Scopes) :
              /\ Assigns(list[j], scope, k) /\ Resolve(list)[k] = list[j].value
              /\ \A l \in 1..Len(list), other \in ToSet(Scopes) :
                   Assigns(list[l], other, k) =>
                     Rank[other] < Rank[scope] \/ (other = scope /\ l <= j)
<1> DEFINE unset == [i \in Setting |-> ""]
           general == Pass(list, Scopes[1], unset)
           group == Pass(list, Scopes[2], general)
           None(scope) == \A j \in 1..Len(list) : ~Assigns(list[j], scope, k)
           Takes(scope, j, values) ==
             /\ Assigns(list[j], scope, k) /\ values[k] = list[j].value
             /\ \A l \in j + 1..Len(list) : ~Assigns(list[l], scope, k)
           Wins(scope, j) ==
             /\ Assigns(list[j], scope, k) /\ Resolve(list)[k] = list[j].value
             /\ \A l \in 1..Len(list), other \in ToSet(Scopes) :
                  Assigns(list[l], other, k) =>
                    Rank[other] < Rank[scope] \/ (other = scope /\ l <= j)
<1>1. Resolve(list) = Pass(list, Scopes[3], group)
  BY DEF Resolve
<1>2. DOMAIN unset = Setting
  OBVIOUS
<1>3. unset[k] = ""
  OBVIOUS
<1> HIDE DEF unset
<1>4. /\ DOMAIN general = Setting
      /\ (general[k] = unset[k] /\ None(Scopes[1]))
           \/ \E j \in 1..Len(list) : Takes(Scopes[1], j, general)
  BY <1>2, PassAt
<1> HIDE DEF general
<1>5. /\ DOMAIN group = Setting
      /\ (group[k] = general[k] /\ None(Scopes[2]))
           \/ \E j \in 1..Len(list) : Takes(Scopes[2], j, group)
  BY <1>4, PassAt
<1> HIDE DEF group
<1>6. (Resolve(list)[k] = group[k] /\ None(Scopes[3]))
        \/ \E j \in 1..Len(list) : Takes(Scopes[3], j, Resolve(list))
  BY <1>1, <1>5, PassAt
<1>7. Len(list) \in Nat /\ ToSet(Scopes) = {Scopes[1], Scopes[2], Scopes[3]}
  BY LenProperties, Ranks DEF ToSet, Scopes
<1>8. Rank[Scopes[1]] = 1 /\ Rank[Scopes[2]] = 2 /\ Rank[Scopes[3]] = 3
  BY Ranks
<1>9. ASSUME NEW i \in {1, 2, 3}, NEW j \in 1..Len(list), NEW values,
             Takes(Scopes[i], j, values), Resolve(list)[k] = values[k],
             \A m \in {1, 2, 3} : m > i => None(Scopes[m])
      PROVE  Wins(Scopes[i], j)
  <2>1. ASSUME NEW l \in 1..Len(list), NEW m \in {1, 2, 3}, Assigns(list[l], Scopes[m], k)
        PROVE  Rank[Scopes[m]] < Rank[Scopes[i]] \/ (Scopes[m] = Scopes[i] /\ l <= j)
    <3>1. ~(m > i)
      BY <1>9, <2>1
    <3>2. CASE m < i
      BY <1>8, <3>2
    <3>3. CASE m = i
      <4>1. l \notin j + 1..Len(list)
        BY <1>9, <2>1, <3>3
      <4>2. QED
        BY <1>7, <3>3, <4>1
    <3>4. QED
      BY <3>1, <3>2, <3>3
  <2>2. QED
    BY <1>7, <1>9, <2>1
<1> HIDE DEF Wins
<1>10. \/ Resolve(list)[k] = unset[k] /\ None(Scopes[1]) /\ None(Scopes[2]) /\ None(Scopes[3])
       \/ \E j \in 1..Len(list) : Takes(Scopes[3], j, Resolve(list))
       \/ None(Scopes[3]) /\ Resolve(list)[k] = group[k]
          /\ \E j \in 1..Len(list) : Takes(Scopes[2], j, group)
       \/ None(Scopes[2]) /\ None(Scopes[3]) /\ Resolve(list)[k] = general[k]
          /\ \E j \in 1..Len(list) : Takes(Scopes[1], j, general)
  BY <1>4, <1>5, <1>6
<1>11. CASE Resolve(list)[k] = unset[k] /\ None(Scopes[1]) /\ None(Scopes[2]) /\ None(Scopes[3])
  BY <1>7, <1>11, <1>3
<1> HIDE DEF None, Takes
<1>12. ASSUME NEW j \in 1..Len(list), Takes(Scopes[3], j, Resolve(list)) PROVE Wins(Scopes[3], j)
  BY <1>9, <1>12
<1>13. ASSUME NEW j \in 1..Len(list), None(Scopes[3]), Resolve(list)[k] = group[k],
              Takes(Scopes[2], j, group)
       PROVE  Wins(Scopes[2], j)
  <2>1. \A m \in {1, 2, 3} : m > 2 => m = 3
    OBVIOUS
  <2>2. QED
    BY <1>9, <1>13, <2>1
<1>14. ASSUME NEW j \in 1..Len(list), None(Scopes[2]), None(Scopes[3]),
              Resolve(list)[k] = general[k], Takes(Scopes[1], j, general)
       PROVE  Wins(Scopes[1], j)
  <2>1. \A m \in {1, 2, 3} : m > 1 => m = 2 \/ m = 3
    OBVIOUS
  <2>2. QED
    BY <1>9, <1>14, <2>1
<1>15. CASE \E scope \in ToSet(Scopes), j \in 1..Len(list) : Wins(scope, j)
  BY <1>15 DEF Wins
<1>16. QED
  BY <1>7, <1>10, <1>11, <1>12, <1>13, <1>14, <1>15

\* What is resolved for a setting stands in a row of this worker.
LEMMA ResolvedFromRows ==
  ASSUME NEW list \in Seq(Row), NEW k \in Setting
  PROVE  Resolve(list)[k] # "" =>
           \E row \in ToSet(list) : Scoped(row) /\ row.key = k /\ row.value = Resolve(list)[k]
<1>1. ASSUME NEW j \in 1..Len(list), NEW scope \in ToSet(Scopes), Assigns(list[j], scope, k),
             Resolve(list)[k] = list[j].value
      PROVE  \E row \in ToSet(list) :
               Scoped(row) /\ row.key = k /\ row.value = Resolve(list)[k]
  <2>1. list[j] \in ToSet(list)
    BY <1>1, LenProperties DEF ToSet
  <2>2. list[j].app = scope /\ list[j].key = k
    BY <1>1 DEF Assigns
  <2>3. Scoped(list[j])
    BY <2>2, ScopesAreScoped DEF Scoped
  <2>4. QED
    BY <1>1, <2>1, <2>2, <2>3
<1>2. QED
  BY <1>1, ResolveAt

\* resolve computes what README promises of it, the most specific row that is not
\* blank, for every table without duplicate keys.
THEOREM ResolvesToEffective ==
  ASSUME table \in Seq(Row), ~Duplicated(table), NEW k \in Setting
  PROVE  Resolve(table)[k] = Effective(k)
<1> DEFINE found == {row \in ToSet(table) : Scoped(row) /\ row.key = k /\ row.value # ""}
           top == CHOOSE row \in found : \A r \in found : Rank[r.app] <= Rank[row.app]
<1>1. Effective(k) = IF found = {} THEN "" ELSE top.value
  BY DEF Effective
<1>2. \A row \in found :
        /\ \E j \in 1..Len(table) : row = table[j] /\ Assigns(table[j], row.app, k)
        /\ row.app \in ToSet(Scopes)
  <2> SUFFICES ASSUME NEW row \in found
               PROVE  /\ \E j \in 1..Len(table) : row = table[j] /\ Assigns(table[j], row.app, k)
                      /\ row.app \in ToSet(Scopes)
    OBVIOUS
  <2>1. PICK j \in 1..Len(table) : row = table[j]
    BY LenProperties DEF ToSet
  <2>2. Assigns(table[j], row.app, k)
    BY <2>1 DEF Assigns
  <2>3. row.app \in ToSet(Scopes)
    BY ScopesAreScoped DEF Scoped
  <2>4. QED
    BY <2>1, <2>2, <2>3
<1>3. ASSUME NEW j \in 1..Len(table), NEW scope \in ToSet(Scopes), Assigns(table[j], scope, k)
      PROVE  table[j] \in found /\ table[j].app = scope
  <2>1. table[j] \in ToSet(table)
    BY LenProperties DEF ToSet
  <2>2. table[j].app = scope /\ table[j].key = k /\ table[j].value # ""
    BY <1>3 DEF Assigns
  <2>3. Scoped(table[j])
    BY <2>2, ScopesAreScoped DEF Scoped
  <2>4. QED
    BY <2>1, <2>2, <2>3
<1>4. CASE \A j \in 1..Len(table), scope \in ToSet(Scopes) : ~Assigns(table[j], scope, k)
  <2>1. found = {}
    BY <1>2, <1>4
  <2>2. Resolve(table)[k] = ""
    BY <1>4, ResolveAt
  <2>3. QED
    BY <1>1, <2>1, <2>2
<1>5. CASE \E j \in 1..Len(table), scope \in ToSet(Scopes) :
             /\ Assigns(table[j], scope, k) /\ Resolve(table)[k] = table[j].value
             /\ \A l \in 1..Len(table), other \in ToSet(Scopes) :
                  Assigns(table[l], other, k) =>
                    Rank[other] < Rank[scope] \/ (other = scope /\ l <= j)
  <2>1. PICK j \in 1..Len(table), scope \in ToSet(Scopes) :
             /\ Assigns(table[j], scope, k) /\ Resolve(table)[k] = table[j].value
             /\ \A l \in 1..Len(table), other \in ToSet(Scopes) :
                  Assigns(table[l], other, k) =>
                    Rank[other] < Rank[scope] \/ (other = scope /\ l <= j)
    BY <1>5
  <2>2. table[j] \in found /\ table[j].app = scope
    BY <1>3, <2>1
  <2> HIDE DEF found
  <2>3. \A s \in ToSet(Scopes) : Rank[s] \in {1, 2, 3}
    BY Ranks DEF ToSet, Scopes
  <2>4. \A r \in found : Rank[r.app] <= Rank[scope]
    <3> SUFFICES ASSUME NEW r \in found PROVE Rank[r.app] <= Rank[scope]
      OBVIOUS
    <3>1. PICK l \in 1..Len(table) : r = table[l] /\ Assigns(table[l], r.app, k)
      BY <1>2
    <3>2. r.app \in ToSet(Scopes)
      BY <1>2
    <3>3. Rank[r.app] < Rank[scope] \/ r.app = scope
      BY <2>1, <3>1, <3>2
    <3>4. QED
      BY <2>3, <3>2, <3>3
  <2>5. top \in found /\ \A r \in found : Rank[r.app] <= Rank[top.app]
    BY <2>2, <2>4
  <2> HIDE DEF top
  <2>6. PICK l \in 1..Len(table) : top = table[l] /\ Assigns(table[l], top.app, k)
    BY <1>2, <2>5
  <2>7. top.app \in ToSet(Scopes) /\ ~(Rank[top.app] < Rank[scope])
    BY <1>2, <2>2, <2>3, <2>5
  <2>8. top.app = scope
    BY <2>1, <2>6, <2>7
  <2>9. l = j
    <3>1. Assigns(table[l], scope, k) /\ Scoped(table[l])
      BY <2>6, <2>8, ScopesAreScoped DEF Scoped
    <3>2. Scoped(table[j])
      BY <2>2, ScopesAreScoped DEF Scoped
    <3>3. table[l].app = table[j].app /\ table[l].key = table[j].key
      BY <2>1, <3>1 DEF Assigns
    <3>4. l \in DOMAIN table /\ j \in DOMAIN table /\ l \in Nat /\ j \in Nat
      BY LenProperties
    <3>5. ~(l < j) /\ ~(j < l)
      BY <3>1, <3>2, <3>3, <3>4 DEF Duplicated
    <3>6. QED
      BY <3>4, <3>5
  <2>10. QED
    BY <1>1, <2>1, <2>2, <2>6, <2>9
<1>6. QED
  BY <1>4, <1>5, ResolveAt

-----------------------------------------------------------------------------
\* The table and its pages

\* A page holds the rows behind its offset, as many as there are up to PageSize.
LEMMA PageRows ==
  ASSUME table \in Seq(Row), NEW offset \in Nat
  PROVE  /\ Page(offset) \in Seq(Row)
         /\ Len(Page(offset)) \in Nat
         /\ offset <= Len(table) =>
              /\ offset + Len(Page(offset)) <= Len(table)
              /\ Len(Page(offset)) < PageSize => offset + Len(Page(offset)) = Len(table)
              /\ offset + PageSize >= Len(table) => offset + Len(Page(offset)) = Len(table)
         /\ \A i \in 1..Len(Page(offset)) :
              Page(offset)[i] = table[offset + i] /\ offset + i \in 1..Len(table)
<1> DEFINE stop == IF offset + PageSize < Len(table) THEN offset + PageSize ELSE Len(table)
<1>1. PageSize \in Nat \ {0} /\ Len(table) \in Nat
  BY LaunchBounds, LenProperties
<1>2. stop \in Nat /\ stop <= Len(table) /\ stop <= offset + PageSize
  BY <1>1
<1>3. Page(offset) = SubSeq(table, offset + 1, stop)
  BY DEF Page
<1> HIDE DEF stop
<1>4. \A i \in (offset + 1)..stop : table[i] \in Row
  <2>1. \A i \in (offset + 1)..stop : i \in 1..Len(table)
    BY <1>1, <1>2
  <2>2. QED
    BY <2>1, ElementOfSeq
<1>5. offset + 1 \in Int /\ stop \in Int
  BY <1>2
<1>6. /\ SubSeq(table, offset + 1, stop) \in Seq(Row)
      /\ Len(SubSeq(table, offset + 1, stop)) =
           IF offset + 1 <= stop THEN stop - (offset + 1) + 1 ELSE 0
      /\ \A i \in 1..(stop - (offset + 1) + 1) :
           SubSeq(table, offset + 1, stop)[i] = table[(offset + 1) + i - 1]
  BY <1>4, <1>5, SubSeqProperties
<1>7. Len(Page(offset)) = IF offset <= stop THEN stop - offset ELSE 0
  BY <1>2, <1>3, <1>6
<1>8. ASSUME NEW i \in 1..Len(Page(offset))
      PROVE  Page(offset)[i] = table[offset + i] /\ offset + i \in 1..Len(table)
  <2>1. i \in 1..(stop - (offset + 1) + 1) /\ (offset + 1) + i - 1 = offset + i
    BY <1>2, <1>7
  <2>2. offset + i \in 1..Len(table)
    BY <1>1, <1>2, <1>7
  <2>3. QED
    BY <1>3, <1>6, <2>1, <2>2
<1>9. offset <= Len(table) =>
        /\ offset + Len(Page(offset)) <= Len(table)
        /\ Len(Page(offset)) < PageSize => offset + Len(Page(offset)) = Len(table)
        /\ offset + PageSize >= Len(table) => offset + Len(Page(offset)) = Len(table)
  BY <1>1, <1>2, <1>7 DEF stop
<1>10. Page(offset) \in Seq(Row)
  BY <1>3, <1>6
<1>11. Len(Page(offset)) \in Nat
  BY <1>10, LenProperties
<1>12. QED
  BY <1>8, <1>9, <1>10, <1>11

\* What an administrator leaves is a table again.
LEMMA EditType ==
  ASSUME table \in Seq(Row), Edit
  PROVE  table' \in Seq(Row)
<1>1. ASSUME NEW m \in Int, NEW n \in Int, 1 <= m, n <= Len(table)
      PROVE  SubSeq(table, m, n) \in Seq(Row)
  <2>1. \A i \in m..n : table[i] \in Row
    <3>1. \A i \in m..n : i \in 1..Len(table)
      BY <1>1, LenProperties
    <3>2. QED
      BY <3>1, ElementOfSeq
  <2>2. QED
    BY <2>1, SubSeqProperties
<1>2. Len(table) \in Nat /\ DOMAIN table = 1..Len(table)
  BY LenProperties
<1>3. ASSUME NEW i \in 1..(Len(table) + 1), NEW row \in Row
      PROVE  InsertAt(table, i, row) \in Seq(Row)
  <2>1. i \in Int /\ i - 1 \in Int /\ i - 1 <= Len(table) /\ 1 <= i
    BY <1>2
  <2>2. SubSeq(table, 1, i - 1) \in Seq(Row) /\ SubSeq(table, i, Len(table)) \in Seq(Row)
    BY <1>1, <1>2, <2>1
  <2>3. <<row>> \in Seq(Row)
    OBVIOUS
  <2>4. QED
    BY <2>2, <2>3, ConcatProperties DEF InsertAt
<1>4. ASSUME NEW i \in DOMAIN table
      PROVE  RemoveAt(table, i) \in Seq(Row)
  <2>1. i \in Int /\ i - 1 \in Int /\ i - 1 <= Len(table) /\ i + 1 \in Int /\ 1 <= i + 1
    BY <1>2
  <2>2. SubSeq(table, 1, i - 1) \in Seq(Row) /\ SubSeq(table, i + 1, Len(table)) \in Seq(Row)
    BY <1>1, <1>2, <2>1
  <2>3. QED
    BY <2>2, ConcatProperties DEF RemoveAt
<1>5. ASSUME NEW i \in DOMAIN table, NEW row \in Row
      PROVE  [table EXCEPT ![i] = row] \in Seq(Row)
  BY <1>2, ExceptSeq
<1>6. QED
  BY <1>3, <1>4, <1>5 DEF Edit
-----------------------------------------------------------------------------
\* The invariant

LEMMA InitLaunch == Init => TypeOK /\ LaunchInv
<1> SUFFICES ASSUME Init PROVE TypeOK /\ LaunchInv
  OBVIOUS
<1>1. table \in Seq(Row) /\ rows \in Seq(Row)
  <2>1. PICK n \in 0..MaxRows : table \in [1..n -> Row]
    BY DEF Init
  <2>2. n \in Nat
    BY <2>1, LaunchBounds
  <2>3. QED
    BY <2>1, <2>2, EmptySeq DEF Init
<1>2. Setting \cup {"LOGSTORE_KEY_FILE"} \subseteq DOMAIN env
  BY OwnAssumption DEF Init
<1>3. TypeOK
  BY <1>1, <1>2 DEF Init, TypeOK
<1>4. QED
  BY <1>3 DEF Init, LaunchInv, RowsWereOffered, ReadsThePrefix, SettingsComeFromStore,
              QuietLaunchResolves, LogsOnlyWhenUsable

\* A launch that is over has nothing to answer for but its logging.
LEMMA EndsLaunch ==
  ASSUME TypeOK, NEW state \in {"off", "serving", "exited"}, NEW environ,
         Setting \cup {"LOGSTORE_KEY_FILE"} \subseteq DOMAIN environ,
         Ends(state, environ), UNCHANGED <<storeVars, containerVars>>
  PROVE  TypeOK' /\ (LogsOnlyWhenUsable' => LaunchInv')
<1> USE DEF Ends, storeVars, containerVars
<1>1. Setting \cup {"LOGSTORE_KEY_FILE"} \subseteq DOMAIN env'
  BY OwnAssumption DEF TypeOK
<1>2. rows' = <<>> /\ <<>> \in Seq(Row)
  BY EmptySeq
<1>3. TypeOK'
  BY <1>1, <1>2 DEF TypeOK
<1>4. pc' \notin {"fetching", "resolving", "applied"}
  OBVIOUS
<1>5. QED
  BY <1>2, <1>3, <1>4 DEF LaunchInv, RowsWereOffered, ReadsThePrefix, SettingsComeFromStore,
                          QuietLaunchResolves

LEMMA LaunchStep ==
  ASSUME TypeOK, LaunchInv, Launch
  PROVE  TypeOK' /\ LaunchInv'
<1> USE DEF Launch, storeVars, containerVars
<1>1. TypeOK'
  BY DEF TypeOK
<1>2. rows = <<>>
  BY DEF LaunchInv, RowsWereOffered
<1>3. ToSet(table)' = ToSet(table) /\ ToSet(rows)' = {}
  BY <1>2 DEF ToSet
<1>4. RowsWereOffered'
  BY <1>3 DEF RowsWereOffered
<1>5. ReadsThePrefix'
  <2>1. Len(table) \in Nat
    BY LenProperties DEF TypeOK
  <2>2. Len(rows') = 0 /\ Len(rows') <= Len(table')
    BY <1>2, <2>1
  <2>3. QED
    BY <2>2 DEF ReadsThePrefix
<1>6. QED
  BY <1>1, <1>4, <1>5 DEF LaunchInv, SettingsComeFromStore, QuietLaunchResolves,
                          LogsOnlyWhenUsable

LEMMA FetchPageStep ==
  ASSUME TypeOK, LaunchInv, FetchPage
  PROVE  TypeOK' /\ LaunchInv'
<1> DEFINE page == Page(Len(rows))
<1>1. table \in Seq(Row) /\ rows \in Seq(Row)
  BY DEF TypeOK
<1>2. Len(rows) \in Nat /\ Len(table) \in Nat
  BY <1>1, LenProperties
<1>3. /\ page \in Seq(Row) /\ Len(page) \in Nat
      /\ Len(rows) <= Len(table) =>
           /\ Len(rows) + Len(page) <= Len(table)
           /\ Len(page) < PageSize => Len(rows) + Len(page) = Len(table)
           /\ Len(rows) + PageSize >= Len(table) => Len(rows) + Len(page) = Len(table)
      /\ \A i \in 1..Len(page) : page[i] = table[Len(rows) + i] /\ Len(rows) + i \in 1..Len(table)
  BY <1>1, <1>2, PageRows
<1>4. /\ rows' = rows \o page
      /\ \/ Len(page) < PageSize /\ pc' = "resolving"
         \/ Len(page) = PageSize /\ pc' = "fetching"
         \/ Len(page) = PageSize /\ Len(rows) + PageSize >= Len(table) /\ pc' = "resolving"
      /\ pc = "fetching"
      /\ UNCHANGED <<table, edits, reachable, command, own, library, tmp, env, offered, untouched>>
  BY DEF FetchPage, storeVars, containerVars
<1> HIDE DEF page
<1>5. /\ rows' \in Seq(Row) /\ Len(rows') = Len(rows) + Len(page)
      /\ \A i \in 1..(Len(rows) + Len(page)) :
           rows'[i] = IF i <= Len(rows) THEN rows[i] ELSE page[i - Len(rows)]
  BY <1>1, <1>3, <1>4, ConcatProperties
<1>6. TypeOK'
  BY <1>4, <1>5 DEF TypeOK
<1>7. RowsWereOffered'
  <2>1. ToSet(rows) \subseteq offered /\ ToSet(table) \subseteq offered
    BY <1>4 DEF LaunchInv, RowsWereOffered
  <2>2. ASSUME NEW i \in 1..Len(rows') PROVE rows'[i] \in offered
    <3>1. CASE i <= Len(rows)
      <4>1. i \in DOMAIN rows
        BY <1>1, <1>2, <3>1, LenProperties
      <4>2. QED
        BY <1>5, <2>1, <2>2, <3>1, <4>1 DEF ToSet
    <3>2. CASE ~(i <= Len(rows))
      <4>1. i - Len(rows) \in 1..Len(page) /\ Len(rows) + (i - Len(rows)) = i
        BY <1>2, <1>3, <1>5, <2>2, <3>2
      <4>2. rows'[i] = table[i] /\ i \in 1..Len(table)
        BY <1>3, <1>5, <2>2, <3>2, <4>1
      <4>3. table[i] \in ToSet(table)
        BY <1>1, <4>2, LenProperties DEF ToSet
      <4>4. QED
        BY <2>1, <4>2, <4>3
    <3>3. QED
      BY <3>1, <3>2
  <2>3. DOMAIN rows' = 1..Len(rows')
    BY <1>5, LenProperties
  <2>4. ToSet(rows') \subseteq offered
    BY <2>2, <2>3 DEF ToSet
  <2>5. QED
    BY <1>4, <2>1, <2>4 DEF RowsWereOffered
<1>8. ReadsThePrefix'
  <2> SUFFICES ASSUME untouched PROVE ReadsThePrefix'
    BY <1>4 DEF ReadsThePrefix
  <2>1. Len(rows) <= Len(table) /\ \A i \in 1..Len(rows) : rows[i] = table[i]
    BY <1>4 DEF LaunchInv, ReadsThePrefix
  <2>2. ASSUME NEW i \in 1..Len(rows') PROVE rows'[i] = table[i]
    <3>1. CASE i <= Len(rows)
      <4>1. i \in 1..Len(rows)
        BY <1>2, <2>2, <3>1, <1>3, <1>5
      <4>2. QED
        BY <1>5, <2>1, <2>2, <3>1, <4>1
    <3>2. CASE ~(i <= Len(rows))
      <4>1. i - Len(rows) \in 1..Len(page) /\ Len(rows) + (i - Len(rows)) = i
        BY <1>2, <1>3, <1>5, <2>2, <3>2
      <4>2. QED
        BY <1>3, <1>5, <2>2, <3>2, <4>1
    <3>3. QED
      BY <3>1, <3>2
  <2>3. Len(rows') <= Len(table)
    BY <1>3, <1>5, <2>1
  <2>4. ASSUME pc' = "resolving" PROVE rows' = table
    <3>1. Len(rows') = Len(table)
      BY <1>3, <1>4, <1>5, <2>1, <2>4
    <3>2. QED
      BY <1>1, <1>5, <2>2, <3>1, SeqEqual
  <2>5. QED
    BY <1>4, <2>2, <2>3, <2>4 DEF ReadsThePrefix
<1>9. pc' \notin {"applied", "serving"}
  BY <1>4
<1>10. QED
  BY <1>6, <1>7, <1>8, <1>9 DEF LaunchInv, SettingsComeFromStore, QuietLaunchResolves,
                               LogsOnlyWhenUsable

LEMMA ApplyStep ==
  ASSUME TypeOK, LaunchInv, Apply
  PROVE  TypeOK' /\ LaunchInv'
<1>1. CASE Duplicated(rows)
  <2>1. PICK state \in {"serving", "exited"} :
          /\ Ends(state, env) /\ UNCHANGED <<storeVars, containerVars>>
          /\ state = "serving" => command = "preview"
    BY <1>1 DEF Apply, Unavailable
  <2>2. LogsOnlyWhenUsable'
    BY <2>1 DEF Ends, LogsOnlyWhenUsable, containerVars
  <2>3. QED
    BY <2>1, <2>2, EndsLaunch DEF TypeOK
<1>2. CASE ~Duplicated(rows)
  <2>1. /\ pc = "resolving" /\ pc' = "applied" /\ env' = Applied(Resolve(rows)) /\ rows' = <<>>
        /\ UNCHANGED <<table, edits, reachable, command, own, library, tmp, offered, untouched>>
    BY <1>2 DEF Apply, storeVars, containerVars
  <2>2. DOMAIN env' = DOMAIN env /\ \A k \in Setting : env'[k] = Resolve(rows)[k]
    BY <2>1 DEF Applied, TypeOK
  <2>3. TypeOK'
    BY <2>1, <2>2, EmptySeq DEF TypeOK
  <2>4. SettingsComeFromStore'
    <3> SUFFICES ASSUME NEW k \in Setting, Resolve(rows)[k] # ""
                 PROVE  \E row \in offered :
                          Scoped(row) /\ row.key = k /\ row.value = Resolve(rows)[k]
      BY <2>1, <2>2 DEF SettingsComeFromStore
    <3>1. \E row \in ToSet(rows) : Scoped(row) /\ row.key = k /\ row.value = Resolve(rows)[k]
      BY <1>2, ResolvedFromRows DEF TypeOK
    <3>2. ToSet(rows) \subseteq offered
      BY <2>1 DEF LaunchInv, RowsWereOffered
    <3>3. QED
      BY <3>1, <3>2
  <2>5. QuietLaunchResolves'
    <3>1. \A k : Effective(k)' = Effective(k)
      BY <2>1 DEF Effective
    <3>2. Duplicated(table)' <=> Duplicated(table)
      BY <2>1 DEF Duplicated
    <3>3. untouched => rows = table
      BY <2>1 DEF LaunchInv, ReadsThePrefix
    <3>4. untouched => ~Duplicated(table) /\ \A k \in Setting : Resolve(rows)[k] = Effective(k)
      BY <1>2, <3>3, ResolvesToEffective DEF TypeOK
    <3>5. untouched => \A k \in Setting : env'[k] = Effective(k)'
      BY <2>2, <3>1, <3>4
    <3>6. untouched' <=> untouched
      BY <2>1
    <3>7. QED
      BY <3>2, <3>4, <3>5, <3>6 DEF QuietLaunchResolves
  <2>6. QED
    BY <2>1, <2>3, <2>4, <2>5 DEF LaunchInv, RowsWereOffered, ReadsThePrefix, LogsOnlyWhenUsable
<1>3. QED
  BY <1>1, <1>2

\* The processes that are launched, and their ends.
LEMMA ProcessStep ==
  ASSUME TypeOK, LaunchInv, FetchFails \/ Start \/ OtherCommand \/ Preview \/ Crash
  PROVE  TypeOK' /\ LaunchInv'
<1>1. Setting \cup {"LOGSTORE_KEY_FILE"} \subseteq DOMAIN env
      /\ Setting \cup {"LOGSTORE_KEY_FILE"} \subseteq DOMAIN own
  BY OwnAssumption DEF TypeOK
<1>2. CASE FetchFails \/ OtherCommand \/ Preview
  <2>1. PICK state \in {"serving", "exited"} :
          /\ Ends(state, env) /\ UNCHANGED <<storeVars, containerVars>>
          /\ state = "serving" => command # "start"
    BY <1>2 DEF FetchFails, Unavailable, OtherCommand, Preview
  <2>2. LogsOnlyWhenUsable'
    BY <2>1 DEF Ends, LogsOnlyWhenUsable, containerVars
  <2>3. QED
    BY <1>1, <2>1, <2>2, EndsLaunch
<1>3. CASE Crash
  <2>1. Ends("off", own) /\ UNCHANGED <<storeVars, containerVars>>
    BY <1>3 DEF Crash
  <2>2. LogsOnlyWhenUsable'
    BY <2>1 DEF Ends, LogsOnlyWhenUsable
  <2>3. QED
    BY <1>1, <2>1, <2>2, EndsLaunch
<1>4. CASE Start
  <2>1. PICK state \in {"serving", "exited"} :
          Ends(state, Configured) /\ UNCHANGED <<storeVars, containerVars>>
    BY <1>4 DEF Start
  <2>2. /\ DOMAIN Configured = DOMAIN env
        /\ Configured["LOGSTORE_KEY_JSON"] = ""
        /\ Configured["LOGSTORE_KEY_FILE"] = IF Loggable THEN "private" ELSE ""
        /\ Configured["LOGSTORE_ENABLED"] = IF Loggable THEN "1" ELSE "0"
    BY <1>1 DEF Configured, Setting
  <2>3. state = "serving" => env' = Configured /\ library' = library
    BY <2>1 DEF Ends, containerVars
  <2>4. LogsOnlyWhenUsable'
    <3> SUFFICES ASSUME state = "serving" PROVE LogsOnlyWhenUsable'
      BY <2>1 DEF Ends, LogsOnlyWhenUsable
    <3>1. env'["LOGSTORE_KEY_JSON"] = ""
      BY <2>2, <2>3
    <3>2. CASE Loggable
      <4>1. library' /\ env'["LOGSTORE_KEY_FILE"] = "private" /\ env'["LOGSTORE_ENABLED"] = "1"
        BY <2>2, <2>3, <3>2 DEF Loggable
      <4>2. QED
        BY <3>1, <4>1 DEF LogsOnlyWhenUsable
    <3>3. CASE ~Loggable
      <4>1. env'["LOGSTORE_KEY_FILE"] = "" /\ env'["LOGSTORE_ENABLED"] = "0"
        BY <2>2, <2>3, <3>3
      <4>2. QED
        BY <3>1, <4>1 DEF LogsOnlyWhenUsable
    <3>4. QED
      BY <3>2, <3>3
  <2>5. QED
    BY <1>1, <2>1, <2>2, <2>4, EndsLaunch
<1>5. QED
  BY <1>2, <1>3, <1>4

LEMMA EditStep ==
  ASSUME TypeOK, LaunchInv, Edit
  PROVE  TypeOK' /\ LaunchInv'
<1>1. /\ table' \in Seq(Row)
      /\ UNCHANGED <<reachable, command, own, library, tmp, pc, rows, env>>
      /\ IF pc \in {"off", "exited", "serving"}
         THEN UNCHANGED <<offered, untouched>>
         ELSE offered' = offered \cup ToSet(table') /\ untouched' = FALSE
  BY EditType DEF Edit, containerVars, TypeOK
<1>2. TypeOK'
  BY <1>1 DEF TypeOK
<1>3. RowsWereOffered'
  BY <1>1 DEF LaunchInv, RowsWereOffered
<1>4. ReadsThePrefix' /\ QuietLaunchResolves'
  BY <1>1 DEF ReadsThePrefix, QuietLaunchResolves
<1>5. SettingsComeFromStore'
  BY <1>1 DEF LaunchInv, SettingsComeFromStore
<1>6. LogsOnlyWhenUsable'
  BY <1>1 DEF LaunchInv, LogsOnlyWhenUsable
<1>7. QED
  BY <1>2, <1>3, <1>4, <1>5, <1>6 DEF LaunchInv

LEMMA NextLaunch == TypeOK /\ LaunchInv /\ [Next]_vars => (TypeOK /\ LaunchInv)'
<1> SUFFICES ASSUME TypeOK, LaunchInv, [Next]_vars PROVE (TypeOK /\ LaunchInv)'
  OBVIOUS
<1>1. CASE Outage \/ DiskFull \/ UNCHANGED vars
  <2> USE <1>1 DEF Outage, DiskFull, vars, storeVars, containerVars, launchVars
  <2>1. TypeOK'
    BY DEF TypeOK
  <2>2. UNCHANGED <<table, command, library, pc, rows, env, offered, untouched>>
    OBVIOUS
  <2>3. RowsWereOffered' /\ ReadsThePrefix'
    BY <2>2 DEF LaunchInv, RowsWereOffered, ReadsThePrefix
  <2>4. SettingsComeFromStore' /\ LogsOnlyWhenUsable'
    BY <2>2 DEF LaunchInv, SettingsComeFromStore, LogsOnlyWhenUsable
  <2>5. QuietLaunchResolves'
    <3>1. \A k : Effective(k)' = Effective(k)
      BY <2>2 DEF Effective
    <3>2. QED
      BY <2>2, <3>1 DEF LaunchInv, QuietLaunchResolves
  <2>6. QED
    BY <2>1, <2>3, <2>4, <2>5 DEF LaunchInv
<1>2. QED
  BY <1>1, LaunchStep, FetchPageStep, ApplyStep, ProcessStep, EditStep DEF Next

\* A launch at any moment: platform_config.fetch and apply, worker.main and
\* logstore.configure, with every edit, outage and crash in between.
THEOREM LaunchIsInvariant == Spec => [](TypeOK /\ LaunchInv)
BY InitLaunch, NextLaunch, PTL DEF Spec

\* apply(): whatever is edited between the pages, every setting that is applied was in
\* the store during this launch and none is left over from the container.
THEOREM SettingsAreTheStores == Spec => []SettingsComeFromStore
<1>1. LaunchInv => SettingsComeFromStore
  BY DEF LaunchInv
<1>2. QED
  BY <1>1, LaunchIsInvariant, PTL

\* fetch() and resolve(): a launch that no edit disturbs applies the whole table, over
\* any number of pages and however the store marks the last one.
THEOREM QuietLaunchesResolve == Spec => []QuietLaunchResolves
<1>1. LaunchInv => QuietLaunchResolves
  BY DEF LaunchInv
<1>2. QED
  BY <1>1, LaunchIsInvariant, PTL

\* logstore.configure(): a serving worker logs with library and key file, or not at all.
THEOREM LoggingIsAllOrNothing == Spec => []LogsOnlyWhenUsable
<1>1. LaunchInv => LogsOnlyWhenUsable
  BY DEF LaunchInv
<1>2. QED
  BY <1>1, LaunchIsInvariant, PTL
=============================================================================
