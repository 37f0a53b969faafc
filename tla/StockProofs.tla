---------------------------- MODULE StockProofs ----------------------------
(***************************************************************************)
(* The sums over the inventory, for any orders, rows, products and         *)
(* goroutines:                                                             *)
(*   - when the requests on one order come one after the other and nobody  *)
(*     adjusts stock, what is allocated of a product is what the CONFIRMED *)
(*     orders ask of it, and what has left the yard is what the FULFILLED  *)
(*     ones asked for, whatever fails or deadlocks on the way;             *)
(*   - if moreover each product lies in one row and no statement fails, a  *)
(*     cancel cancels, unless it is the victim of a deadlock;              *)
(*   - while orders only reserve and one stock request runs at a time,     *)
(*     moves neither create nor destroy units.                             *)
(* First come the laws of finite sums they need. A recursive function on   *)
(* the subsets of a finite set is reasoned about with a smallest           *)
(* counterexample, since strict inclusion is well-founded there.           *)
(***************************************************************************)
EXTENDS BillingProofs

-----------------------------------------------------------------------------
(* Finite sums.                                                            *)

\* The sum of the values of f over S.
SumOver(f, S) == SumFunctionOnSet(f, S)

\* it adds the values of f up over every subset of S.
Adds(f, S, it) ==
    it = [s \in SUBSET S |-> IF s = {} THEN 0
                             ELSE f[CHOOSE x \in s : TRUE] + it[s \ {CHOOSE x \in s : TRUE}]]

\* A family of subsets of a finite set has a smallest member.
LEMMA Smallest ==
  ASSUME NEW S, IsFiniteSet(S), NEW F \in SUBSET SUBSET S, F # {}
  PROVE  \E T \in F : \A U \in F : U \subseteq T => U = T
<1>1. IsWellFoundedOn(StrictSubsetOrdering(S), SUBSET S)
  BY FS_StrictSubsetOrderingWellFounded, FS_FiniteSubsetsOfFinite
<1>2. PICK T \in F : \A U \in F : ~(<<U, T>> \in StrictSubsetOrdering(S))
  BY <1>1, WFMin, Zenon
<1> QED
  BY <1>2 DEF StrictSubsetOrdering

\* Two such tables agree where both are defined.
LEMMA AddsUnique ==
  ASSUME NEW S, IsFiniteSet(S), NEW T \in SUBSET S, NEW f, NEW a, NEW b,
         Adds(f, S, a), Adds(f, T, b)
  PROVE  \A s \in SUBSET T : a[s] = b[s]
<1> DEFINE F == {s \in SUBSET T : a[s] # b[s]}
<1> SUFFICES ASSUME F # {} PROVE FALSE
  OBVIOUS
<1>1. PICK s \in F : \A u \in F : u \subseteq s => u = s
  <2>1. F \in SUBSET SUBSET S
    OBVIOUS
  <2> HIDE DEF F
  <2> QED
    BY <2>1, Smallest
<1>2. s \in SUBSET T /\ s \in SUBSET S /\ a[s] # b[s]
  BY <1>1
<1>3. /\ a[s] = IF s = {} THEN 0 ELSE f[CHOOSE x \in s : TRUE] + a[s \ {CHOOSE x \in s : TRUE}]
      /\ b[s] = IF s = {} THEN 0 ELSE f[CHOOSE x \in s : TRUE] + b[s \ {CHOOSE x \in s : TRUE}]
  BY <1>2 DEF Adds
<1>4. s # {} => (CHOOSE x \in s : TRUE) \in s
  OBVIOUS
<1> DEFINE c == CHOOSE x \in s : TRUE
<1>5. s # {} => a[s \ {c}] = b[s \ {c}]
  <2> SUFFICES ASSUME s # {}, a[s \ {c}] # b[s \ {c}] PROVE FALSE
    OBVIOUS
  <2>1. c \in s
    BY <1>4
  <2> HIDE DEF c
  <2>2. s \ {c} \in F
    BY <1>2
  <2> QED
    BY <1>1, <2>1, <2>2
<1> QED
  BY <1>2, <1>3, <1>5

\* And there is one.
LEMMA AddsExists ==
  ASSUME NEW S, IsFiniteSet(S), NEW f
  PROVE  \E it : Adds(f, S, it)
<1> DEFINE F == {T \in SUBSET S : ~ \E it : Adds(f, T, it)}
<1> SUFFICES ASSUME F # {} PROVE FALSE
  OBVIOUS
<1>1. PICK T \in F : \A U \in F : U \subseteq T => U = T
  <2>1. F \in SUBSET SUBSET S
    OBVIOUS
  <2> HIDE DEF F
  <2> QED
    BY <2>1, Smallest
<1> DEFINE tab(s) == CHOOSE it : Adds(f, s, it)
           c(s)   == CHOOSE x \in s : TRUE
<1>2. T \in SUBSET S /\ ~ \E it : Adds(f, T, it)
  BY <1>1
<1>3. ASSUME NEW s \in SUBSET T, s # T PROVE Adds(f, s, tab(s))
  <2>1. \E it : Adds(f, s, it)
    BY <1>1, <1>2, <1>3
  <2> QED
    BY <2>1, Zenon
<1>4. ASSUME NEW s \in SUBSET T, s # {} PROVE c(s) \in s /\ s \ {c(s)} \in SUBSET T /\ s \ {c(s)} # T
  BY <1>4
<1> DEFINE it == [s \in SUBSET T |-> IF s = {} THEN 0 ELSE f[c(s)] + tab(s \ {c(s)})[s \ {c(s)}]]
<1>5. ASSUME NEW s \in SUBSET T, s # {} PROVE it[s \ {c(s)}] = tab(s \ {c(s)})[s \ {c(s)}]
  <2> DEFINE u == s \ {c(s)}
  <2>1. u \in SUBSET T /\ u # T
    BY <1>4, <1>5
  <2>2. Adds(f, u, tab(u))
    BY <1>3, <2>1
  <2>3. tab(u)[u] = IF u = {} THEN 0 ELSE f[c(u)] + tab(u)[u \ {c(u)}]
    <3> HIDE DEF tab, u
    <3> QED
      BY <2>2 DEF Adds
  <2>4. it[u] = IF u = {} THEN 0 ELSE f[c(u)] + tab(u \ {c(u)})[u \ {c(u)}]
    BY <2>1
  <2>5. u # {} => tab(u)[u \ {c(u)}] = tab(u \ {c(u)})[u \ {c(u)}]
    <3> SUFFICES ASSUME u # {} PROVE tab(u)[u \ {c(u)}] = tab(u \ {c(u)})[u \ {c(u)}]
      OBVIOUS
    <3>1. u \ {c(u)} \in SUBSET u /\ u \ {c(u)} \in SUBSET T /\ u \ {c(u)} # T
      BY <1>4, <2>1
    <3>2. Adds(f, u \ {c(u)}, tab(u \ {c(u)}))
      BY <1>3, <3>1
    <3>3. IsFiniteSet(u)
      BY <1>2, <2>1, FS_Subset
    <3> HIDE DEF tab, c, u
    <3> QED
      BY <2>2, <3>1, <3>2, <3>3, AddsUnique
  <2> QED
    BY <2>3, <2>4, <2>5
<1>6. Adds(f, T, it)
  <2>1. it = [s \in SUBSET T |-> IF s = {} THEN 0 ELSE f[c(s)] + it[s \ {c(s)}]]
    <3> HIDE DEF tab, c
    <3>1. \A s \in SUBSET T : it[s] = IF s = {} THEN 0 ELSE f[c(s)] + it[s \ {c(s)}]
      BY <1>5
    <3> QED
      BY <3>1
  <2> QED
    BY <2>1, Zenon DEF Adds
<1> QED
  BY <1>2, <1>6

\* The sum over a set, one element at a time.
LEMMA SumStep ==
  ASSUME NEW S, IsFiniteSet(S), NEW f
  PROVE  /\ SumOver(f, {}) = 0
         /\ S # {} => /\ (CHOOSE x \in S : TRUE) \in S
                      /\ SumOver(f, S) = f[CHOOSE x \in S : TRUE] + SumOver(f, S \ {CHOOSE x \in S : TRUE})
<1> DEFINE tab(s) == CHOOSE it : Adds(f, s, it)
<1>1. ASSUME NEW s, IsFiniteSet(s) PROVE Adds(f, s, tab(s)) /\ SumOver(f, s) = tab(s)[s]
  <2>1. \E it : Adds(f, s, it)
    BY <1>1, AddsExists
  <2>2. SumOver(f, s) = tab(s)[s]
    BY Zenon DEF SumOver, SumFunctionOnSet, FoldFunctionOnSet, MapThenFoldSet, Adds
  <2> QED
    BY <2>1, <2>2, Zenon
<1>2. ASSUME NEW s, IsFiniteSet(s)
      PROVE  tab(s)[s] = IF s = {} THEN 0 ELSE f[CHOOSE x \in s : TRUE] + tab(s)[s \ {CHOOSE x \in s : TRUE}]
  <2>1. Adds(f, s, tab(s))
    BY <1>1, <1>2
  <2> HIDE DEF tab
  <2> QED
    BY <2>1 DEF Adds
<1> DEFINE c == CHOOSE x \in S : TRUE
           U == S \ {c}
<1>3. IsFiniteSet(U) /\ U \in SUBSET S
  BY FS_RemoveElement
<1>4. S # {} => c \in S
  OBVIOUS
<1>5. tab(S)[U] = tab(U)[U]
  <2>1. Adds(f, S, tab(S)) /\ Adds(f, U, tab(U))
    BY <1>1, <1>3
  <2> HIDE DEF tab, U
  <2> QED
    BY <1>3, <2>1, AddsUnique
<1>6. SumOver(f, {}) = 0
  BY <1>1, <1>2, FS_EmptySet
<1>7. S # {} => SumOver(f, S) = f[c] + SumOver(f, U)
  <2>1. SumOver(f, S) = tab(S)[S] /\ SumOver(f, U) = tab(U)[U]
    BY <1>1, <1>3
  <2>2. S # {} => tab(S)[S] = f[c] + tab(S)[U]
    BY <1>2
  <2> HIDE DEF tab, U, c
  <2> QED
    BY <1>5, <2>1, <2>2
<1> QED
  BY <1>4, <1>6, <1>7

\* A set F of subsets that are counterexamples is empty, when the empty set is
\* none and every other subset without its chosen element is one if it is.
LEMMA NoCounterexample ==
  ASSUME NEW S, IsFiniteSet(S), NEW F \in SUBSET SUBSET S, {} \notin F,
         \A T \in F : T # {} => \E x \in T : T \ {x} \in F
  PROVE  F = {}
<1> SUFFICES ASSUME F # {} PROVE FALSE
  OBVIOUS
<1>1. PICK T \in F : \A U \in F : U \subseteq T => U = T
  BY Smallest
<1>2. PICK x \in T : T \ {x} \in F
  BY <1>1
<1> QED
  BY <1>1, <1>2

\* A sum of integers is one.
LEMMA SumType ==
  ASSUME NEW S, IsFiniteSet(S), NEW f, \A x \in S : f[x] \in Int
  PROVE  SumOver(f, S) \in Int
<1> DEFINE F == {T \in SUBSET S : SumOver(f, T) \notin Int}
<1>1. {} \notin F
  BY SumStep
<1>2. ASSUME NEW T \in F, T # {} PROVE \E x \in T : T \ {x} \in F
  <2> DEFINE c == CHOOSE x \in T : TRUE
  <2>1. IsFiniteSet(T) /\ T \in SUBSET S
    BY FS_Subset
  <2>2. c \in T /\ SumOver(f, T) = f[c] + SumOver(f, T \ {c})
    BY <1>2, <2>1, SumStep
  <2> HIDE DEF c
  <2>3. f[c] \in Int /\ SumOver(f, T) \notin Int
    BY <2>1, <2>2
  <2>4. SumOver(f, T \ {c}) \notin Int
    BY <2>2, <2>3
  <2> QED
    BY <2>1, <2>2, <2>4
<1>3. F = {}
  <2>1. F \in SUBSET SUBSET S
    OBVIOUS
  <2> HIDE DEF F
  <2> QED
    BY <1>1, <1>2, <2>1, NoCounterexample
<1> QED
  BY <1>3

\* Any element can be taken out of a sum.
LEMMA SumRemove ==
  ASSUME NEW S, IsFiniteSet(S), NEW f, \A x \in S : f[x] \in Int
  PROVE  \A e \in S : SumOver(f, S) = f[e] + SumOver(f, S \ {e})
<1> DEFINE F == {T \in SUBSET S : \E e \in T : SumOver(f, T) # f[e] + SumOver(f, T \ {e})}
<1>1. {} \notin F
  OBVIOUS
<1>2. ASSUME NEW T \in F, T # {}, \A x \in T : T \ {x} \notin F PROVE FALSE
  <2>1. PICK e \in T : SumOver(f, T) # f[e] + SumOver(f, T \ {e})
    OBVIOUS
  <2>2. T \in SUBSET S /\ IsFiniteSet(T) /\ \A x \in T : f[x] \in Int
    BY FS_Subset
  <2>3. \A x, y \in T : /\ IsFiniteSet(T \ {x}) /\ SumOver(f, T \ {x}) \in Int
                        /\ SumOver(f, (T \ {x}) \ {y}) \in Int
    <3>1. \A x, y \in T : IsFiniteSet(T \ {x}) /\ IsFiniteSet((T \ {x}) \ {y})
      BY <2>2, FS_RemoveElement
    <3> QED
      BY <2>2, <3>1, SumType
  <2>4. \A x, y \in T : x # y => SumOver(f, T \ {x}) = f[y] + SumOver(f, (T \ {x}) \ {y})
    BY <1>2, <2>2
  <2>5. PICK c \in T : SumOver(f, T) = f[c] + SumOver(f, T \ {c})
    <3> DEFINE d == CHOOSE x \in T : TRUE
    <3>1. d \in T /\ SumOver(f, T) = f[d] + SumOver(f, T \ {d})
      BY <1>2, <2>2, SumStep
    <3> HIDE DEF d
    <3> QED
      BY <3>1
  <2>6. c # e
    BY <2>1, <2>5
  <2>7. (T \ {c}) \ {e} = (T \ {e}) \ {c}
    OBVIOUS
  <2>8. /\ SumOver(f, T \ {c}) = f[e] + SumOver(f, (T \ {c}) \ {e})
        /\ SumOver(f, T \ {e}) = f[c] + SumOver(f, (T \ {c}) \ {e})
    BY <2>4, <2>6, <2>7
  <2>9. SumOver(f, (T \ {c}) \ {e}) \in Int /\ f[c] \in Int /\ f[e] \in Int
    BY <2>2, <2>3
  <2> HIDE DEF F
  <2> QED
    BY <2>1, <2>5, <2>8, <2>9
<1>3. F = {}
  <2>1. F \in SUBSET SUBSET S
    OBVIOUS
  <2> HIDE DEF F
  <2> QED
    BY <1>1, <1>2, <2>1, NoCounterexample
<1> QED
  BY <1>3

\* The sum of a sum.
LEMMA SumPlus ==
  ASSUME NEW S, IsFiniteSet(S), NEW f, NEW g, NEW h,
         \A x \in S : f[x] \in Int /\ g[x] \in Int /\ h[x] = f[x] + g[x]
  PROVE  SumOver(h, S) = SumOver(f, S) + SumOver(g, S)
<1> DEFINE F == {T \in SUBSET S : SumOver(h, T) # SumOver(f, T) + SumOver(g, T)}
<1>1. {} \notin F
  <2>1. SumOver(h, {}) = 0 /\ SumOver(f, {}) = 0 /\ SumOver(g, {}) = 0
    BY SumStep
  <2> QED
    BY <2>1
<1>2. ASSUME NEW T \in F, T # {}, \A x \in T : T \ {x} \notin F PROVE FALSE
  <2>1. PICK e \in T : TRUE
    BY <1>2
  <2>2. /\ T \in SUBSET S /\ IsFiniteSet(T) /\ IsFiniteSet(T \ {e})
        /\ f[e] \in Int /\ g[e] \in Int /\ h[e] = f[e] + g[e]
    BY FS_Subset, FS_RemoveElement
  <2>3. \A x \in T : f[x] \in Int /\ g[x] \in Int /\ h[x] \in Int
    BY <2>2
  <2>4. /\ SumOver(f, T \ {e}) \in Int /\ SumOver(f, T) = f[e] + SumOver(f, T \ {e})
        /\ SumOver(g, T \ {e}) \in Int /\ SumOver(g, T) = g[e] + SumOver(g, T \ {e})
        /\ SumOver(h, T \ {e}) \in Int /\ SumOver(h, T) = h[e] + SumOver(h, T \ {e})
    BY <2>2, <2>3, SumType, SumRemove
  <2>5. SumOver(h, T \ {e}) = SumOver(f, T \ {e}) + SumOver(g, T \ {e})
    BY <1>2, <2>2
  <2>6. SumOver(h, T) # SumOver(f, T) + SumOver(g, T)
    OBVIOUS
  <2> HIDE DEF F
  <2> QED
    BY <2>2, <2>4, <2>5, <2>6
<1>3. F = {}
  <2>1. F \in SUBSET SUBSET S
    OBVIOUS
  <2> HIDE DEF F
  <2> QED
    BY <1>1, <1>2, <2>1, NoCounterexample
<1> QED
  BY <1>3

\* Nothing adds up to nothing.
LEMMA SumZero ==
  ASSUME NEW S, IsFiniteSet(S), NEW f, \A x \in S : f[x] = 0
  PROVE  SumOver(f, S) = 0
<1>1. SumOver(f, S) \in Int
  BY SumType
<1>2. SumOver(f, S) = SumOver(f, S) + SumOver(f, S)
  <2>1. \A x \in S : f[x] \in Int /\ f[x] \in Int /\ f[x] = f[x] + f[x]
    OBVIOUS
  <2> QED
    BY <2>1, SumPlus
<1> DEFINE sum == SumOver(f, S)
<1>3. sum \in Int /\ sum = sum + sum
  BY <1>1, <1>2
<1> HIDE DEF sum
<1>4. sum = 0
  BY ONLY <1>3
<1> QED
  BY <1>4 DEF sum

\* A sum depends on the values only.
LEMMA SumSame ==
  ASSUME NEW S, IsFiniteSet(S), NEW f, NEW g, \A x \in S : f[x] \in Int /\ g[x] = f[x]
  PROVE  SumOver(g, S) = SumOver(f, S)
<1> DEFINE z == [x \in S |-> 0]
<1>1. SumOver(z, S) = 0
  BY SumZero
<1>2. SumOver(g, S) = SumOver(f, S) + SumOver(z, S)
  BY SumPlus
<1>3. SumOver(f, S) \in Int
  BY SumType
<1> HIDE DEF z
<1> QED
  BY <1>1, <1>2, <1>3

\* Changing one of the values changes the sum by as much.
LEMMA SumChange ==
  ASSUME NEW S, IsFiniteSet(S), NEW f, NEW g, NEW e \in S,
         \A x \in S : f[x] \in Int /\ g[x] \in Int /\ (x # e => g[x] = f[x])
  PROVE  SumOver(g, S) = SumOver(f, S) + (g[e] - f[e])
<1>1. SumOver(f, S) = f[e] + SumOver(f, S \ {e}) /\ SumOver(g, S) = g[e] + SumOver(g, S \ {e})
  BY SumRemove
<1>2. IsFiniteSet(S \ {e})
  BY FS_RemoveElement
<1>3. SumOver(g, S \ {e}) = SumOver(f, S \ {e}) /\ SumOver(f, S \ {e}) \in Int
  BY <1>2, SumSame, SumType
<1> QED
  BY <1>1, <1>3

\* A sum of naturals is not negative.
LEMMA SumNonNegative ==
  ASSUME NEW S, IsFiniteSet(S), NEW f, \A x \in S : f[x] \in Nat
  PROVE  SumOver(f, S) >= 0
<1> DEFINE F == {T \in SUBSET S : ~(SumOver(f, T) >= 0)}
<1>1. {} \notin F
  <2>1. SumOver(f, {}) = 0
    BY SumStep
  <2> QED
    BY <2>1
<1>2. ASSUME NEW T \in F, T # {}, \A x \in T : T \ {x} \notin F PROVE FALSE
  <2>1. PICK e \in T : TRUE
    BY <1>2
  <2>2. /\ T \in SUBSET S /\ IsFiniteSet(T) /\ IsFiniteSet(T \ {e}) /\ f[e] \in Nat
        /\ \A x \in T : f[x] \in Int
    BY FS_Subset, FS_RemoveElement
  <2>3. SumOver(f, T \ {e}) \in Int /\ SumOver(f, T) = f[e] + SumOver(f, T \ {e})
    BY <2>2, SumType, SumRemove
  <2>4. SumOver(f, T \ {e}) >= 0 /\ ~(SumOver(f, T) >= 0)
    BY <1>2, <2>2
  <2> HIDE DEF F
  <2> QED
    BY <2>2, <2>3, <2>4
<1>3. F = {}
  <2>1. F \in SUBSET SUBSET S
    OBVIOUS
  <2> HIDE DEF F
  <2> QED
    BY <1>1, <1>2, <2>1, NoCounterexample
<1> QED
  BY <1>3

\* A sum of naturals is at least each of them.
LEMMA SumAtLeast ==
  ASSUME NEW S, IsFiniteSet(S), NEW f, \A x \in S : f[x] \in Nat, NEW e \in S
  PROVE  SumOver(f, S) >= f[e]
<1>1. SumOver(f, S) = f[e] + SumOver(f, S \ {e})
  BY SumRemove
<1>2. IsFiniteSet(S \ {e})
  BY FS_RemoveElement
<1>3. SumOver(f, S \ {e}) \in Int /\ SumOver(f, S \ {e}) >= 0
  BY <1>2, SumType, SumNonNegative
<1> QED
  BY <1>1, <1>3

-----------------------------------------------------------------------------
(* What an open transaction has done to the rows, column by column.        *)

USE NobodyAssumption, NoRowAssumption, MaxQuantityAssumption, FiniteAssumption

Columns == {"allocated", "quantity"}

Part(col, c) == IF col = "allocated" THEN c.allocated ELSE c.quantity

\* What n units of a guarded UPDATE add to a column.
Effect(op, col, n) ==
    CASE op = "allocate" -> IF col = "allocated" THEN n ELSE 0
      [] op = "release"  -> IF col = "allocated" THEN 0 - n ELSE 0
      [] op = "fulfill"  -> 0 - n

\* What p has written and not committed.
Change(p, col) == [r \in Rows |-> Part(col, Sees(p, r)) - Part(col, stock[r])]

TotalOf(col, rows, product) == SumOver([r \in Rows |-> Part(col, rows[r])], RowsOf(product))

\* A statement of p on the rows.
RowStep(p) == \/ \E r \in Rows, c \in Cell : CanWrite(p, r) /\ Write(p, r, c)
              \/ CommitRows(p) \/ RollbackRows(p) \/ UNCHANGED <<stock, draft, holder>>

\* The rows of a product are finitely many.
LEMMA RowsOfFinite == \A x : RowsOf(x) \in SUBSET Rows /\ IsFiniteSet(RowsOf(x))
<1> QED
  BY FS_Subset DEF RowsOf

\* An UPDATE adds its effect to each column.
LEMMA EffectIs ==
  ASSUME NEW op \in GuardedOps, NEW col \in Columns, NEW c \in Cell, NEW n \in Int
  PROVE  Part(col, Updated(op, c, n)) = Part(col, c) + Effect(op, col, n)
<1>1. c.quantity \in Int /\ c.allocated \in Int
  BY DEF Cell
<1>2. CASE op = "allocate"
  BY <1>1, <1>2 DEF Part, Updated, Effect, Cell, Columns
<1>3. CASE op = "release"
  BY <1>1, <1>3 DEF Part, Updated, Effect, Cell, Columns
<1>4. CASE op = "fulfill"
  BY <1>1, <1>4 DEF Part, Updated, Effect, Cell, Columns
<1> QED
  BY <1>2, <1>3, <1>4 DEF GuardedOps

\* Effects add up.
LEMMA EffectPlus ==
  ASSUME NEW op \in GuardedOps, NEW col \in Columns, NEW m \in Int, NEW n \in Int
  PROVE  /\ Effect(op, col, m) \in Int
         /\ Effect(op, col, m + n) = Effect(op, col, m) + Effect(op, col, n)
         /\ Effect(op, col, 0) = 0
<1>1. CASE op = "allocate"
  BY <1>1 DEF Effect
<1>2. CASE op = "release"
  BY <1>2 DEF Effect
<1>3. CASE op = "fulfill"
  BY <1>3 DEF Effect
<1> QED
  BY <1>1, <1>2, <1>3 DEF GuardedOps

\* The columns of the rows are integers, and so is what changed of them.
LEMMA ChangeType ==
  ASSUME RowsTypeOK, NEW p \in Procs, NEW col \in Columns
  PROVE  \A r \in Rows : /\ Change(p, col)[r] \in Int
                         /\ Part(col, stock[r]) \in Int /\ Part(col, Sees(p, r)) \in Int
                         /\ Change(p, col)[r] = Part(col, Sees(p, r)) - Part(col, stock[r])
<1> SUFFICES ASSUME NEW r \in Rows
             PROVE  /\ Change(p, col)[r] \in Int
                    /\ Part(col, stock[r]) \in Int /\ Part(col, Sees(p, r)) \in Int
                    /\ Change(p, col)[r] = Part(col, Sees(p, r)) - Part(col, stock[r])
  OBVIOUS
<1>1. stock[r] \in Cell /\ Sees(p, r) \in Cell
  BY DEF RowsTypeOK, Sees
<1>2. Part(col, stock[r]) \in Int /\ Part(col, Sees(p, r)) \in Int
  BY <1>1 DEF Part, Cell
<1> QED
  BY <1>2 DEF Change

\* What one transaction does to the rows leaves alone what another has done.
LEMMA OthersChange ==
  ASSUME RowsTypeOK, NEW p \in Procs, NEW q \in Procs, q # p, RowStep(p), NEW col \in Columns
  PROVE  /\ Change(q, col)' = Change(q, col)
         /\ \A r \in Rows : holder'[r] = q <=> holder[r] = q
<1>1. CASE UNCHANGED <<stock, draft, holder>>
  BY <1>1 DEF Change, Sees
<1>2. CASE \E r \in Rows, c \in Cell : CanWrite(p, r) /\ Write(p, r, c)
  <2>1. PICK R \in Rows, c \in Cell : CanWrite(p, R) /\ Write(p, R, c)
    BY <1>2
  <2>2. /\ stock' = stock /\ holder[R] # q /\ holder'[R] # q
        /\ \A r \in Rows \ {R} : holder'[r] = holder[r] /\ draft'[r] = draft[r]
    BY <2>1 DEF Write, CanWrite, RowsTypeOK
  <2>3. \A r \in Rows : Sees(q, r)' = Sees(q, r)
    BY <2>2 DEF Sees
  <2> QED
    BY <2>2, <2>3 DEF Change
<1>3. CASE CommitRows(p) \/ RollbackRows(p)
  <2>1. \A r \in Rows : holder'[r] = q <=> holder[r] = q
    BY <1>3 DEF CommitRows, RollbackRows, Unlocked
  <2>2. \A r \in Rows : holder[r] = q => draft'[r] = draft[r] /\ stock'[r] = stock[r]
    BY <1>3 DEF CommitRows, RollbackRows, Sees
  <2>3. \A r \in Rows : holder[r] # q => Sees(q, r) = stock[r] /\ Sees(q, r)' = stock'[r]
    BY <2>1 DEF Sees
  <2>4. \A r \in Rows : holder[r] = q => Sees(q, r)' = Sees(q, r)
    BY <2>1, <2>2 DEF Sees
  <2>5. \A r \in Rows : Part(col, stock[r]) \in Int /\ Part(col, stock'[r]) \in Int
    <3>1. \A r \in Rows : stock[r] \in Cell /\ stock'[r] \in Cell
      BY <1>3 DEF CommitRows, RollbackRows, Sees, RowsTypeOK
    <3> QED
      BY <3>1 DEF Part, Cell
  <2>6. \A r \in Rows : Part(col, Sees(q, r)') - Part(col, stock'[r]) = Part(col, Sees(q, r)) - Part(col, stock[r])
    BY <2>2, <2>3, <2>4, <2>5
  <2> QED
    BY <2>1, <2>6 DEF Change
<1> QED
  BY <1>1, <1>2, <1>3 DEF RowStep

\* A transaction that holds no row has changed nothing.
LEMMA NothingHeld ==
  ASSUME RowsTypeOK, NEW p \in Procs, \A r \in Rows : holder[r] # p, NEW col \in Columns, NEW x
  PROVE  SumOver(Change(p, col), RowsOf(x)) = 0
<1>1. \A r \in Rows : Change(p, col)[r] = 0
  <2>1. \A r \in Rows : Sees(p, r) = stock[r]
    BY DEF Sees
  <2> QED
    BY <2>1, ChangeType
<1> QED
  BY <1>1, RowsOfFinite, SumZero

\* After COMMIT or ROLLBACK a transaction holds no row.
LEMMA EndsHolding ==
  ASSUME NEW p \in Procs, CommitRows(p) \/ RollbackRows(p)
  PROVE  \A r \in Rows : holder'[r] # p
<1> QED
  BY DEF CommitRows, RollbackRows, Unlocked

\* An UPDATE changes the sum over its product, and no other.
LEMMA WriteChanges ==
  ASSUME RowsTypeOK, RowsTypeOK', NEW p \in Procs, NEW R \in Rows, NEW c \in Cell, Write(p, R, c),
         NEW col \in Columns, NEW x
  PROVE  /\ SumOver(Change(p, col), RowsOf(x)) \in Int
         /\ SumOver(Change(p, col)', RowsOf(x)) =
               SumOver(Change(p, col), RowsOf(x))
                  + (IF ProductOf[R] = x THEN Part(col, c) - Part(col, Sees(p, R)) ELSE 0)
<1> DEFINE f == Change(p, col)
           g == Change(p, col)'
<1>1. /\ stock' = stock /\ holder'[R] = p /\ draft'[R] = c
      /\ \A r \in Rows \ {R} : holder'[r] = holder[r] /\ draft'[r] = draft[r]
  BY DEF Write, RowsTypeOK
<1>2. \A r \in Rows : f[r] \in Int /\ g[r] \in Int
  <2>1. \A r \in Rows : f[r] \in Int
    BY ChangeType
  <2>2. (\A r \in Rows : Change(p, col)[r] \in Int)'
    <3>1. \A r \in Rows : stock'[r] \in Cell /\ Sees(p, r)' \in Cell
      BY DEF RowsTypeOK, Sees
    <3>2. \A r \in Rows : Part(col, stock'[r]) \in Int /\ Part(col, Sees(p, r)') \in Int
      BY <3>1 DEF Part, Cell
    <3> QED
      BY <3>2 DEF Change
  <2> QED
    BY <2>1, <2>2
<1>3. Sees(p, R)' = c /\ \A r \in Rows \ {R} : Sees(p, r)' = Sees(p, r)
  BY <1>1 DEF Sees
<1>4. \A r \in Rows : r # R => g[r] = f[r]
  BY <1>1, <1>3 DEF Change
<1>5. g[R] - f[R] = Part(col, c) - Part(col, Sees(p, R))
  <2>1. /\ g[R] = Part(col, c) - Part(col, stock[R])
        /\ f[R] = Part(col, Sees(p, R)) - Part(col, stock[R])
    BY <1>1, <1>3 DEF Change
  <2>2. Part(col, c) \in Int
    BY DEF Part, Cell
  <2>3. Part(col, stock[R]) \in Int /\ Part(col, Sees(p, R)) \in Int
    BY ChangeType
  <2> HIDE DEF f, g
  <2> QED
    BY <2>1, <2>2, <2>3
<1> HIDE DEF f, g
<1>6. SumOver(f, RowsOf(x)) \in Int
  BY <1>2, RowsOfFinite, SumType
<1>7. ProductOf[R] = x => SumOver(g, RowsOf(x)) = SumOver(f, RowsOf(x)) + (g[R] - f[R])
  <2>1. ProductOf[R] = x => R \in RowsOf(x)
    BY DEF RowsOf
  <2> QED
    BY <2>1, <1>2, <1>4, RowsOfFinite, SumChange
<1>8. ProductOf[R] # x => SumOver(g, RowsOf(x)) = SumOver(f, RowsOf(x))
  <2>1. ProductOf[R] # x => R \notin RowsOf(x)
    BY DEF RowsOf
  <2> QED
    BY <2>1, <1>2, <1>4, RowsOfFinite, SumSame
<1> QED
  BY <1>5, <1>6, <1>7, <1>8 DEF f, g

\* What a transaction reads of a product is what is committed and what it has
\* changed itself; that is what its COMMIT leaves behind.
LEMMA SeenTotal ==
  ASSUME RowsTypeOK, NEW p \in Procs, NEW col \in Columns, NEW x
  PROVE  /\ TotalOf(col, stock, x) \in Int
         /\ SumOver(Change(p, col), RowsOf(x)) \in Int
         /\ TotalOf(col, Reading(p), x) = TotalOf(col, stock, x) + SumOver(Change(p, col), RowsOf(x))
         /\ CommitRows(p) => stock' = Reading(p)
<1> DEFINE f == [r \in Rows |-> Part(col, stock[r])]
           h == [r \in Rows |-> Part(col, Reading(p)[r])]
           g == Change(p, col)
<1>1. \A r \in Rows : f[r] \in Int /\ g[r] \in Int /\ h[r] = f[r] + g[r]
  <2> SUFFICES ASSUME NEW r \in Rows PROVE f[r] \in Int /\ g[r] \in Int /\ h[r] = f[r] + g[r]
    OBVIOUS
  <2>1. Reading(p)[r] = Sees(p, r)
    BY DEF Reading
  <2>2. /\ g[r] \in Int /\ g[r] = Part(col, Sees(p, r)) - Part(col, stock[r])
        /\ Part(col, stock[r]) \in Int /\ Part(col, Sees(p, r)) \in Int
    BY ChangeType
  <2> HIDE DEF g
  <2> QED
    BY <2>1, <2>2
<1> HIDE DEF f, g, h
<1>2. \A r \in RowsOf(x) : f[r] \in Int /\ g[r] \in Int /\ h[r] = f[r] + g[r]
  BY <1>1, RowsOfFinite
<1>3. SumOver(h, RowsOf(x)) = SumOver(f, RowsOf(x)) + SumOver(g, RowsOf(x))
  BY <1>2, RowsOfFinite, SumPlus
<1>4. SumOver(f, RowsOf(x)) \in Int /\ SumOver(g, RowsOf(x)) \in Int
  BY <1>2, RowsOfFinite, SumType
<1>5. CommitRows(p) => stock' = Reading(p)
  BY DEF CommitRows, Reading
<1> QED
  BY <1>3, <1>4, <1>5 DEF TotalOf, f, g, h

-----------------------------------------------------------------------------
(* How much of its order a request has placed.                             *)

\* What has been placed of line i by request r, in the middle of call c.
DoneOn(r, c, i) ==
    IF i < r.line THEN Lines[r.order][i].quantity
    ELSE IF i = r.line /\ c.op # "none" THEN Lines[r.order][i].quantity - c.left
    ELSE 0

PlacedOf(r, c, x) ==
    [i \in DOMAIN Lines[r.order] |-> IF Lines[r.order][i].product = x THEN DoneOn(r, c, i) ELSE 0]

\* What has been placed of product x.
Placed(r, c, x) == SumOver(PlacedOf(r, c, x), DOMAIN Lines[r.order])

\* The lines of an order are finitely many, each of at least one unit.
LEMMA LinesAre ==
  ASSUME NEW o \in Orders
  PROVE  /\ Len(Lines[o]) \in Nat /\ DOMAIN Lines[o] = 1 .. Len(Lines[o])
         /\ IsFiniteSet(DOMAIN Lines[o])
         /\ \A i \in DOMAIN Lines[o] : /\ i \in Nat \ {0} /\ i <= Len(Lines[o])
                                       /\ Lines[o][i].product \in Products
                                       /\ Lines[o][i].quantity \in Nat \ {0}
<1>1. Lines[o] \in Seq([product : Products, quantity : Nat \ {0}])
  BY OrderAssumption
<1>2. Len(Lines[o]) \in Nat /\ DOMAIN Lines[o] = 1 .. Len(Lines[o])
  BY <1>1, LenProperties
<1>3. IsFiniteSet(1 .. Len(Lines[o]))
  BY <1>2, FS_Interval
<1>4. \A i \in 1 .. Len(Lines[o]) : Lines[o][i] \in [product : Products, quantity : Nat \ {0}]
  BY <1>1, ElementOfSeq
<1> QED
  BY <1>2, <1>3, <1>4

\* What is placed is a number of units.
LEMMA PlacedType ==
  ASSUME NEW r, r.order \in Orders, r.line \in Nat, NEW c, c.left \in Int, NEW x
  PROVE  /\ \A i \in DOMAIN Lines[r.order] : DoneOn(r, c, i) \in Int /\ PlacedOf(r, c, x)[i] \in Int
         /\ Placed(r, c, x) \in Int
<1>1. \A i \in DOMAIN Lines[r.order] : DoneOn(r, c, i) \in Int
  BY LinesAre DEF DoneOn
<1>2. \A i \in DOMAIN Lines[r.order] : PlacedOf(r, c, x)[i] \in Int
  BY <1>1 DEF PlacedOf
<1>3. Placed(r, c, x) \in Int
  BY <1>2, LinesAre, SumType DEF Placed
<1> QED
  BY <1>1, <1>2, <1>3

\* A request that has not begun its first line has placed nothing.
LEMMA PlacedNone ==
  ASSUME NEW r, r.order \in Orders, r.line = 1, NEW c, c.op = "none", NEW x
  PROVE  Placed(r, c, x) = 0
<1>1. \A i \in DOMAIN Lines[r.order] : PlacedOf(r, c, x)[i] = 0
  BY LinesAre DEF PlacedOf, DoneOn
<1> QED
  BY <1>1, LinesAre, SumZero DEF Placed

DemandPart(o, x) ==
    [i \in DOMAIN Lines[o] |-> IF Lines[o][i].product = x THEN Lines[o][i].quantity ELSE 0]

\* What an order asks of a product, as a sum over its lines.
LEMMA DemandIs ==
  ASSUME NEW o \in Orders, NEW x
  PROVE  /\ Demand(o, x) = SumOver(DemandPart(o, x), DOMAIN Lines[o])
         /\ \A i \in DOMAIN Lines[o] : DemandPart(o, x)[i] \in Nat
         /\ Demand(o, x) \in Int /\ Demand(o, x) >= 0
<1>1. Demand(o, x) = SumOver(DemandPart(o, x), DOMAIN Lines[o])
  <2>1. DOMAIN DemandPart(o, x) = DOMAIN Lines[o]
    BY DEF DemandPart
  <2> QED
    BY <2>1, Zenon DEF Demand, SumFunction, SumOver, DemandPart
<1>2. \A i \in DOMAIN Lines[o] : DemandPart(o, x)[i] \in Nat
  BY LinesAre DEF DemandPart
<1>3. \A i \in DOMAIN Lines[o] : DemandPart(o, x)[i] \in Int
  BY <1>2
<1>4. SumOver(DemandPart(o, x), DOMAIN Lines[o]) \in Int
  BY <1>3, LinesAre, SumType
<1>5. SumOver(DemandPart(o, x), DOMAIN Lines[o]) >= 0
  BY <1>2, LinesAre, SumNonNegative
<1> QED
  BY <1>1, <1>2, <1>4, <1>5

\* A request past its last line has placed all its order asks for.
LEMMA PlacedAll ==
  ASSUME NEW r, r.order \in Orders, r.line \in Nat, r.line > Len(Lines[r.order]), NEW c, NEW x
  PROVE  Placed(r, c, x) = Demand(r.order, x)
<1>1. \A i \in DOMAIN Lines[r.order] : PlacedOf(r, c, x)[i] = DemandPart(r.order, x)[i]
  BY LinesAre DEF PlacedOf, DoneOn, DemandPart
<1>2. \A i \in DOMAIN Lines[r.order] : DemandPart(r.order, x)[i] \in Int
  BY DemandIs
<1>3. SumOver(PlacedOf(r, c, x), DOMAIN Lines[r.order]) = SumOver(DemandPart(r.order, x), DOMAIN Lines[r.order])
  BY <1>1, <1>2, LinesAre, SumSame
<1> QED
  BY <1>3, DemandIs DEF Placed

\* From a in call c to b in call d, n more units of a's line have been placed.
PlacesMore(a, c, b, d, n) ==
    \A i \in DOMAIN Lines[a.order] :
        DoneOn(b, d, i) = DoneOn(a, c, i) + (IF i = a.line THEN n ELSE 0)

\* Placing n more units of the line worked on.
LEMMA PlacedMore ==
  ASSUME NEW a, NEW b, a.order \in Orders, b.order = a.order, a.line \in Nat, b.line \in Nat,
         NEW c, NEW d, c.left \in Int, d.left \in Int, NEW n \in Int,
         a.line \in DOMAIN Lines[a.order],
         PlacesMore(a, c, b, d, n), NEW x
  PROVE  /\ Placed(a, c, x) \in Int
         /\ Placed(b, d, x) =
               Placed(a, c, x) + (IF Lines[a.order][a.line].product = x THEN n ELSE 0)
<1> DEFINE f == PlacedOf(a, c, x)
           g == PlacedOf(b, d, x)
           S == DOMAIN Lines[a.order]
           e == a.line
<1>1. \A i \in S : f[i] \in Int /\ g[i] \in Int /\ DoneOn(a, c, i) \in Int
  BY PlacedType
<1>2. /\ \A i \in S : i # e => g[i] = f[i]
      /\ Lines[a.order][e].product = x => g[e] = f[e] + n
      /\ Lines[a.order][e].product # x => g[e] = f[e]
  <2>1. \A i \in S : /\ f[i] = IF Lines[a.order][i].product = x THEN DoneOn(a, c, i) ELSE 0
                     /\ g[i] = IF Lines[a.order][i].product = x THEN DoneOn(b, d, i) ELSE 0
    BY DEF PlacedOf
  <2>2. \A i \in S : DoneOn(b, d, i) = DoneOn(a, c, i) + (IF i = e THEN n ELSE 0)
    BY DEF PlacesMore
  <2> HIDE DEF f, g
  <2> QED
    BY <1>1, <2>1, <2>2
<1>3. IsFiniteSet(S)
  BY LinesAre
<1>4. SumOver(f, S) \in Int
  BY PlacedType DEF Placed
<1> HIDE DEF f, g, S, e
<1>5. SumOver(g, S) = SumOver(f, S) + (g[e] - f[e])
  <2>1. e \in S
    BY DEF S, e
  <2>2. \A i \in S : f[i] \in Int /\ g[i] \in Int /\ (i # e => g[i] = f[i])
    BY <1>1, <1>2
  <2> QED
    BY <1>3, <2>1, <2>2, SumChange
<1>6. f[e] \in Int
  BY <1>1 DEF S, e
<1>7. SumOver(g, S) = SumOver(f, S) + (IF Lines[a.order][e].product = x THEN n ELSE 0)
  BY <1>2, <1>4, <1>5, <1>6
<1> QED
  BY <1>4, <1>7 DEF Placed, f, g, S, e

\* What is left of the line worked on is still to be placed.
LEMMA PlacedLess ==
  ASSUME NEW r, r.order \in Orders, r.line \in Nat, NEW c, c.left \in Nat, NEW x,
         r.line \in DOMAIN Lines[r.order], Lines[r.order][r.line].product = x
  PROVE  Demand(r.order, x) >=
            Placed(r, c, x) + (Lines[r.order][r.line].quantity - DoneOn(r, c, r.line))
<1> DEFINE S == DOMAIN Lines[r.order]
           f == PlacedOf(r, c, x)
           h == DemandPart(r.order, x)
           g == [i \in S |-> h[i] - f[i]]
           e == r.line
<1>1. ASSUME NEW i \in S
      PROVE  f[i] \in Int /\ h[i] \in Int /\ g[i] \in Nat /\ h[i] = f[i] + g[i]
  <2>1. f[i] \in Int /\ h[i] \in Nat /\ g[i] = h[i] - f[i] /\ DoneOn(r, c, i) \in Int
    BY PlacedType, DemandIs
  <2>2. /\ f[i] = IF Lines[r.order][i].product = x THEN DoneOn(r, c, i) ELSE 0
        /\ h[i] = IF Lines[r.order][i].product = x THEN Lines[r.order][i].quantity ELSE 0
    BY DEF PlacedOf, DemandPart
  <2>3. Lines[r.order][i].quantity \in Nat /\ Lines[r.order][i].quantity >= DoneOn(r, c, i)
    BY LinesAre DEF DoneOn
  <2> HIDE DEF f, g, h
  <2> QED
    BY <2>1, <2>2, <2>3
<1>2. g[e] = Lines[r.order][e].quantity - DoneOn(r, c, e)
  BY DEF PlacedOf, DemandPart
<1>3. IsFiniteSet(S) /\ e \in S
  BY LinesAre
<1> HIDE DEF S, f, g, h, e
<1>4. SumOver(h, S) = SumOver(f, S) + SumOver(g, S)
  <2>1. \A i \in S : f[i] \in Int /\ g[i] \in Int /\ h[i] = f[i] + g[i]
    BY <1>1
  <2> QED
    BY <1>3, <2>1, SumPlus
<1>5. SumOver(g, S) >= g[e]
  BY <1>1, <1>3, SumAtLeast
<1>6. SumOver(f, S) \in Int /\ SumOver(g, S) \in Int /\ g[e] \in Int
  <2>1. \A i \in S : f[i] \in Int /\ g[i] \in Int
    BY <1>1
  <2> QED
    BY <1>3, <2>1, SumType
<1>7. SumOver(h, S) >= SumOver(f, S) + g[e]
  BY <1>4, <1>5, <1>6
<1> QED
  BY <1>2, <1>7, DemandIs DEF Placed, S, f, h, e

-----------------------------------------------------------------------------
(* What the orders with a status ask for.                                  *)

DemandParts(x) == [o \in Orders |-> Demand(o, x)]

\* The orders of a status are finitely many; what they ask for is a natural.
LEMMA DemandOfIs ==
  ASSUME NEW s, NEW x
  PROVE  LET S == {o \in Orders : status[o] = s}
         IN  /\ IsFiniteSet(S)
             /\ DemandOf(s, x) = SumOver(DemandParts(x), S)
             /\ DemandOf(s, x) \in Int
             /\ \A o \in S : DemandOf(s, x) >= Demand(o, x)
<1> DEFINE S == {o \in Orders : status[o] = s}
<1>1. IsFiniteSet(S)
  BY OrdersFinite, FS_Subset
<1>2. DemandOf(s, x) = SumOver(DemandParts(x), S)
  BY Zenon DEF DemandOf, SumOver, DemandParts
<1>3. \A o \in S : /\ DemandParts(x)[o] = Demand(o, x)
                   /\ DemandParts(x)[o] \in Nat /\ DemandParts(x)[o] \in Int
  <2>1. \A o \in S : Demand(o, x) \in Int /\ Demand(o, x) >= 0
    BY DemandIs
  <2> QED
    BY <2>1 DEF DemandParts
<1> HIDE DEF S
<1>4. SumOver(DemandParts(x), S) \in Int
  BY <1>1, <1>3, SumType
<1>5. \A o \in S : SumOver(DemandParts(x), S) >= DemandParts(x)[o]
  BY <1>1, <1>3, SumAtLeast
<1>6. \A o \in S : DemandOf(s, x) >= Demand(o, x)
  BY <1>2, <1>3, <1>5
<1> QED
  BY <1>1, <1>2, <1>4, <1>6 DEF S

\* The order whose status changes moves its demand along.
LEMMA DemandMoves ==
  ASSUME NEW o \in Orders, \A y \in Orders \ {o} : status'[y] = status[y], NEW s, NEW x
  PROVE  /\ DemandOf(s, x) \in Int
         /\ DemandOf(s, x)' = DemandOf(s, x) + (IF status'[o] = s THEN Demand(o, x) ELSE 0)
                                             - (IF status[o] = s THEN Demand(o, x) ELSE 0)
<1> DEFINE A == {y \in Orders : status[y] = s}
           B == {y \in Orders : status'[y] = s}
           f == DemandParts(x)
<1>1. IsFiniteSet(A) /\ IsFiniteSet(B)
  BY OrdersFinite, FS_Subset
<1>2. DemandOf(s, x) = SumOver(f, A) /\ DemandOf(s, x)' = SumOver(f, B)
  BY Zenon DEF DemandOf, SumOver, DemandParts
<1>3. A \ {o} = B \ {o} /\ (o \in A <=> status[o] = s) /\ (o \in B <=> status'[o] = s)
  OBVIOUS
<1>4. f[o] = Demand(o, x) /\ Demand(o, x) \in Int /\ \A y \in Orders : f[y] \in Int
  BY DemandIs DEF DemandParts
<1>5. \A y : y \in A \/ y \in B => f[y] \in Int
  BY <1>4
<1> HIDE DEF A, B, f
<1>6. IsFiniteSet(A \ {o}) /\ IsFiniteSet(B \ {o})
  BY <1>1, FS_RemoveElement
<1>7. SumOver(f, A \ {o}) \in Int
  BY <1>5, <1>6, SumType
<1>8. ASSUME NEW S, IsFiniteSet(S), \A y \in S : f[y] \in Int
      PROVE  SumOver(f, S) = SumOver(f, S \ {o}) + (IF o \in S THEN f[o] ELSE 0) /\ SumOver(f, S) \in Int
  <2>1. o \in S => SumOver(f, S) = f[o] + SumOver(f, S \ {o})
    BY <1>8, SumRemove
  <2>2. o \notin S => S \ {o} = S
    OBVIOUS
  <2>3. SumOver(f, S) \in Int
    BY <1>8, SumType
  <2>4. SumOver(f, S \ {o}) \in Int
    <3>1. IsFiniteSet(S \ {o})
      BY <1>8, FS_RemoveElement
    <3> QED
      BY <1>8, <3>1, SumType
  <2>5. f[o] \in Int
    BY <1>4
  <2>6. CASE o \in S
    BY <2>1, <2>3, <2>4, <2>5, <2>6
  <2>7. CASE o \notin S
    <3>1. SumOver(f, S \ {o}) = SumOver(f, S)
      BY <2>2, <2>7
    <3> QED
      BY <2>3, <2>7, <3>1
  <2> QED
    BY <2>6, <2>7
<1>9. /\ SumOver(f, A) = SumOver(f, A \ {o}) + (IF o \in A THEN f[o] ELSE 0) /\ SumOver(f, A) \in Int
      /\ SumOver(f, B) = SumOver(f, B \ {o}) + (IF o \in B THEN f[o] ELSE 0)
  BY <1>1, <1>5, <1>8
<1>10. SumOver(f, B) = SumOver(f, A) + (IF o \in B THEN f[o] ELSE 0) - (IF o \in A THEN f[o] ELSE 0)
  <2>1. SumOver(f, B \ {o}) = SumOver(f, A \ {o})
    BY <1>3
  <2>2. f[o] \in Int
    BY <1>4
  <2>3. CASE o \in A
    BY <1>7, <1>9, <2>1, <2>2, <2>3
  <2>4. CASE o \notin A
    BY <1>7, <1>9, <2>1, <2>2, <2>4
  <2> QED
    BY <2>3, <2>4
<1> QED
  BY <1>2, <1>3, <1>4, <1>9, <1>10

-----------------------------------------------------------------------------
(* The invariant of the reservations.                                      *)

\* The stages in which the transaction of an order's request is open.
InTx == {"lines", "billing", "invoice", "ledger", "commit"}

\* A cancel of an order it did not read CONFIRMED releases nothing.
Bypasses(r) == r.kind = "cancel" /\ r.read # "CONFIRMED"

\* What p has changed in the rows of each product is what its request has
\* placed of it so far.
Tally(p) ==
    \A col \in Columns, x \in Products :
        SumOver(Change(p, col), RowsOf(x)) =
            Effect(StockOp(req[p].kind), col, Placed(req[p], call[p], x))

OnePile == \A r, s \in Rows : ProductOf[r] = ProductOf[s] => r = s

\* The stock call c is the one that the line of r asks for, and stays within
\* the rows of its product.
Aims(r, c) ==
    LET rows == RowsOf(Lines[r.order][r.line].product)
    IN  /\ c.op \in GuardedOps /\ c.op = StockOp(r.kind)
        /\ c.todo \subseteq rows /\ c.row \in rows \cup {NoRow}
        /\ c.op = "release" /\ OnePile => c.row # NoRow

TxOK(p) ==
    LET r == req[p]
    IN  /\ r.stage \notin InTx => \A x \in Rows : holder[x] # p
        /\ r.stage \in InTx => Tally(p)
        /\ r.stage = "lines" => ~Bypasses(r) /\ (call[p] = NoCall \/ Aims(r, call[p]))
        /\ r.stage \in InTx \ {"lines"} =>
              IF Bypasses(r) THEN r.line = 1 ELSE r.line > Len(Lines[r.order])
        /\ r.stage \in {"gate", "autoInvoice", "postGL", "postAR"} => r.kind # "cancel"
        /\ r.stage = "hold" => r.kind = "confirm"
        /\ r.stage = "publish" => status[r.order] = NewStatus(r.kind)

\* What is to be found in a column of a product, beyond the initial stock.
Booked(col, x) == IF col = "allocated" THEN DemandOf("CONFIRMED", x) ELSE 0 - DemandOf("FULFILLED", x)

Backed == \A col \in Columns, x \in Products :
              TotalOf(col, stock, x) = TotalOf(col, InitialStock, x) + Booked(col, x)

TxInv == (\A p \in Procs : TxOK(p)) /\ Backed

\* What the proofs below start from.
Ready == BillInv /\ SerialInv /\ TxInv /\ NoAdjustments

\* The facts of the other invariants used here.
LEMMA ReadyIs ==
  ASSUME Ready
  PROVE  /\ IInv /\ StockInv /\ RowsTypeOK /\ CallsOpen /\ OnePerOrder /\ Backed
         /\ call \in [Procs -> Call] /\ status \in [Orders -> Statuses]
         /\ \A p \in Procs : /\ req[p] \in Request /\ ReqOK(req[p]) /\ SerialOK(req[p])
                             /\ TxOK(p) /\ CallOK(call[p]) /\ req[p].stage # "calls"
                             /\ req[p].line \in Nat \ {0}
<1>1. \A p \in Procs : req[p] \in Request /\ ReqOK(req[p]) /\ req[p].line \in Nat \ {0}
  BY DEF Ready, BillInv, IInv, ReqInv, Request
<1>2. \A p \in Procs : req[p].stage # "calls"
  BY <1>1 DEF ReqOK, Ready, NoAdjustments
<1> QED
  BY <1>1, <1>2 DEF Ready, BillInv, SerialInv, TxInv, IInv, StockInv, InventoryTypeOK, DocsTypeOK

\* NoCall is in no operation.
LEMMA NoCallIs == NoCall.op = "none" /\ NoCall.left = 0 /\ NoCall.row = NoRow /\ NoCall \in Call
<1> QED
  BY NoCallOK DEF NoCall

\* A step of p leaves the transactions of the others in order.
LEMMA OthersOK ==
  ASSUME Ready, NEW p \in Procs, RowStep(p),
         \A q \in Procs \ {p} : req'[q] = req[q] /\ call'[q] = call[q],
         \A o \in Orders \ {req[p].order} : status'[o] = status[o]
  PROVE  \A q \in Procs \ {p} : TxOK(q)'
<1> SUFFICES ASSUME NEW q \in Procs \ {p} PROVE TxOK(q)'
  OBVIOUS
<1>1. /\ \A col \in Columns : Change(q, col)' = Change(q, col)
      /\ \A r \in Rows : holder'[r] = q <=> holder[r] = q
  <2>1. RowsTypeOK /\ q \in Procs /\ q # p
    BY ReadyIs
  <2>2. "allocated" \in Columns
    BY DEF Columns
  <2> QED
    BY <2>1, <2>2, OthersChange
<1>2. req'[q] = req[q] /\ call'[q] = call[q] /\ TxOK(q)
  BY ReadyIs
<1>3. Tally(q) => Tally(q)'
  BY <1>1, <1>2 DEF Tally
<1>4. req[q].stage = "publish" => status'[req[q].order] = status[req[q].order]
  <2>1. req[q].stage = "publish" => req[q].order \in Orders
    BY ReadyIs DEF ReqOK
  <2>2. req[q].order \in Orders => req[q].order # req[p].order
    BY ReadyIs DEF OnePerOrder
  <2> QED
    BY <2>1, <2>2
<1> QED
  BY <1>1, <1>2, <1>3, <1>4 DEF TxOK

\* A request whose transaction is over, or not yet begun, has no row.
LEMMA OutsideOK ==
  ASSUME NEW p \in Procs, req'[p].stage \notin InTx, \A r \in Rows : holder'[r] # p,
         req'[p].stage \in {"gate", "autoInvoice", "postGL", "postAR"} => req'[p].kind # "cancel",
         req'[p].stage = "hold" => req'[p].kind = "confirm",
         req'[p].stage = "publish" => status'[req'[p].order] = NewStatus(req'[p].kind)
  PROVE  TxOK(p)'
<1> QED
  BY DEF TxOK, InTx

\* A transaction that begins has changed nothing and placed nothing.
LEMMA BeginsOK ==
  ASSUME RowsTypeOK, UNCHANGED <<stock, draft, holder>>, NEW p \in Procs,
         \A r \in Rows : holder[r] # p, call'[p] = NoCall,
         req'[p].kind \in OrderKinds, req'[p].order \in Orders, req'[p].line = 1
  PROVE  Tally(p)'
<1>1. \A col \in Columns, x \in Products : SumOver(Change(p, col), RowsOf(x)) = 0
  BY NothingHeld
<1>2. \A col \in Columns : Change(p, col)' = Change(p, col)
  BY DEF Change, Sees
<1>3. \A x \in Products : Placed(req'[p], call'[p], x) = 0
  BY NoCallIs, PlacedNone
<1>4. StockOp(req'[p].kind) \in GuardedOps
  BY DEF StockOp, OrderKinds, GuardedOps
<1>5. \A col \in Columns : Effect(StockOp(req'[p].kind), col, 0) = 0
  BY <1>4, EffectPlus
<1> QED
  BY <1>1, <1>2, <1>3, <1>5 DEF Tally

\* What p reads of the product of a line it is about to release holds at least
\* what is left of the line.
LEMMA Promised ==
  ASSUME Ready, NEW p \in Procs, req[p].stage = "lines", req[p].kind = "cancel"
  PROVE  LET x == CurrentLine(p).product
         IN  /\ x \in Products
             /\ TotalOf("allocated", Reading(p), x) \in Int
             /\ TotalOf("allocated", Reading(p), x)
                   >= CurrentLine(p).quantity - DoneOn(req[p], call[p], req[p].line)
<1> DEFINE o == req[p].order
           x == CurrentLine(p).product
           left == CurrentLine(p).quantity - DoneOn(req[p], call[p], req[p].line)
<1>1. /\ o \in Orders /\ req[p].line \in DOMAIN Lines[o] /\ req[p].line \in Nat
      /\ x \in Products /\ CurrentLine(p).quantity \in Nat
  BY ReadyIs, LinesAre DEF ReqOK, CurrentLine
<1>2. status[o] = "CONFIRMED" /\ StockOp(req[p].kind) = "release"
  BY ReadyIs DEF TxOK, Bypasses, SerialOK, BeforeCommit, StockOp
<1>3. call[p] \in Call /\ call[p].left \in Nat
  <2>1. call[p] = NoCall \/ call[p].op \in GuardedOps
    BY ReadyIs DEF TxOK, Aims
  <2>2. call[p] \in Call /\ CallOK(call[p])
    BY ReadyIs
  <2> QED
    BY <2>1, <2>2, NoCallIs DEF CallOK, Call
<1>4. /\ TotalOf("allocated", stock, x) = TotalOf("allocated", InitialStock, x) + DemandOf("CONFIRMED", x)
      /\ SumOver(Change(p, "allocated"), RowsOf(x)) = 0 - Placed(req[p], call[p], x)
  <2>1. /\ TotalOf("allocated", stock, x) = TotalOf("allocated", InitialStock, x) + Booked("allocated", x)
        /\ SumOver(Change(p, "allocated"), RowsOf(x)) =
              Effect(StockOp(req[p].kind), "allocated", Placed(req[p], call[p], x))
    BY <1>1, ReadyIs DEF Backed, TxOK, Tally, InTx, Columns
  <2> QED
    BY <1>2, <2>1 DEF Booked, Effect
<1>5. TotalOf("allocated", InitialStock, x) \in Int /\ TotalOf("allocated", InitialStock, x) >= 0
  <2> DEFINE f == [r \in Rows |-> Part("allocated", InitialStock[r])]
  <2>1. \A r \in Rows : f[r] \in Nat /\ f[r] \in Int
    BY StockAssumption DEF Part
  <2> HIDE DEF f
  <2>2. SumOver(f, RowsOf(x)) \in Int /\ SumOver(f, RowsOf(x)) >= 0
    BY <2>1, RowsOfFinite, SumType, SumNonNegative
  <2> QED
    BY <2>2 DEF TotalOf, f
<1>6. DemandOf("CONFIRMED", x) \in Int /\ DemandOf("CONFIRMED", x) >= Demand(o, x)
  BY <1>1, <1>2, DemandOfIs
<1>7. Demand(o, x) \in Int /\ Demand(o, x) >= Placed(req[p], call[p], x) + left
  BY <1>1, <1>3, DemandIs, PlacedLess DEF CurrentLine
<1>8. Placed(req[p], call[p], x) \in Int /\ left \in Int
  <2>1. Placed(req[p], call[p], x) \in Int /\ DoneOn(req[p], call[p], req[p].line) \in Int
    BY <1>1, <1>3, PlacedType
  <2> QED
    BY <1>1, <2>1
<1>9. /\ SumOver(Change(p, "allocated"), RowsOf(x)) \in Int /\ TotalOf("allocated", stock, x) \in Int
      /\ TotalOf("allocated", Reading(p), x) =
            TotalOf("allocated", stock, x) + SumOver(Change(p, "allocated"), RowsOf(x))
  <2>1. RowsTypeOK /\ "allocated" \in Columns
    BY ReadyIs DEF Columns
  <2> QED
    BY <2>1, SeenTotal
<1> HIDE DEF o, x, left
<1>10. TotalOf("allocated", Reading(p), x) \in Int /\ TotalOf("allocated", Reading(p), x) >= left
  BY <1>4, <1>5, <1>6, <1>7, <1>8, <1>9
<1> QED
  BY <1>1, <1>10 DEF x, left

\* Among finitely many numbers there is a largest.
LEMMA Largest ==
  ASSUME NEW S, IsFiniteSet(S), S # {}, NEW f, \A x \in S : f[x] \in Int
  PROVE  \E m \in S : \A x \in S : f[x] <= f[m]
<1> DEFINE above(m) == {x \in S : f[x] > f[m]}
           F == {above(m) : m \in S}
<1>1. PICK T \in F : \A U \in F : U \subseteq T => U = T
  <2>1. F \in SUBSET SUBSET S /\ F # {}
    OBVIOUS
  <2> HIDE DEF F
  <2> QED
    BY <2>1, Smallest
<1>2. PICK m \in S : T = above(m)
  BY <1>1
<1>3. ASSUME NEW x \in S, ~(f[x] <= f[m]) PROVE FALSE
  <2>1. f[x] > f[m]
    BY <1>3
  <2>2. above(x) \in F /\ above(x) \subseteq T /\ x \in T /\ x \notin above(x)
    BY <1>2, <2>1
  <2> QED
    BY <1>1, <2>2
<1> QED
  BY <1>3

\* So a cancel always finds something to release for its line.
LEMMA SomethingAllocated ==
  ASSUME Ready, NEW p \in Procs, req[p].stage = "lines", req[p].kind = "cancel", call[p] = NoCall
  PROVE  ~NothingAllocated(p, CurrentLine(p).product)
<1> DEFINE x == CurrentLine(p).product
           f == [r \in Rows |-> Part("allocated", Reading(p)[r])]
<1>1. SumOver(f, RowsOf(x)) \in Int /\ SumOver(f, RowsOf(x)) > 0
  <2>1. /\ TotalOf("allocated", Reading(p), x) \in Int
        /\ TotalOf("allocated", Reading(p), x)
              >= CurrentLine(p).quantity - DoneOn(req[p], call[p], req[p].line)
    BY Promised
  <2>2. DoneOn(req[p], call[p], req[p].line) = 0
    BY NoCallIs, ReadyIs DEF DoneOn
  <2>3. CurrentLine(p).quantity \in Nat \ {0}
    BY ReadyIs, LineOK DEF IInv, At
  <2> QED
    BY <2>1, <2>2, <2>3 DEF TotalOf
<1>2. \A r \in Rows : f[r] \in Nat /\ f[r] \in Int /\ f[r] = Reading(p)[r].allocated
  <2>1. \A r \in Rows : Reading(p)[r] \in Cell /\ Reading(p)[r].allocated >= 0
    BY ReadyIs, ReadingOK
  <2> QED
    BY <2>1 DEF Part, Cell
<1> HIDE DEF f
<1>3. PICK r \in RowsOf(x) : f[r] # 0
  BY <1>1, RowsOfFinite, SumZero
<1>4. \A s \in RowsOf(x) : f[s] \in Int
  BY <1>2, RowsOfFinite
<1>5. PICK m \in RowsOf(x) : \A s \in RowsOf(x) : f[s] <= f[m]
  BY <1>3, <1>4, RowsOfFinite, Largest
<1>6. f[m] > 0
  BY <1>2, <1>3, <1>5, RowsOfFinite
<1>7. m \in Candidates("release", Reading(p), RowsOf(x))
  BY <1>2, <1>5, <1>6, RowsOfFinite DEF Candidates, Offers
<1> QED
  BY <1>7 DEF NothingAllocated

-----------------------------------------------------------------------------
(* The steps of an order's transaction.                                    *)

\* How a guarded call goes on.
LEMMA ContinuationIs ==
  ASSUME NEW c \in Call, NEW todo \in SUBSET Rows, NEW left \in Nat,
         NEW d \in Continuations(c, todo, left)
  PROVE  /\ left = 0 => d = NoCall
         /\ left # 0 => /\ d.op = c.op /\ d.left = left /\ d.todo = todo
                        /\ d.row \in todo \cup {NoRow}
                        /\ Candidates(c.op, c.seen, todo) # {} => d.row # NoRow
<1>1. CASE left = 0
  BY <1>1 DEF Continuations
<1>2. CASE left # 0
  <2> DEFINE next == Candidates(c.op, c.seen, todo)
  <2>1. PICK r \in (IF next = {} THEN {NoRow} ELSE next) :
           d = [c EXCEPT !.todo = todo, !.left = left, !.row = r]
    BY <1>2 DEF Continuations
  <2>2. next \subseteq todo
    BY DEF Candidates
  <2> HIDE DEF next
  <2>3. r \in todo \cup {NoRow} /\ (next # {} => r # NoRow)
    BY <2>1, <2>2
  <2>4. d.op = c.op /\ d.left = left /\ d.todo = todo /\ d.row = r
    BY <2>1 DEF Call
  <2> QED
    BY <1>2, <2>3, <2>4 DEF next
<1> QED
  BY <1>1, <1>2

\* What is known of a request that works on its lines.
LEMMA OnLine ==
  ASSUME Ready, NEW p \in Procs, req[p].stage = "lines"
  PROVE  /\ req[p] \in Request /\ req[p].order \in Orders /\ req[p].kind \in OrderKinds
         /\ req[p].line \in Nat \ {0} /\ req[p].line \in DOMAIN Lines[req[p].order]
         /\ CurrentLine(p) = Lines[req[p].order][req[p].line]
         /\ CurrentLine(p).product \in Products /\ CurrentLine(p).quantity \in Nat \ {0}
         /\ StockOp(req[p].kind) \in GuardedOps
         /\ Tally(p) /\ ~Bypasses(req[p]) /\ (call[p] = NoCall \/ Aims(req[p], call[p]))
<1>1. /\ req[p] \in Request /\ req[p].order \in Orders /\ req[p].kind \in OrderKinds
      /\ req[p].line \in 1 .. Len(Lines[req[p].order])
  BY ReadyIs DEF ReqOK
<1>2. StockOp(req[p].kind) \in GuardedOps
  BY <1>1 DEF StockOp, OrderKinds, GuardedOps
<1>3. Tally(p) /\ ~Bypasses(req[p]) /\ (call[p] = NoCall \/ Aims(req[p], call[p]))
  BY ReadyIs DEF TxOK, InTx
<1>4. req[p].line \in DOMAIN Lines[req[p].order] /\ req[p].line \in Nat \ {0}
  BY <1>1, LinesAre
<1> QED
  BY <1>1, <1>2, <1>3, <1>4, LinesAre DEF CurrentLine

\* The SELECT of a line's call places nothing yet.
LEMMA ListStockOK ==
  ASSUME Ready, NEW p \in Procs, ListStock(p)
  PROVE  /\ UNCHANGED <<stock, draft, holder, status, req>>
         /\ \A q \in Procs \ {p} : call'[q] = call[q]
         /\ TxOK(p)'
<1> DEFINE r    == req[p]
           line == CurrentLine(p)
           op   == StockOp(r.kind)
           c    == [NoCall EXCEPT !.op = op, !.seen = Reading(p)]
<1>1. /\ r.stage = "lines" /\ call[p] = NoCall /\ UNCHANGED <<stock, draft, holder, status, req>>
      /\ op = "release" => ~NothingAllocated(p, line.product)
      /\ \E d \in Continuations(c, RowsOf(line.product), line.quantity) : call' = [call EXCEPT ![p] = d]
  BY DEF ListStock, List, At, rowVars, docVars
<1>2. PICK d \in Continuations(c, RowsOf(line.product), line.quantity) : call' = [call EXCEPT ![p] = d]
  BY <1>1
<1>3. call'[p] = d /\ \A q \in Procs \ {p} : call'[q] = call[q]
  BY <1>2, ReadyIs
<1>4. /\ op \in GuardedOps /\ line.quantity \in Nat \ {0} /\ Tally(p) /\ ~Bypasses(r)
      /\ r.order \in Orders /\ r.line \in Nat /\ line = Lines[r.order][r.line]
  BY <1>1, OnLine
<1>5. c \in Call /\ c.op = op /\ c.seen = Reading(p)
  BY <1>4, ReadyIs, ReadingOK, NoCallOK DEF NoCall, Call, StockOps, GuardedOps
<1>6. RowsOf(line.product) \in SUBSET Rows
  BY RowsOfFinite
<1> HIDE DEF c, op, line
<1>7. /\ d.op = op /\ d.left = line.quantity /\ d.todo = RowsOf(line.product)
      /\ d.row \in RowsOf(line.product) \cup {NoRow}
      /\ Candidates(op, Reading(p), RowsOf(line.product)) # {} => d.row # NoRow
  <2>1. line.quantity \in Nat /\ line.quantity # 0
    BY <1>4
  <2>2. /\ d.op = c.op /\ d.left = line.quantity /\ d.todo = RowsOf(line.product)
        /\ d.row \in RowsOf(line.product) \cup {NoRow}
        /\ Candidates(c.op, c.seen, RowsOf(line.product)) # {} => d.row # NoRow
    BY <1>2, <1>5, <1>6, <2>1, ContinuationIs
  <2> QED
    BY <1>5, <2>2
<1>8. Aims(r, d)
  BY <1>1, <1>4, <1>7 DEF Aims, NothingAllocated, op
<1>9. Tally(p)'
  <2>1. \A i \in DOMAIN Lines[r.order] : DoneOn(r, d, i) = DoneOn(r, NoCall, i)
    <3>1. d.op # "none"
      BY <1>4, <1>7 DEF GuardedOps
    <3>2. ~(r.line < r.line)
      BY <1>4
    <3>3. DoneOn(r, d, r.line) = Lines[r.order][r.line].quantity - d.left
      BY ONLY <3>1, <3>2 DEF DoneOn
    <3>4. DoneOn(r, d, r.line) = 0
      <4>1. line.quantity - d.left = 0
        BY <1>4, <1>7
      <4> QED
        BY <1>4, <3>3, <4>1
    <3>5. DoneOn(r, NoCall, r.line) = 0
      BY <3>2, NoCallIs DEF DoneOn
    <3>6. \A i : i # r.line => DoneOn(r, d, i) = DoneOn(r, NoCall, i)
      BY DEF DoneOn
    <3> QED
      BY <3>4, <3>5, <3>6
  <2>2. \A x : Placed(r, d, x) = Placed(r, NoCall, x)
    <3>1. \A x : PlacedOf(r, d, x) = PlacedOf(r, NoCall, x)
      BY <2>1 DEF PlacedOf
    <3> QED
      BY <3>1 DEF Placed
  <2>3. \A col \in Columns : Change(p, col)' = Change(p, col)
    BY <1>1 DEF Change, Sees
  <2> QED
    BY <1>1, <1>3, <1>4, <2>2, <2>3 DEF Tally
<1>10. TxOK(p)'
  BY <1>1, <1>3, <1>4, <1>8, <1>9 DEF TxOK, InTx
<1> QED
  BY <1>1, <1>3, <1>10

\* An UPDATE places exactly what it writes, and the last of a line ends it.
LEMMA UpdateStockOK ==
  ASSUME Ready, NEW p \in Procs, UpdateStock(p)
  PROVE  /\ RowStep(p) /\ UNCHANGED <<stock, status>>
         /\ \A q \in Procs \ {p} : req'[q] = req[q] /\ call'[q] = call[q]
         /\ TxOK(p)'
<1> DEFINE a == req[p]
           b == req'[p]
           c == call[p]
           d == call'[p]
           n == Takes(c)
           R == c.row
           old == Sees(p, R)
           new == Updated(c.op, old, n)
           line == Lines[a.order][a.line]
<1>1. /\ a.stage = "lines" /\ UNCHANGED status
      /\ c.op \in {"allocate", "release", "fulfill"} /\ R # NoRow /\ CanWrite(p, R)
      /\ Fits(c.op, old, n) /\ Write(p, R, new)
      /\ \E e \in Continuations(c, c.todo \ {R}, c.left - n) : call' = [call EXCEPT ![p] = e]
      /\ Becomes(p, IF d = NoCall THEN AtLine(a, a.line + 1) ELSE a)
  BY DEF UpdateStock, Update, At, docVars
<1>2. /\ a \in Request /\ a.order \in Orders /\ a.kind \in OrderKinds
      /\ a.line \in Nat \ {0} /\ a.line \in DOMAIN Lines[a.order]
      /\ StockOp(a.kind) \in GuardedOps /\ Tally(p) /\ ~Bypasses(a)
      /\ line.product \in Products /\ line.quantity \in Nat \ {0}
  BY <1>1, OnLine
<1>3. /\ Aims(a, c) /\ c \in Call /\ CallOK(c) /\ c.op \in GuardedOps /\ c.op = StockOp(a.kind)
      /\ R \in Rows /\ ProductOf[R] = line.product
  <2>1. c = NoCall \/ Aims(a, c)
    BY <1>1, OnLine
  <2>2. Aims(a, c)
    BY <1>1, <2>1, NoCallIs
  <2> QED
    BY <1>1, <2>2, ReadyIs DEF Aims, RowsOf
<1>4. n \in Nat \ {0} /\ c.left - n \in Nat /\ c.left \in Int /\ (c.op = "release" => c.left - n = 0)
  <2>1. n \in Nat \ {0} /\ c.left - n \in Nat /\ c.left \in Int
    BY <1>1, <1>3, TakesPositive DEF Call
  <2>2. c.op = "release" => n = c.left
    BY DEF Takes
  <2> QED
    BY <2>1, <2>2
<1>5. old \in Cell /\ new \in Cell /\ \A col \in Columns : Part(col, new) - Part(col, old) = Effect(c.op, col, n)
  <2>1. old \in Cell /\ old.quantity >= 0 /\ old.allocated >= 0
    BY <1>3, ReadyIs, ReadingOK
  <2>2. new \in Cell
    BY <1>1, <1>3, <1>4, <2>1, UpdatedOK
  <2>3. \A col \in Columns : /\ Part(col, new) = Part(col, old) + Effect(c.op, col, n)
                             /\ Part(col, old) \in Int /\ Effect(c.op, col, n) \in Int
    <3>1. \A col \in Columns : Part(col, new) = Part(col, old) + Effect(c.op, col, n)
      BY <1>3, <1>4, <2>1, EffectIs
    <3>2. \A col \in Columns : Part(col, old) \in Int
      BY <2>1 DEF Part, Cell
    <3>3. \A col \in Columns : Effect(c.op, col, n) \in Int
      BY <1>3, <1>4, EffectPlus
    <3> QED
      BY <3>1, <3>2, <3>3
  <2> QED
    BY <2>1, <2>2, <2>3
<1>6. PICK e \in Continuations(c, c.todo \ {R}, c.left - n) : call' = [call EXCEPT ![p] = e]
  BY <1>1
<1>7. d = e /\ \A q \in Procs \ {p} : call'[q] = call[q]
  BY <1>6, ReadyIs
<1>8. /\ c.left - n = 0 => d = NoCall
      /\ c.left - n # 0 => /\ d.op = c.op /\ d.left = c.left - n /\ d.todo = c.todo \ {R}
                           /\ d.row \in (c.todo \ {R}) \cup {NoRow}
  <2>1. c.todo \ {R} \in SUBSET Rows
    BY <1>3 DEF Call
  <2>2. d \in Continuations(c, c.todo \ {R}, c.left - n)
    BY <1>6, <1>7
  <2>3. c \in Call /\ c.left - n \in Nat
    BY <1>3, <1>4
  <2> DEFINE T == c.todo \ {R}
             L == c.left - n
  <2>4. c \in Call /\ T \in SUBSET Rows /\ L \in Nat /\ d \in Continuations(c, T, L)
    BY <2>1, <2>2, <2>3
  <2> HIDE DEF c, d, T, L
  <2>5. /\ L = 0 => d = NoCall
        /\ L # 0 => d.op = c.op /\ d.left = L /\ d.todo = T /\ d.row \in T \cup {NoRow}
    BY <2>4, ContinuationIs
  <2> QED
    BY <2>5 DEF T, L
<1>9. /\ \A q \in Procs \ {p} : req'[q] = req[q]
      /\ b = IF d = NoCall THEN AtLine(a, a.line + 1) ELSE a
  BY <1>1, ReadyIs, OneChanges
<1>10. /\ b.order = a.order /\ b.kind = a.kind /\ b.read = a.read
       /\ c.left - n = 0 => /\ d = NoCall /\ b.line = a.line + 1
                            /\ b.stage = IF a.line + 1 <= Len(Lines[a.order]) THEN "lines"
                                         ELSE IF a.kind = "fulfill" THEN "billing" ELSE "commit"
       /\ c.left - n # 0 => b = a
  <2>1. c.left - n # 0 => d # NoCall
    BY <1>3, <1>8, NoCallIs DEF GuardedOps
  <2> QED
    BY <1>2, <1>8, <1>9, <2>1, AtLineIs
<1>11. PlacesMore(a, c, b, d, n)
  <2> SUFFICES ASSUME NEW i \in DOMAIN Lines[a.order]
               PROVE  DoneOn(b, d, i) = DoneOn(a, c, i) + (IF i = a.line THEN n ELSE 0)
    BY DEF PlacesMore
  <2>1. i \in Nat /\ Lines[a.order][i].quantity \in Nat
    BY <1>2, LinesAre
  <2>2. c.op # "none"
    BY <1>1
  <2>3. CASE c.left - n = 0
    <3>1. b.order = a.order /\ b.line = a.line + 1 /\ d.op = "none"
      BY <1>10, <2>3, NoCallIs
    <3>2. a.line \in Nat /\ n \in Nat /\ c.left = n
      BY <1>2, <1>4, <2>3
    <3> HIDE DEF a, b, c, d, n
    <3>3. DoneOn(b, d, i) = IF i < a.line + 1 THEN Lines[a.order][i].quantity ELSE 0
      BY <3>1 DEF DoneOn
    <3>4. CASE i < a.line
      BY <2>1, <3>2, <3>3, <3>4 DEF DoneOn
    <3>5. CASE i = a.line
      BY <2>1, <2>2, <3>2, <3>3, <3>5 DEF DoneOn
    <3>6. CASE i > a.line
      BY <2>1, <3>2, <3>3, <3>6 DEF DoneOn
    <3> QED
      BY <2>1, <3>2, <3>4, <3>5, <3>6
  <2>4. CASE c.left - n # 0
    <3>1. b = a /\ d.op = c.op /\ d.left = c.left - n
      BY <1>8, <1>10, <2>4
    <3> HIDE DEF a, b, c, d, n
    <3> QED
      BY <1>2, <1>4, <2>1, <2>2, <3>1 DEF DoneOn
  <2> QED
    BY <2>3, <2>4
<1>12. Tally(p)'
  <2> SUFFICES ASSUME NEW col \in Columns, NEW x \in Products
               PROVE  SumOver(Change(p, col)', RowsOf(x)) = Effect(StockOp(b.kind), col, Placed(b, d, x))
    BY DEF Tally
  <2>1. /\ SumOver(Change(p, col), RowsOf(x)) \in Int
        /\ SumOver(Change(p, col)', RowsOf(x)) =
              SumOver(Change(p, col), RowsOf(x))
                 + (IF ProductOf[R] = x THEN Part(col, new) - Part(col, old) ELSE 0)
    <3>1. RowsTypeOK /\ RowsTypeOK'
      <4>1. RowsTypeOK
        BY ReadyIs
      <4>2. RowsTypeOK'
        BY <1>1, <1>3, <1>5, <4>1 DEF Write, RowsTypeOK
      <4> QED
        BY <4>1, <4>2
    <3> HIDE DEF R, new, old
    <3> QED
      BY <1>1, <1>3, <1>5, <3>1, WriteChanges DEF old
  <2>2. SumOver(Change(p, col), RowsOf(x)) = Effect(c.op, col, Placed(a, c, x))
    BY <1>2, <1>3 DEF Tally
  <2>3. /\ Placed(a, c, x) \in Int
        /\ Placed(b, d, x) = Placed(a, c, x) + (IF line.product = x THEN n ELSE 0)
    <3>1. b.line \in Nat /\ d.left \in Int
      BY <1>2, <1>4, <1>8, <1>10, NoCallIs
    <3>2. /\ a.order \in Orders /\ b.order = a.order /\ a.line \in Nat
          /\ a.line \in DOMAIN Lines[a.order] /\ c.left \in Int /\ n \in Int
      BY <1>2, <1>4, <1>10
    <3> HIDE DEF a, b, c, d, n
    <3> QED
      BY <1>11, <3>1, <3>2, PlacedMore
  <2>4. StockOp(b.kind) = c.op
    BY <1>3, <1>10
  <2>5. \A m \in Int : Effect(c.op, col, m + n) = Effect(c.op, col, m) + Effect(c.op, col, n)
    BY <1>3, <1>4, EffectPlus
  <2>6. Part(col, new) - Part(col, old) = Effect(c.op, col, n)
    BY <1>5
  <2>7. ProductOf[R] = line.product
    BY <1>3
  <2> HIDE DEF a, b, c, d, n, R, old, new, line
  <2>8. CASE line.product = x
    <3>1. SumOver(Change(p, col)', RowsOf(x)) = Effect(c.op, col, Placed(a, c, x)) + Effect(c.op, col, n)
      BY <2>1, <2>2, <2>6, <2>7, <2>8
    <3>2. Placed(b, d, x) = Placed(a, c, x) + n
      BY <2>3, <2>8
    <3> QED
      BY <2>3, <2>4, <2>5, <3>1, <3>2
  <2>9. CASE line.product # x
    BY <2>1, <2>2, <2>3, <2>4, <2>7, <2>9
  <2> QED
    BY <2>8, <2>9
<1>13. TxOK(p)'
  <2>1. CASE c.left - n = 0
    <3>1. /\ d = NoCall /\ ~Bypasses(b) /\ b.line = a.line + 1 /\ b.order = a.order
          /\ b.stage = IF a.line + 1 <= Len(Lines[a.order]) THEN "lines"
                       ELSE IF a.kind = "fulfill" THEN "billing" ELSE "commit"
      BY <1>2, <1>10, <2>1 DEF Bypasses
    <3>2. Len(Lines[a.order]) \in Nat
      BY <1>2, LinesAre
    <3>3. b.stage \in InTx /\ (b.stage # "lines" => b.line > Len(Lines[b.order]))
      BY <1>2, <3>1, <3>2 DEF InTx
    <3> QED
      BY <1>12, <3>1, <3>3 DEF TxOK, InTx
  <2>2. CASE c.left - n # 0
    <3>1. b = a /\ d.op = c.op /\ d.todo \subseteq c.todo /\ d.row \in c.todo \cup {NoRow} /\ c.op # "release"
      BY <1>4, <1>8, <1>10, <2>2
    <3>2. Aims(b, d)
      BY <1>3, <3>1 DEF Aims
    <3> QED
      BY <1>1, <1>2, <1>12, <3>1, <3>2 DEF TxOK, InTx
  <2> QED
    BY <2>1, <2>2
<1>14. RowStep(p) /\ UNCHANGED stock
  BY <1>1, <1>3, <1>5 DEF RowStep, Write
<1> QED
  BY <1>1, <1>7, <1>9, <1>13, <1>14

\* The initial stock is a number.
LEMMA InitialIs ==
  ASSUME NEW col \in Columns, NEW x
  PROVE  TotalOf(col, InitialStock, x) \in Int
<1> DEFINE f == [r \in Rows |-> Part(col, InitialStock[r])]
<1>1. \A r \in Rows : f[r] \in Int
  BY StockAssumption DEF Part
<1> HIDE DEF f
<1>2. SumOver(f, RowsOf(x)) \in Int
  BY <1>1, RowsOfFinite, SumType
<1> QED
  BY <1>2 DEF TotalOf, f

\* While neither the committed rows nor the demands change, they stay in step.
LEMMA BackedStays ==
  ASSUME Backed, UNCHANGED stock,
         \A s \in {"CONFIRMED", "FULFILLED"}, x \in Products : DemandOf(s, x)' = DemandOf(s, x)
  PROVE  Backed'
<1>1. \A col \in Columns, x \in Products : Booked(col, x)' = Booked(col, x)
  BY DEF Booked
<1>2. \A col, x : TotalOf(col, stock, x)' = TotalOf(col, stock, x)
  BY DEF TotalOf
<1>3. \A col, x : TotalOf(col, InitialStock, x)' = TotalOf(col, InitialStock, x)
  BY DEF TotalOf
<1> QED
  BY <1>1, <1>2, <1>3 DEF Backed

\* A COMMIT moves the demand of its order and the stock by the same amount.
LEMMA CommitOrderOK ==
  ASSUME Ready, NEW p \in Procs, CommitOrder(p)
  PROVE  /\ RowStep(p)
         /\ \A q \in Procs \ {p} : req'[q] = req[q] /\ call'[q] = call[q]
         /\ \A o \in Orders \ {req[p].order} : status'[o] = status[o]
         /\ TxOK(p)' /\ Backed'
<1> DEFINE a  == req[p]
           o  == a.order
           t  == NewStatus(a.kind)
           op == StockOp(a.kind)
<1>1. /\ a.stage = "commit" /\ CommitRows(p) /\ call' = [call EXCEPT ![p] = NoCall]
      /\ status' = [status EXCEPT ![o] = t]
  BY DEF CommitOrder, CommitTx, At
<1>2. /\ o \in Orders /\ a.kind \in OrderKinds
      /\ \A q \in Procs \ {p} : req'[q] = req[q]
      /\ \/ req'[p] = Idle
         \/ req'[p].stage = "publish" /\ req'[p].kind = a.kind /\ req'[p].order = o
  BY ReadyIs, CommitOrderIs
<1>3. \A q \in Procs \ {p} : call'[q] = call[q]
  BY <1>1, ReadyIs
<1>4. /\ \A y \in Orders \ {o} : status'[y] = status[y]
      /\ status'[o] = t
  BY <1>1, <1>2, ReadyIs
<1>5. TxOK(p)'
  <2>1. \A r \in Rows : holder'[r] # p
    BY <1>1, EndsHolding
  <2>2. req'[p].stage \in {"idle", "publish"}
    BY <1>2, IdleIs
  <2>3. req'[p].stage = "publish" => status'[req'[p].order] = NewStatus(req'[p].kind)
    BY <1>2, <1>4, IdleIs
  <2> QED
    BY <2>1, <2>2, <2>3, OutsideOK DEF InTx
<1>6. /\ a.read = status[o] /\ a.read \in Accepts(a.kind)
      /\ Tally(p) /\ IF Bypasses(a) THEN a.line = 1 ELSE a.line > Len(Lines[o])
      /\ call[p] = NoCall /\ a.line \in Nat /\ op \in GuardedOps
  BY <1>1, <1>2, ReadyIs DEF SerialOK, BeforeCommit, TxOK, InTx, CallsOpen, StockOp, OrderKinds, GuardedOps
<1>7. Backed'
  <2> SUFFICES ASSUME NEW col \in Columns, NEW x \in Products
               PROVE  TotalOf(col, stock', x) = TotalOf(col, InitialStock, x) + Booked(col, x)'
    BY DEF Backed, TotalOf
  <2> DEFINE k == Placed(a, call[p], x)
  <2>1. /\ TotalOf(col, stock, x) \in Int
        /\ TotalOf(col, stock', x) = TotalOf(col, stock, x) + Effect(op, col, k)
        /\ Effect(op, col, k) \in Int
    <3>1. SumOver(Change(p, col), RowsOf(x)) = Effect(op, col, k)
      BY <1>6 DEF Tally
    <3>2. /\ TotalOf(col, stock, x) \in Int /\ SumOver(Change(p, col), RowsOf(x)) \in Int
          /\ TotalOf(col, stock', x) = TotalOf(col, stock, x) + SumOver(Change(p, col), RowsOf(x))
      BY <1>1, ReadyIs, SeenTotal
    <3> QED
      BY <3>1, <3>2
  <2>2. Bypasses(a) => k = 0
    BY <1>2, <1>6, NoCallIs, PlacedNone
  <2>3. ~Bypasses(a) => k = Demand(o, x)
    BY <1>2, <1>6, PlacedAll
  <2>4. Demand(o, x) \in Int
    BY <1>2, DemandIs
  <2>5. \A s : /\ DemandOf(s, x) \in Int
               /\ DemandOf(s, x)' = DemandOf(s, x) + (IF t = s THEN Demand(o, x) ELSE 0)
                                                   - (IF status[o] = s THEN Demand(o, x) ELSE 0)
    <3>1. o \in Orders /\ status'[o] = t /\ \A y \in Orders \ {o} : status'[y] = status[y]
      BY <1>2, <1>4
    <3> HIDE DEF o, t
    <3>2. PICK y \in Orders : y = o
      BY <3>1
    <3> QED
      BY <3>1, <3>2, DemandMoves
  <2>6. TotalOf(col, stock, x) = TotalOf(col, InitialStock, x) + Booked(col, x)
    BY ReadyIs DEF Backed
  <2>7. Booked(col, x)' = Booked(col, x) + Effect(op, col, k) /\ Booked(col, x) \in Int
    <3>1. CASE a.kind = "confirm"
      <4>1. status[o] = "DRAFT" /\ t = "CONFIRMED" /\ op = "allocate" /\ k = Demand(o, x)
        BY <1>6, <2>3, <3>1 DEF Accepts, NewStatus, StockOp, Bypasses
      <4> HIDE DEF k, t, op, o
      <4> QED
        BY <2>4, <2>5, <4>1 DEF Booked, Effect
    <3>2. CASE a.kind = "cancel" /\ ~Bypasses(a)
      <4>1. status[o] = "CONFIRMED" /\ t = "CANCELLED" /\ op = "release" /\ k = Demand(o, x)
        BY <1>6, <2>3, <3>2 DEF Accepts, NewStatus, StockOp, Bypasses
      <4> HIDE DEF k, t, op, o
      <4> QED
        BY <2>4, <2>5, <4>1 DEF Booked, Effect
    <3>3. CASE a.kind = "cancel" /\ Bypasses(a)
      <4>1. status[o] \in {"DRAFT", "ON_HOLD"} /\ t = "CANCELLED" /\ op = "release" /\ k = 0
        BY <1>6, <2>2, <3>3 DEF Accepts, NewStatus, StockOp, Bypasses
      <4> HIDE DEF k, t, op, o
      <4> QED
        BY <2>4, <2>5, <4>1 DEF Booked, Effect
    <3>4. CASE a.kind = "fulfill"
      <4>1. status[o] = "CONFIRMED" /\ t = "FULFILLED" /\ op = "fulfill" /\ k = Demand(o, x)
        BY <1>6, <2>3, <3>4 DEF Accepts, NewStatus, StockOp, Bypasses
      <4> HIDE DEF k, t, op, o
      <4> QED
        BY <2>4, <2>5, <4>1 DEF Booked, Effect
    <3> QED
      BY <1>2, <3>1, <3>2, <3>3, <3>4 DEF OrderKinds
  <2>8. TotalOf(col, InitialStock, x) \in Int
    BY InitialIs
  <2> HIDE DEF k, t, op, o
  <2> QED
    BY <2>1, <2>6, <2>7, <2>8
<1> QED
  BY <1>1, <1>2, <1>3, <1>4, <1>5, <1>7 DEF RowStep

-----------------------------------------------------------------------------
(* Every step.                                                             *)

\* While no status changes, the demands stay.
LEMMA DemandStays ==
  ASSUME UNCHANGED status
  PROVE  \A s, x : DemandOf(s, x)' = DemandOf(s, x)
<1> QED
  BY DEF DemandOf

\* A step that leaves the committed rows and the statuses alone.
LEMMA QuietStep ==
  ASSUME Ready, NEW p \in Procs, RowStep(p), UNCHANGED <<stock, status>>,
         \A q \in Procs \ {p} : req'[q] = req[q] /\ call'[q] = call[q],
         TxOK(p)'
  PROVE  TxInv'
<1>1. Backed'
  BY ReadyIs, DemandStays, BackedStays
<1>2. \A q \in Procs \ {p} : TxOK(q)'
  BY OthersOK
<1> QED
  BY <1>1, <1>2 DEF TxInv

\* A goroutine outside a transaction holds no row and is in no call.
LEMMA Outside ==
  ASSUME Ready, NEW p \in Procs, req[p].stage \notin InTx
  PROVE  call[p] = NoCall /\ \A r \in Rows : holder[r] # p
<1> QED
  BY ReadyIs DEF CallsOpen, TxOK, InTx

\* An order request arrives.
LEMMA ReadOrderTx ==
  ASSUME Ready, NEW p \in Procs, NEW kind \in OrderKinds, NEW o \in Orders, ReadOrder(p, kind, o)
  PROVE  TxInv'
<1> DEFINE r == [Idle EXCEPT !.kind = kind, !.order = o, !.read = status[o]]
           b == req'[p]
<1>1. /\ UNCHANGED <<stock, draft, holder, call, status>> /\ req[p] = Idle /\ status[o] \in Accepts(kind)
      /\ \/ kind # "cancel" /\ Becomes(p, [r EXCEPT !.stage = "gate"])
         \/ kind = "cancel" /\ status[o] = "CONFIRMED" /\ Becomes(p, AtLine(r, 1))
         \/ kind = "cancel" /\ status[o] # "CONFIRMED" /\ Becomes(p, [r EXCEPT !.stage = "commit"])
  BY DEF ReadOrder, rowVars, docVars
<1>2. /\ r \in Request /\ r.order = o /\ r.kind = kind /\ r.read = status[o] /\ r.line = 1
  BY ReadyIs, IdleOK DEF Request, OrderKinds, AllKinds, Idle
<1>3. call[p] = NoCall /\ \A x \in Rows : holder[x] # p
  BY <1>1, IdleIs, Outside DEF InTx
<1>4. \A q \in Procs \ {p} : req'[q] = req[q]
  BY <1>1, ReadyIs, OneChanges
<1> HIDE DEF r
<1>5. TxOK(p)'
  <2>1. CASE kind # "cancel" /\ Becomes(p, [r EXCEPT !.stage = "gate"])
    <3>1. b.stage = "gate" /\ b.kind = kind
      BY <1>2, <2>1, ReadyIs, OneChanges DEF Request
    <3> QED
      BY <1>1, <1>3, <2>1, <3>1, OutsideOK DEF InTx
  <2>2. CASE kind = "cancel" /\ status[o] = "CONFIRMED" /\ Becomes(p, AtLine(r, 1))
    <3>1. /\ b.kind = "cancel" /\ b.order = o /\ b.read = "CONFIRMED" /\ b.line = 1
          /\ b.stage = IF 1 <= Len(Lines[o]) THEN "lines" ELSE "commit"
      BY <1>2, <2>2, ReadyIs, OneChanges, AtLineIs
    <3>2. Tally(p)'
      BY <1>1, <1>3, <3>1, ReadyIs, BeginsOK DEF OrderKinds
    <3>3. Len(Lines[o]) \in Nat
      BY LinesAre
    <3>4. ~Bypasses(b) /\ call'[p] = NoCall /\ (b.stage = "commit" => b.line > Len(Lines[b.order]))
      BY <1>1, <1>3, <3>1, <3>3 DEF Bypasses
    <3> QED
      BY <3>1, <3>2, <3>4 DEF TxOK, InTx
  <2>3. CASE kind = "cancel" /\ status[o] # "CONFIRMED" /\ Becomes(p, [r EXCEPT !.stage = "commit"])
    <3>1. /\ b.kind = "cancel" /\ b.order = o /\ b.read = status[o] /\ b.line = 1 /\ b.stage = "commit"
      BY <1>2, <2>3, ReadyIs, OneChanges DEF Request
    <3>2. Tally(p)'
      BY <1>1, <1>3, <3>1, ReadyIs, BeginsOK DEF OrderKinds
    <3> QED
      BY <2>3, <3>1, <3>2 DEF TxOK, InTx, Bypasses
  <2> QED
    BY <1>1, <2>1, <2>2, <2>3
<1> QED
  BY <1>1, <1>4, <1>5, QuietStep DEF RowStep

\* The credit check is passed, or not.
LEMMA CheckCreditTx ==
  ASSUME Ready, NEW p \in Procs, CheckCredit(p)
  PROVE  TxInv'
<1> DEFINE a == req[p]
           b == req'[p]
<1>1. /\ a.stage = "gate" /\ UNCHANGED <<stock, draft, holder, call, status>>
      /\ \/ a.kind = "confirm" /\ Goto(p, "hold")
         \/ Becomes(p, Idle)
         \/ Becomes(p, AtLine(a, 1))
  BY DEF CheckCredit, At, rowVars, docVars
<1>2. a \in Request /\ a.order \in Orders /\ a.kind \in OrderKinds /\ a.kind # "cancel"
  BY <1>1, ReadyIs DEF ReqOK, TxOK
<1>3. call[p] = NoCall /\ \A x \in Rows : holder[x] # p
  BY <1>1, Outside DEF InTx
<1>4. \A q \in Procs \ {p} : req'[q] = req[q]
  BY <1>1, ReadyIs, OneChanges, GotoIs
<1>5. TxOK(p)'
  <2>1. CASE a.kind = "confirm" /\ Goto(p, "hold")
    BY <1>1, <1>3, <2>1, ReadyIs, GotoIs, OutsideOK DEF InTx
  <2>2. CASE Becomes(p, Idle)
    BY <1>1, <1>3, <2>2, ReadyIs, OneChanges, IdleIs, OutsideOK DEF InTx
  <2>3. CASE Becomes(p, AtLine(a, 1))
    <3>1. /\ b.kind = a.kind /\ b.order = a.order /\ b.line = 1
          /\ b.stage = IF 1 <= Len(Lines[a.order]) THEN "lines"
                       ELSE IF a.kind = "fulfill" THEN "billing" ELSE "commit"
      BY <1>2, <2>3, ReadyIs, OneChanges, AtLineIs
    <3>2. Tally(p)'
      BY <1>1, <1>2, <1>3, <3>1, ReadyIs, BeginsOK
    <3>3. Len(Lines[a.order]) \in Nat
      BY <1>2, LinesAre
    <3>4. /\ ~Bypasses(b) /\ call'[p] = NoCall /\ b.stage \in InTx
          /\ b.stage # "lines" => b.line > Len(Lines[b.order])
      BY <1>1, <1>2, <1>3, <3>1, <3>3 DEF Bypasses, InTx
    <3> QED
      BY <3>2, <3>4 DEF TxOK, InTx
  <2> QED
    BY <1>1, <2>1, <2>2, <2>3
<1> QED
  BY <1>1, <1>4, <1>5, QuietStep DEF RowStep

\* The steps between the last line and the COMMIT.
LEMMA BillingTx ==
  ASSUME Ready, NEW p \in Procs, CheckInvoice(p) \/ CreateInvoice(p) \/ PostToLedger(p)
  PROVE  TxInv'
<1> DEFINE a == req[p]
           b == req'[p]
<1>1. /\ a.stage \in {"billing", "invoice", "ledger"}
      /\ UNCHANGED <<stock, draft, holder, call, status>>
  BY DEF CheckInvoice, CreateInvoice, PostToLedger, At, rowVars, docVars
<1>2. /\ b.kind = a.kind /\ b.order = a.order /\ b.read = a.read /\ b.line = a.line
      /\ b.stage \in {"invoice", "ledger", "commit"}
      /\ \A q \in Procs \ {p} : req'[q] = req[q]
  <2>1. CASE CheckInvoice(p)
    <3>1. Goto(p, "commit") \/ Goto(p, "invoice")
      BY <2>1 DEF CheckInvoice
    <3> QED
      BY <3>1, ReadyIs, GotoIs
  <2>2. CASE CreateInvoice(p)
    BY <2>2, ReadyIs, CreateInvoiceIs
  <2>3. CASE PostToLedger(p)
    BY <2>3, ReadyIs, GotoIs DEF PostToLedger
  <2> QED
    BY <2>1, <2>2, <2>3
<1>3. Tally(p)'
  <2>1. Tally(p)
    BY <1>1, ReadyIs DEF TxOK, InTx
  <2>2. \A x : Placed(b, call[p], x) = Placed(a, call[p], x)
    <3>1. \A x : PlacedOf(b, call[p], x) = PlacedOf(a, call[p], x)
      BY <1>2 DEF PlacedOf, DoneOn
    <3> QED
      BY <1>2, <3>1 DEF Placed
  <2>3. \A col \in Columns : Change(p, col)' = Change(p, col)
    BY <1>1 DEF Change, Sees
  <2> QED
    BY <1>1, <1>2, <2>1, <2>2, <2>3 DEF Tally
<1>4. IF Bypasses(b) THEN b.line = 1 ELSE b.line > Len(Lines[b.order])
  BY <1>1, <1>2, ReadyIs DEF TxOK, InTx, Bypasses
<1>5. TxOK(p)'
  BY <1>2, <1>3, <1>4 DEF TxOK, InTx
<1> QED
  BY <1>1, <1>2, <1>5, QuietStep DEF RowStep

\* A request ends without a COMMIT.
LEMMA EndsTx ==
  ASSUME Ready, NEW p \in Procs, GateRefuses(p) \/ LineFails(p) \/ Fail(p) \/ DeadlockVictim(p)
  PROVE  TxInv'
<1>1. /\ UNCHANGED <<stock, status>>
      /\ \/ UNCHANGED <<draft, holder, call>> /\ req[p].stage = "gate"
         \/ RollbackRows(p) /\ call' = [call EXCEPT ![p] = NoCall]
  BY DEF GateRefuses, LineFails, Fail, DeadlockVictim, RollbackTx, RollbackRows, At, rowVars, docVars
<1>2. req'[p] = Idle /\ \A q \in Procs \ {p} : req'[q] = req[q]
  BY ReadyIs, EndIs
<1>3. \A r \in Rows : holder'[r] # p
  BY <1>1, Outside, EndsHolding DEF InTx
<1>4. TxOK(p)'
  BY <1>2, <1>3, IdleIs, OutsideOK DEF InTx
<1>5. RowStep(p) /\ \A q \in Procs \ {p} : call'[q] = call[q]
  BY <1>1, ReadyIs DEF RowStep
<1> QED
  BY <1>1, <1>2, <1>4, <1>5, QuietStep

\* The documents written outside a transaction.
LEMMA DocumentsTx ==
  ASSUME Ready, NEW p \in Procs,
         \/ PlaceOnHold(p) \/ Publish(p) \/ AutoInvoice(p) \/ PostToGL(p) \/ PostToAR(p)
         \/ \E o \in Orders : CompleteDelivery(p, o)
  PROVE  TxInv'
<1>1. UNCHANGED <<stock, draft, holder, call>>
  BY DEF PlaceOnHold, Publish, AutoInvoice, PostToGL, PostToAR, CompleteDelivery, rowVars
<1>2. /\ req[p].stage \in {"hold", "publish", "autoInvoice", "postGL", "postAR", "idle"}
      /\ \A q \in Procs \ {p} : req'[q] = req[q]
      /\ \/ req'[p].stage = "idle"
         \/ req'[p].stage \in {"autoInvoice", "postGL", "postAR"} /\ req'[p].kind # "cancel"
  <2>1. CASE PlaceOnHold(p) \/ Publish(p) \/ PostToAR(p)
    BY <2>1, ReadyIs, OneChanges, IdleIs DEF PlaceOnHold, Publish, PostToAR, At
  <2>2. CASE AutoInvoice(p) \/ PostToGL(p)
    <3>1. req[p].kind # "cancel"
      BY <2>2, ReadyIs DEF AutoInvoice, PostToGL, At, TxOK
    <3> QED
      BY <2>2, <3>1, ReadyIs, GotoIs DEF AutoInvoice, PostToGL, At
  <2>3. CASE \E o \in Orders : CompleteDelivery(p, o)
    <3>1. /\ req[p] = Idle
          /\ \/ UNCHANGED req
             \/ /\ req'[p].stage = "autoInvoice" /\ req'[p].kind = "deliver"
                /\ \A q \in Procs \ {p} : req'[q] = req[q]
      BY <2>3, ReadyIs, CompleteDeliveryIs
    <3> QED
      BY <3>1, IdleIs
  <2> QED
    BY <2>1, <2>2, <2>3
<1>3. call[p] = NoCall /\ \A r \in Rows : holder[r] # p
  BY <1>2, Outside DEF InTx
<1>4. TxOK(p)'
  BY <1>1, <1>2, <1>3, OutsideOK DEF InTx
<1>5. RowStep(p)
  BY <1>1 DEF RowStep
<1>6. CASE PlaceOnHold(p)
  <2> DEFINE o == req[p].order
  <2>1. req[p].stage = "hold" /\ status' = [status EXCEPT ![o] = "ON_HOLD"]
    BY <1>6 DEF PlaceOnHold, At
  <2>2. /\ o \in Orders /\ req[p].kind = "confirm" /\ status[o] = "DRAFT"
    BY <2>1, ReadyIs DEF ReqOK, TxOK, SerialOK, BeforeCommit, Accepts
  <2>3. status'[o] = "ON_HOLD" /\ \A y \in Orders \ {o} : status'[y] = status[y]
    BY <2>1, <2>2, ReadyIs
  <2> HIDE DEF o
  <2>4. PICK y \in Orders : y = o
    BY <2>2
  <2>5. \A s \in {"CONFIRMED", "FULFILLED"}, x \in Products : DemandOf(s, x)' = DemandOf(s, x)
    BY <2>2, <2>3, <2>4, DemandMoves
  <2>6. Backed'
    BY <1>1, <2>5, ReadyIs, BackedStays
  <2>7. \A q \in Procs \ {p} : TxOK(q)'
    BY <1>1, <1>2, <1>5, <2>3, OthersOK DEF o
  <2> QED
    BY <1>4, <2>6, <2>7 DEF TxInv
<1>7. CASE ~PlaceOnHold(p)
  <2>1. UNCHANGED status
    BY <1>7 DEF Publish, AutoInvoice, PostToGL, PostToAR, CompleteDelivery, docVars
  <2> QED
    BY <1>1, <1>2, <1>4, <1>5, <2>1, QuietStep
<1> QED
  BY <1>6, <1>7

\* Every step preserves the invariant of the reservations.
LEMMA TxNext == Ready /\ [Next]_vars => TxInv'
<1> SUFFICES ASSUME Ready, [Next]_vars PROVE TxInv'
  OBVIOUS
<1>1. CASE UNCHANGED vars
  <2>1. UNCHANGED <<stock, draft, holder, call, status, req>>
    BY <1>1 DEF vars, rowVars, docVars
  <2>2. \A p \in Procs : TxOK(p)'
    <3> SUFFICES ASSUME NEW p \in Procs PROVE TxOK(p)'
      OBVIOUS
    <3>1. TxOK(p) /\ \A col \in Columns : Change(p, col)' = Change(p, col)
      BY <2>1, ReadyIs DEF Change, Sees
    <3>2. Tally(p) => Tally(p)'
      BY <2>1, <3>1 DEF Tally
    <3> QED
      BY <2>1, <3>1, <3>2 DEF TxOK
  <2>3. Backed'
    BY <2>1, ReadyIs, DemandStays, BackedStays
  <2> QED
    BY <2>2, <2>3 DEF TxInv
<1>2. ASSUME NEW p \in Procs, NEW kind \in OrderKinds, NEW o \in Orders, ReadOrder(p, kind, o)
      PROVE  TxInv'
  BY <1>2, ReadOrderTx
<1>3. ASSUME NEW p \in Procs,
             \/ PlaceOnHold(p) \/ Publish(p) \/ AutoInvoice(p) \/ PostToGL(p) \/ PostToAR(p)
             \/ \E o \in Orders : CompleteDelivery(p, o)
      PROVE  TxInv'
  BY <1>3, DocumentsTx
<1>4. ASSUME NEW p \in Procs, NEW a, BeginAdjust(p, a) \/ BeginMove(p, a)
      PROVE  TxInv'
  BY <1>4 DEF BeginAdjust, BeginMove, Ready, NoAdjustments
<1>5. ASSUME NEW p \in Procs, CheckCredit(p) PROVE TxInv'
  BY <1>5, CheckCreditTx
<1>6. ASSUME NEW p \in Procs, ListStock(p) PROVE TxInv'
  BY <1>6, ListStockOK, QuietStep DEF RowStep
<1>7. ASSUME NEW p \in Procs, SkipLine(p) PROVE TxInv'
  BY <1>7, SomethingAllocated DEF SkipLine, At
<1>8. ASSUME NEW p \in Procs, UpdateStock(p) PROVE TxInv'
  BY <1>8, UpdateStockOK, QuietStep
<1>9. ASSUME NEW p \in Procs, CheckInvoice(p) \/ CreateInvoice(p) \/ PostToLedger(p) PROVE TxInv'
  BY <1>9, BillingTx
<1>10. ASSUME NEW p \in Procs, GateRefuses(p) \/ LineFails(p) \/ Fail(p) \/ DeadlockVictim(p)
       PROVE  TxInv'
  BY <1>10, EndsTx
<1>11. ASSUME NEW p \in Procs, CommitOrder(p) PROVE TxInv'
  BY <1>11, CommitOrderOK, OthersOK DEF TxInv
<1>12. ASSUME NEW p \in Procs, ReadRow(p) \/ WriteRow(p) \/ WriteFails(p) \/ EndStockRequest(p)
       PROVE  TxInv'
  BY <1>12, ReadyIs DEF ReadRow, WriteRow, WriteFails, EndStockRequest, At
<1> QED
  BY <1>1, <1>2, <1>3, <1>4, <1>5, <1>6, <1>7, <1>8, <1>9, <1>10, <1>11, <1>12
     DEF Next, Arrive, Serve, OrderKinds

\* The initial stock is promised to nobody in particular.
LEMMA InitTx == Init => TxInv
<1> SUFFICES ASSUME Init PROVE TxInv
  OBVIOUS
<1>1. /\ \A p \in Procs : req[p] = Idle
      /\ \A r \in Rows : holder[r] = Nobody
      /\ \A o \in Orders : status[o] = "DRAFT"
      /\ stock = InitialStock
  BY DEF Init, InventoryInit, RowsInit
<1>2. \A p \in Procs : TxOK(p)
  BY <1>1, IdleIs DEF TxOK, InTx
<1>3. \A s \in {"CONFIRMED", "FULFILLED"} : \A x : DemandOf(s, x) = 0
  <2> SUFFICES ASSUME NEW s \in {"CONFIRMED", "FULFILLED"}, NEW x PROVE DemandOf(s, x) = 0
    OBVIOUS
  <2> DEFINE S == {o \in Orders : status[o] = s}
  <2>1. IsFiniteSet(S) /\ DemandOf(s, x) = SumOver(DemandParts(x), S)
    BY DemandOfIs
  <2>2. \A o \in S : DemandParts(x)[o] = 0
    BY <1>1
  <2> HIDE DEF S
  <2> QED
    BY <2>1, <2>2, SumZero
<1>4. Backed
  <2> SUFFICES ASSUME NEW col \in Columns, NEW x \in Products
               PROVE  TotalOf(col, stock, x) = TotalOf(col, InitialStock, x) + Booked(col, x)
    BY DEF Backed
  <2>1. Booked(col, x) = 0
    BY <1>3 DEF Booked
  <2>2. TotalOf(col, InitialStock, x) \in Int
    BY InitialIs
  <2> QED
    BY <1>1, <2>1, <2>2
<1> QED
  BY <1>2, <1>4 DEF TxInv

\* The invariant holds in every reachable state.
LEMMA TxInvHolds == Serial /\ NoAdjustments => (Spec => []TxInv)
<1> SUFFICES ASSUME Serial, NoAdjustments PROVE Spec => []TxInv
  OBVIOUS
<1>1. BillInv /\ SerialInv /\ TxInv /\ [Next]_vars => TxInv'
  BY TxNext DEF Ready
<1> QED
  BY <1>1, InitTx, BillInvHolds, SerialInvHolds, PTL DEF Spec

\* With one request at a time on an order, and no AdjustStock or MoveStock,
\* what is allocated of a product is what the CONFIRMED orders ask of it,
\* whatever requests on different orders interleave, fail or deadlock.
THEOREM AllocationBackedHolds == Serial /\ NoAdjustments => (Spec => []AllocationBacked)
<1> SUFFICES ASSUME Serial, NoAdjustments PROVE Spec => []AllocationBacked
  OBVIOUS
<1>1. TxInv => AllocationBacked
  <2>1. \A rows, x : AllocatedIn(rows, x) = TotalOf("allocated", rows, x)
    BY Zenon DEF AllocatedIn, TotalOf, SumOver, Part
  <2>2. \A x : Booked("allocated", x) = DemandOf("CONFIRMED", x)
    BY DEF Booked
  <2> QED
    BY <2>1, <2>2 DEF TxInv, Backed, Columns, AllocationBacked
<1> QED
  BY <1>1, TxInvHolds, PTL

\* Under the same conditions, what has left the yard of a product is what the
\* FULFILLED orders asked for.
THEOREM StockShippedHolds == Serial /\ NoAdjustments => (Spec => []StockShipped)
<1> SUFFICES ASSUME Serial, NoAdjustments PROVE Spec => []StockShipped
  OBVIOUS
<1>1. TxInv => StockShipped
  <2>1. \A rows, x : OnHandIn(rows, x) = TotalOf("quantity", rows, x)
    BY Zenon DEF OnHandIn, TotalOf, SumOver, Part
  <2>2. \A x : Booked("quantity", x) = 0 - DemandOf("FULFILLED", x)
    BY DEF Booked
  <2>3. \A col \in Columns : \A x : TotalOf(col, InitialStock, x) \in Int
    BY InitialIs
  <2>4. \A x : DemandOf("FULFILLED", x) \in Int
    BY DemandOfIs
  <2> QED
    BY <2>1, <2>2, <2>3, <2>4 DEF TxInv, Backed, Columns, StockShipped
<1> QED
  BY <1>1, TxInvHolds, PTL

-----------------------------------------------------------------------------
(* Cancelling.                                                             *)

\* A sum over one element.
LEMMA SumOne ==
  ASSUME NEW e, NEW f, f[e] \in Int
  PROVE  SumOver(f, {e}) = f[e]
<1>1. IsFiniteSet({e}) /\ IsFiniteSet({})
  BY FS_Singleton, FS_EmptySet
<1>2. SumOver(f, {e}) = f[e] + SumOver(f, {e} \ {e})
  <2>1. \A x \in {e} : f[x] \in Int
    OBVIOUS
  <2> QED
    BY <1>1, <2>1, SumRemove
<1>3. {e} \ {e} = {}
  OBVIOUS
<1>4. SumOver(f, {}) = 0
  BY <1>1, SumStep
<1> QED
  BY <1>2, <1>3, <1>4

\* With one row per product, no line of a cancel fails: what the order was
\* promised is in that row.
LEMMA CancelLineSucceeds ==
  ASSUME Ready, OnePile, NEW p \in Procs, req[p].kind = "cancel"
  PROVE  ~LineFails(p)
<1> SUFFICES ASSUME LineFails(p) PROVE FALSE
  OBVIOUS
<1> DEFINE c == call[p]
           R == c.row
           x == CurrentLine(p).product
           f == [r \in Rows |-> Part("allocated", Reading(p)[r])]
<1>1. req[p].stage = "lines" /\ StockOp(req[p].kind) = "release"
  BY DEF LineFails, At, StockOp
<1>2. UpdateFails(p)
  BY <1>1 DEF LineFails, Insufficient
<1>3. c.op = "release" /\ R \in RowsOf(x) /\ x \in Products /\ R \in Rows
  <2>1. Aims(req[p], c)
    BY <1>1, <1>2, OnLine, NoCallIs DEF UpdateFails
  <2> QED
    BY <1>1, <2>1, OnLine, RowsOfFinite DEF Aims
<1>4. ~(Sees(p, R).allocated >= c.left)
  BY <1>2, <1>3 DEF UpdateFails, Fits, Takes
<1>5. RowsOf(x) = {R}
  BY <1>3 DEF OnePile, RowsOf
<1>6. f[R] = Sees(p, R).allocated /\ f[R] \in Int
  BY <1>3, ReadyIs, ReadingOK DEF Part, Cell
<1>7. TotalOf("allocated", Reading(p), x) = f[R]
  <2> HIDE DEF f
  <2>1. SumOver(f, {R}) = f[R]
    BY <1>6, SumOne
  <2> QED
    BY <1>5, <2>1 DEF TotalOf, f
<1>8. DoneOn(req[p], c, req[p].line) = CurrentLine(p).quantity - c.left
  BY <1>1, <1>3, OnLine DEF DoneOn
<1>9. TotalOf("allocated", Reading(p), x) >= CurrentLine(p).quantity - DoneOn(req[p], c, req[p].line)
  BY <1>1, Promised
<1>10. CurrentLine(p).quantity \in Int /\ c.left \in Int /\ Sees(p, R).allocated \in Int
  BY <1>1, <1>6, OnLine, ReadyIs DEF Call
<1> QED
  BY <1>4, <1>6, <1>7, <1>8, <1>9, <1>10

\* A cancel request ends with the order cancelled, or as a deadlock's victim.
LEMMA CancelStep ==
  ASSUME Ready, OnePile, ~Failures, [Next]_vars, NEW p \in Procs,
         req[p].kind = "cancel", req'[p] = Idle
  PROVE  status[req[p].order] = "CANCELLED" \/ Deadlocked(p)
<1>1. req[p] # Idle /\ req'[p].kind = "none" /\ req[p] \in Request
  BY ReadyIs, IdleIs
<1>2. PICK q \in Procs : Arrive(q) \/ Serve(q) \/ Fail(q)
  BY <1>1 DEF Next, vars
<1>3. q = p
  <2>1. \A k \in Procs : req[k] \in Request /\ ReqOK(req[k])
    BY ReadyIs
  <2>2. q # p => UNCHANGED req[p]
    BY <1>2, ReadyIs DEF Arrive, Serve, ReadOrder, CompleteDelivery, BeginAdjust, BeginMove,
       GateRefuses, CheckCredit, PlaceOnHold, ListStock, SkipLine, UpdateStock, LineFails, CheckInvoice,
       CreateInvoice, PostToLedger, CommitOrder, Publish, AutoInvoice, PostToGL, PostToAR, ReadRow,
       WriteRow, WriteFails, EndStockRequest, DeadlockVictim, Fail, Becomes, Goto, IInv, ReqInv
  <2> QED
    BY <1>1, <2>2
<1>4. ~Arrive(p) /\ ~Fail(p)
  BY <1>1 DEF Arrive, Fail, ReadOrder, CompleteDelivery, BeginAdjust, BeginMove
<1>5. ~GateRefuses(p) /\ ~CheckCredit(p) /\ ~PlaceOnHold(p)
  BY ReadyIs DEF GateRefuses, CheckCredit, PlaceOnHold, At, TxOK
<1>6. ~ListStock(p) /\ ~LineFails(p)
  BY <1>1, CancelLineSucceeds DEF ListStock
<1>7. ~SkipLine(p) /\ ~UpdateStock(p)
  <2>1. AtLine(req[p], req[p].line + 1).kind = "cancel"
    BY <1>1, AtLineIs
  <2> QED
    BY <1>1, <2>1, ReadyIs, OneChanges DEF SkipLine, UpdateStock
<1>8. ~CheckInvoice(p) /\ ~CreateInvoice(p) /\ ~PostToLedger(p)
  <2>1. /\ CheckInvoice(p) => Goto(p, "commit") \/ Goto(p, "invoice")
        /\ PostToLedger(p) => Goto(p, "commit")
    BY DEF CheckInvoice, PostToLedger
  <2> QED
    BY <1>1, <2>1, ReadyIs, GotoIs, CreateInvoiceIs
<1>9. ~CommitOrder(p) /\ ~AutoInvoice(p) /\ ~PostToGL(p)
  BY <1>1, ReadyIs, GotoIs DEF CommitOrder, AutoInvoice, PostToGL
<1>10. ~PostToAR(p) /\ ~ReadRow(p) /\ ~WriteRow(p) /\ ~WriteFails(p) /\ ~EndStockRequest(p)
  BY ReadyIs DEF PostToAR, ReadRow, WriteRow, WriteFails, EndStockRequest, At, TxOK
<1>11. CASE Publish(p)
  <2>1. status[req[p].order] = NewStatus("cancel")
    BY <1>11, ReadyIs DEF Publish, At, TxOK
  <2> QED
    BY <2>1 DEF NewStatus
<1>12. CASE DeadlockVictim(p)
  <2>1. ~Crossed(p)
    BY CrossedAtLedger DEF Ready, BillInv, Bills, BillOK
  <2> QED
    BY <1>12, <2>1 DEF DeadlockVictim
<1> QED
  BY <1>2, <1>3, <1>4, <1>5, <1>6, <1>7, <1>8, <1>9, <1>10, <1>11, <1>12 DEF Serve

\* With one request at a time on an order, one row per product, no statement
\* that fails, and stock that only Allocate, Release and Fulfill change, a
\* cancel request that got past its status check ends with the order cancelled,
\* unless its transaction is chosen to break a deadlock.
THEOREM CancelSucceedsHolds ==
  Serial /\ NoAdjustments /\ OnePile /\ ~Failures => (Spec => CancelSucceeds)
<1> SUFFICES ASSUME Serial, NoAdjustments, OnePile, ~Failures PROVE Spec => CancelSucceeds
  OBVIOUS
<1>1. BillInv /\ SerialInv /\ TxInv /\ [Next]_vars =>
         [\A p \in Procs :
             req[p].kind = "cancel" /\ req'[p] = Idle
                 => status[req[p].order] = "CANCELLED" \/ Deadlocked(p)]_vars
  BY CancelStep DEF Ready
<1> QED
  BY <1>1, TxInvHolds, BillInvHolds, SerialInvHolds, PTL DEF Spec, CancelSucceeds

-----------------------------------------------------------------------------
(* Moving.                                                                 *)

\* One stock request at a time, next to orders that ship nothing meanwhile.
Conserving == MaxStockTasks <= 1 /\ "fulfill" \notin Kinds

\* The two AdjustStock calls of a MoveStock.
Leaves(m)  == [op |-> "add", row |-> m.from, quantity |-> -m.quantity]
Arrives(m) == [op |-> "add", row |-> m.to, quantity |-> m.quantity]

\* The products nobody counts, and what the transaction of p has changed of one.
Fixed(x) == x \in Products /\ \A a \in Adjustments : ProductOf[a.row] # x
Shift(p, x) == SumOver(Change(p, "quantity"), RowsOf(x))
Steady(p) == \A x \in Products : Fixed(x) => Shift(p, x) = 0

\* Only half a move changes the quantity of a product, by what it has to add.
Moving(p) ==
    LET mv == req[p].moving
    IN  \/ mv = <<>> /\ Steady(p)
        \/ \E a \in Adjustments : mv = <<a>> /\ Steady(p)
        \/ \E m \in Moves : mv = <<Leaves(m), Arrives(m)>> /\ Steady(p)
        \/ \E m \in Moves : /\ mv = <<Arrives(m)>>
                            /\ \A x \in Products : Fixed(x) =>
                                  Shift(p, x) = 0 - (IF ProductOf[m.to] = x THEN m.quantity ELSE 0)

\* What an AdjustStock read of the quantity of its row is still so.
Reads(p) ==
    LET a == Head(req[p].moving)
        c == call[p]
    IN  c = NoCall \/ /\ req[p].moving # <<>>
                      /\ c.op = a.op /\ c.row = a.row /\ c.left = a.quantity
                      /\ c.seen[c.row].quantity = Sees(p, c.row).quantity

\* Who is in no stock request changes no quantity.
Untouched(p) == \A r \in Rows : Change(p, "quantity")[r] = 0

HandOK(p) ==
    IF req[p].stage = "calls" THEN Moving(p) /\ Reads(p)
    ELSE req[p].kind # "fulfill" /\ call[p].op # "fulfill" /\ Untouched(p)

OneCaller == \A p, q \in Procs : req[p].stage = "calls" /\ req[q].stage = "calls" => p = q

HandInv == OneCaller /\ (\A p \in Procs : HandOK(p)) /\ OnHandConserved

\* What the proofs below start from.
Poised == BillInv /\ HandInv /\ Conserving

\* The committed quantities of two states are the same.
SameQuantities == \A r \in Rows : stock'[r].quantity = stock[r].quantity

LEMMA PoisedIs ==
  ASSUME Poised
  PROVE  /\ IInv /\ StockInv /\ RowsTypeOK /\ CallsOpen /\ OneCaller /\ OnHandConserved
         /\ call \in [Procs -> Call] /\ req \in [Procs -> Request]
         /\ \A p \in Procs : req[p] \in Request /\ ReqOK(req[p]) /\ HandOK(p) /\ CallOK(call[p])
<1> QED
  BY DEF Poised, BillInv, HandInv, IInv, StockInv, InventoryTypeOK, ReqInv

\* The next AdjustStock call of a stock request.
LEMMA HeadIs ==
  ASSUME Poised, NEW p \in Procs, req[p].moving # <<>>
  PROVE  /\ Head(req[p].moving).op \in {"add", "set"} /\ Head(req[p].moving).row \in Rows
         /\ Head(req[p].moving).quantity \in Int
<1>1. req[p].moving \in Seq([op : {"add", "set"}, row : Rows, quantity : Int])
  BY PoisedIs DEF Request
<1>2. Head(req[p].moving) \in [op : {"add", "set"}, row : Rows, quantity : Int]
  BY <1>1, HeadTailProperties
<1> QED
  BY <1>2

\* What is on hand is the sum of one column.
LEMMA OnHandIs == \A rows, x : OnHandIn(rows, x) = TotalOf("quantity", rows, x)
<1> QED
  BY Zenon DEF OnHandIn, TotalOf, SumOver, Part

\* Rows with the same quantities hold the same.
LEMMA SameOnHand ==
  ASSUME RowsTypeOK, SameQuantities, NEW x
  PROVE  OnHandIn(stock', x) = OnHandIn(stock, x)
<1> DEFINE f == [r \in Rows |-> Part("quantity", stock[r])]
           g == [r \in Rows |-> Part("quantity", stock'[r])]
<1>1. \A r \in Rows : f[r] \in Int /\ g[r] = f[r]
  BY DEF RowsTypeOK, Cell, SameQuantities, Part
<1> HIDE DEF f, g
<1>2. \A r \in RowsOf(x) : f[r] \in Int /\ g[r] = f[r]
  BY <1>1, RowsOfFinite
<1>3. SumOver(g, RowsOf(x)) = SumOver(f, RowsOf(x))
  BY <1>2, RowsOfFinite, SumSame
<1> QED
  BY <1>3, OnHandIs DEF TotalOf, f, g

\* What p sees of a quantity is the committed one and its own change of it.
LEMMA SeesQuantity ==
  ASSUME RowsTypeOK, NEW p \in Procs, NEW r \in Rows
  PROVE  /\ Change(p, "quantity")[r] \in Int /\ stock[r].quantity \in Int
         /\ Sees(p, r).quantity = stock[r].quantity + Change(p, "quantity")[r]
<1>1. "quantity" \in Columns /\ \A c : Part("quantity", c) = c.quantity
  BY DEF Columns, Part
<1> QED
  BY <1>1, ChangeType

\* A step of p leaves the transactions of the others as they are.
LEMMA OthersHand ==
  ASSUME Poised, RowsTypeOK', NEW p \in Procs, RowStep(p), SameQuantities \/ req[p].stage = "calls",
         \A q \in Procs \ {p} : req'[q] = req[q] /\ call'[q] = call[q]
  PROVE  \A q \in Procs \ {p} : HandOK(q)'
<1> SUFFICES ASSUME NEW q \in Procs \ {p} PROVE HandOK(q)'
  OBVIOUS
<1>1. /\ req'[q] = req[q] /\ call'[q] = call[q] /\ HandOK(q) /\ RowsTypeOK
      /\ call[q] \in Call /\ CallOK(call[q])
  BY PoisedIs
<1>2. Change(q, "quantity")' = Change(q, "quantity")
  <2>1. q \in Procs /\ q # p /\ "quantity" \in Columns
    BY DEF Columns
  <2> QED
    BY <1>1, <2>1, OthersChange
<1>3. CASE req[q].stage # "calls"
  BY <1>1, <1>2, <1>3 DEF HandOK, Untouched
<1>4. CASE req[q].stage = "calls"
  <2>1. SameQuantities
    BY <1>4, PoisedIs DEF OneCaller
  <2>2. \A r \in Rows : Sees(q, r)'.quantity = Sees(q, r).quantity
    <3> SUFFICES ASSUME NEW r \in Rows PROVE Sees(q, r)'.quantity = Sees(q, r).quantity
      OBVIOUS
    <3>1. Sees(q, r).quantity = stock[r].quantity + Change(q, "quantity")[r]
      BY <1>1, SeesQuantity
    <3>2. Sees(q, r)'.quantity = stock'[r].quantity + Change(q, "quantity")'[r]
      <4>1. Change(q, "quantity")'[r] = Sees(q, r)'.quantity - stock'[r].quantity
        BY DEF Change, Part
      <4>2. Sees(q, r)'.quantity \in Int /\ stock'[r].quantity \in Int
        BY DEF RowsTypeOK, Sees, Cell
      <4> QED
        BY <4>1, <4>2
    <3> QED
      BY <1>2, <2>1, <3>1, <3>2 DEF SameQuantities
  <2>3. Moving(q)'
    <3>1. \A x : Shift(q, x)' = Shift(q, x)
      BY <1>2 DEF Shift
    <3>2. Steady(q) => Steady(q)'
      BY <3>1 DEF Steady, Fixed
    <3>3. Moving(q)
      BY <1>1, <1>4 DEF HandOK
    <3> QED
      BY <1>1, <3>1, <3>2, <3>3 DEF Moving, Fixed
  <2>4. Reads(q)'
    <3>1. CASE call[q] = NoCall
      BY <1>1, <3>1 DEF Reads
    <3>2. CASE call[q] # NoCall
      <4>1. Reads(q) /\ Moving(q)
        BY <1>1, <1>4 DEF HandOK
      <4>2. call[q].row \in Rows
        <5>1. Head(req[q].moving).op \in {"add", "set"}
          BY <3>2, <4>1, HeadIs DEF Reads
        <5> QED
          BY <1>1, <3>2, <4>1, <5>1 DEF Reads, CallOK
      <4> QED
        BY <1>1, <2>2, <4>1, <4>2 DEF Reads
    <3> QED
      BY <3>1, <3>2
  <2> QED
    BY <1>1, <1>4, <2>3, <2>4 DEF HandOK
<1> QED
  BY <1>3, <1>4

\* The state that a step of p leaves behind is in order when p itself is.
LEMMA HandStep ==
  ASSUME Poised, RowsTypeOK', NEW p \in Procs, RowStep(p), SameQuantities,
         \A q \in Procs \ {p} : req'[q] = req[q] /\ call'[q] = call[q],
         \/ req'[p].stage = "calls" => req[p].stage = "calls"
         \/ \A q \in Procs : req[q].stage # "calls",
         HandOK(p)'
  PROVE  HandInv'
<1>1. \A q \in Procs \ {p} : HandOK(q)'
  BY OthersHand
<1>2. OneCaller'
  BY PoisedIs DEF OneCaller
<1>3. OnHandConserved'
  BY PoisedIs, SameOnHand DEF OnHandConserved
<1> QED
  BY <1>1, <1>2, <1>3 DEF HandInv

\* A statement that leaves the quantities of the rows as p saw them.
KeepsQuantity(p) ==
    \/ \E r \in Rows, c \in Cell : CanWrite(p, r) /\ Write(p, r, c) /\ c.quantity = Sees(p, r).quantity
    \/ CommitRows(p) \/ RollbackRows(p) \/ UNCHANGED <<stock, draft, holder>>

LEMMA UntouchedStays ==
  ASSUME RowsTypeOK, NEW p \in Procs, Untouched(p), KeepsQuantity(p)
  PROVE  RowStep(p) /\ SameQuantities /\ Untouched(p)'
<1>1. \A r \in Rows : Sees(p, r).quantity = stock[r].quantity
  <2> SUFFICES ASSUME NEW r \in Rows PROVE Sees(p, r).quantity = stock[r].quantity
    OBVIOUS
  <2>1. Change(p, "quantity")[r] = 0
    BY DEF Untouched
  <2> QED
    BY <2>1, SeesQuantity
<1>2. SameQuantities
  BY <1>1 DEF KeepsQuantity, Write, CommitRows, RollbackRows, SameQuantities
<1>3. \A r \in Rows : Sees(p, r)'.quantity = stock'[r].quantity /\ stock'[r].quantity \in Int
  <2> SUFFICES ASSUME NEW r \in Rows
               PROVE  Sees(p, r)'.quantity = stock'[r].quantity /\ stock'[r].quantity \in Int
    OBVIOUS
  <2>1. stock'[r].quantity = stock[r].quantity /\ stock[r].quantity \in Int
    BY <1>2, SeesQuantity DEF SameQuantities
  <2>2. CASE UNCHANGED <<stock, draft, holder>>
    BY <1>1, <2>1, <2>2 DEF Sees
  <2>3. CASE CommitRows(p) \/ RollbackRows(p)
    BY <2>1, <2>3, EndsHolding DEF Sees
  <2>4. CASE \E R \in Rows, c \in Cell : CanWrite(p, R) /\ Write(p, R, c) /\ c.quantity = Sees(p, R).quantity
    <3>1. PICK R \in Rows, c \in Cell : Write(p, R, c) /\ c.quantity = Sees(p, R).quantity
      BY <2>4
    <3>2. /\ holder'[R] = p /\ draft'[R] = c
          /\ \A s \in Rows \ {R} : holder'[s] = holder[s] /\ draft'[s] = draft[s]
      BY <3>1 DEF Write, RowsTypeOK
    <3>3. stock' = stock
      BY <3>1 DEF Write
    <3>4. CASE r = R
      BY <1>1, <2>1, <3>1, <3>2, <3>4 DEF Sees
    <3>5. CASE r # R
      BY <1>1, <2>1, <3>2, <3>3, <3>5 DEF Sees
    <3> QED
      BY <3>4, <3>5
  <2> QED
    BY <2>2, <2>3, <2>4 DEF KeepsQuantity
<1>4. Untouched(p)'
  BY <1>3 DEF Untouched, Change, Part
<1>5. RowStep(p)
  BY DEF KeepsQuantity, RowStep
<1> QED
  BY <1>2, <1>4, <1>5

\* A step of a goroutine that is in no stock request, nor begins one.
LEMMA OrderHand ==
  ASSUME Poised, RowsTypeOK', NEW p \in Procs, KeepsQuantity(p),
         \A q \in Procs \ {p} : req'[q] = req[q] /\ call'[q] = call[q],
         req[p].stage # "calls", req'[p].stage # "calls",
         req'[p].kind # "fulfill", call'[p].op # "fulfill"
  PROVE  HandInv'
<1>1. Untouched(p)
  BY PoisedIs DEF HandOK
<1>2. RowStep(p) /\ SameQuantities /\ Untouched(p)'
  BY <1>1, PoisedIs, UntouchedStays
<1>3. HandOK(p)'
  BY <1>2 DEF HandOK
<1> QED
  BY <1>2, <1>3, HandStep

\* The order requests and the deliveries, outside their stock calls.
LEMMA OrderStepsHand ==
  ASSUME Poised, RowsTypeOK', NEW p \in Procs,
         \/ \E o \in Orders, kind \in OrderKinds : ReadOrder(p, kind, o)
         \/ \E o \in Orders : CompleteDelivery(p, o)
         \/ GateRefuses(p) \/ CheckCredit(p) \/ PlaceOnHold(p) \/ SkipLine(p)
         \/ CheckInvoice(p) \/ CreateInvoice(p) \/ PostToLedger(p) \/ CommitOrder(p) \/ Publish(p)
         \/ AutoInvoice(p) \/ PostToGL(p) \/ PostToAR(p)
  PROVE  HandInv'
<1>1. /\ KeepsQuantity(p)
      /\ UNCHANGED call \/ call' = [call EXCEPT ![p] = NoCall]
  BY DEF ReadOrder, CompleteDelivery, GateRefuses, CheckCredit, PlaceOnHold, SkipLine, CheckInvoice,
         CreateInvoice, PostToLedger, CommitOrder, CommitTx, Publish, AutoInvoice, PostToGL, PostToAR,
         KeepsQuantity, rowVars
<1>2. req[p].stage # "calls"
  BY IdleIs DEF ReadOrder, CompleteDelivery, GateRefuses, CheckCredit, PlaceOnHold, SkipLine, CheckInvoice,
         CreateInvoice, PostToLedger, CommitOrder, Publish, AutoInvoice, PostToGL, PostToAR, At
<1>3. req[p].kind # "fulfill" /\ call[p].op # "fulfill"
  BY <1>2, PoisedIs DEF HandOK
<1>4. (\A q \in Procs \ {p} : call'[q] = call[q]) /\ call'[p].op # "fulfill"
  BY <1>1, <1>3, PoisedIs, NoCallIs
<1>5. /\ req'[p].stage # "calls" /\ req'[p].kind # "fulfill"
      /\ \A q \in Procs \ {p} : req'[q] = req[q]
  <2>1. CASE \E o \in Orders, kind \in OrderKinds : ReadOrder(p, kind, o)
    <3>1. PICK o \in Orders, kind \in OrderKinds : ReadOrder(p, kind, o)
      BY <2>1
    <3>2. kind # "fulfill"
      BY <3>1 DEF ReadOrder, Poised, Conserving
    <3> QED
      BY <3>1, <3>2, PoisedIs, ReadOrderIs
  <2>2. CASE \E o \in Orders : CompleteDelivery(p, o)
    BY <1>2, <1>3, <2>2, PoisedIs, CompleteDeliveryIs
  <2>3. CASE GateRefuses(p) \/ CheckCredit(p) \/ SkipLine(p) \/ CheckInvoice(p) \/ PostToLedger(p)
    <3>1. CASE GateRefuses(p)
      BY <3>1, PoisedIs, EndIs, IdleIs
    <3>2. CASE ~GateRefuses(p)
      BY <1>2, <1>3, <2>3, <3>2, PoisedIs, AdvanceIs, IdleIs DEF Advanced
    <3> QED
      BY <3>1, <3>2
  <2>4. CASE PlaceOnHold(p) \/ Publish(p) \/ PostToAR(p)
    BY <2>4, PoisedIs, OneChanges, IdleIs DEF PlaceOnHold, Publish, PostToAR
  <2>5. CASE AutoInvoice(p) \/ PostToGL(p)
    BY <1>3, <2>5, PoisedIs, GotoIs DEF AutoInvoice, PostToGL
  <2>6. CASE CreateInvoice(p)
    BY <1>3, <2>6, PoisedIs, CreateInvoiceIs
  <2>7. CASE CommitOrder(p)
    BY <1>3, <2>7, PoisedIs, CommitOrderIs
  <2> QED
    BY <2>1, <2>2, <2>3, <2>4, <2>5, <2>6, <2>7
<1> QED
  BY <1>1, <1>2, <1>4, <1>5, OrderHand

\* The stock calls of the order requests.
LEMMA CallStepsHand ==
  ASSUME Poised, RowsTypeOK', NEW p \in Procs, ListStock(p) \/ UpdateStock(p)
  PROVE  HandInv'
<1>1. /\ req[p].stage = "lines" /\ req[p].kind \in OrderKinds /\ req[p].kind # "fulfill"
      /\ call[p].op # "fulfill"
  BY PoisedIs DEF ListStock, UpdateStock, At, ReqOK, HandOK
<1>2. /\ req'[p].stage # "calls" /\ req'[p].kind # "fulfill"
      /\ \A q \in Procs \ {p} : req'[q] = req[q]
  BY <1>1, PoisedIs, AdvanceIs, IdleIs DEF Advanced
<1>3. KeepsQuantity(p) /\ (\A q \in Procs \ {p} : call'[q] = call[q]) /\ call'[p].op # "fulfill"
  <2>1. CASE ListStock(p)
    <3> DEFINE op == StockOp(req[p].kind)
               c  == [NoCall EXCEPT !.op = op, !.seen = Reading(p)]
               x  == CurrentLine(p).product
               n  == CurrentLine(p).quantity
    <3>1. PICK d \in Continuations(c, RowsOf(x), n) : call' = [call EXCEPT ![p] = d]
      BY <2>1 DEF ListStock, List
    <3>2. op \in GuardedOps \ {"fulfill"}
      BY <1>1 DEF StockOp, OrderKinds, GuardedOps
    <3>3. c \in Call /\ c.op = op
      <4>1. Reading(p) \in [Rows -> Cell]
        BY PoisedIs, ReadingOK
      <4> QED
        BY <3>2, <4>1, NoCallIs DEF Call, StockOps, GuardedOps
    <3>4. n \in Nat
      BY <1>1, PoisedIs, LineOK DEF At, IInv
    <3> HIDE DEF c, op, x, n
    <3>5. d = NoCall \/ d.op = op
      BY <3>1, <3>3, <3>4, RowsOfFinite, ContinuationIs
    <3>6. call'[p] = d /\ \A q \in Procs \ {p} : call'[q] = call[q]
      BY <3>1, PoisedIs
    <3>7. KeepsQuantity(p)
      BY <2>1 DEF ListStock, List, KeepsQuantity, rowVars
    <3> QED
      BY <3>2, <3>5, <3>6, <3>7, NoCallIs
  <2>2. CASE UpdateStock(p)
    <3> DEFINE c == call[p]
               n == Takes(c)
               old == Sees(p, c.row)
               new == Updated(c.op, old, n)
               rest == c.todo \ {c.row}
    <3>1. /\ c.op \in {"allocate", "release"} /\ c.row # NoRow /\ CanWrite(p, c.row)
          /\ Write(p, c.row, new) /\ Fits(c.op, old, n)
          /\ \E d \in Continuations(c, rest, c.left - n) : call' = [call EXCEPT ![p] = d]
      BY <1>1, <2>2 DEF UpdateStock, Update
    <3>2. /\ c \in Call /\ CallOK(c) /\ c.row \in Rows /\ rest \in SUBSET Rows
      BY <3>1, PoisedIs DEF Call
    <3>3. n \in Nat /\ c.left - n \in Nat
      BY <3>1, <3>2, TakesPositive DEF GuardedOps
    <3>4. old \in Cell /\ old.quantity >= 0 /\ old.allocated >= 0
      BY <3>2, PoisedIs, ReadingOK
    <3>5. new \in Cell
      BY <3>1, <3>3, <3>4, UpdatedOK DEF GuardedOps
    <3>6. new.quantity = old.quantity
      BY <3>1, <3>4 DEF Updated, Cell
    <3>7. KeepsQuantity(p)
      BY <3>1, <3>2, <3>5, <3>6 DEF KeepsQuantity
    <3>8. PICK d \in Continuations(c, rest, c.left - n) : call' = [call EXCEPT ![p] = d]
      BY <3>1
    <3>9. call'[p] = d /\ \A q \in Procs \ {p} : call'[q] = call[q]
      BY <3>8, PoisedIs
    <3>10. d = NoCall \/ d.op = c.op
      <4> DEFINE m == c.left - n
      <4>1. m \in Nat /\ d \in Continuations(c, rest, m)
        BY <3>3, <3>8
      <4> HIDE DEF m, rest, c, n
      <4> QED
        BY <3>2, <4>1, ContinuationIs
    <3> QED
      BY <1>1, <3>7, <3>9, <3>10, NoCallIs
  <2> QED
    BY <2>1, <2>2
<1> QED
  BY <1>1, <1>2, <1>3, OrderHand

\* A rollback undoes what its transaction has moved.
LEMMA RollbackHand ==
  ASSUME Poised, RowsTypeOK', NEW p \in Procs,
         LineFails(p) \/ WriteFails(p) \/ Fail(p) \/ DeadlockVictim(p)
  PROVE  HandInv'
<1>1. RollbackRows(p) /\ call' = [call EXCEPT ![p] = NoCall] /\ Becomes(p, Idle)
  BY DEF LineFails, WriteFails, Fail, DeadlockVictim, RollbackTx
<1>2. /\ req'[p] = Idle /\ call'[p] = NoCall
      /\ \A q \in Procs \ {p} : req'[q] = req[q] /\ call'[q] = call[q]
  BY <1>1, PoisedIs, OneChanges
<1>3. SameQuantities /\ RowStep(p)
  BY <1>1 DEF RollbackRows, SameQuantities, RowStep
<1>4. Untouched(p)'
  <2>1. \A r \in Rows : Sees(p, r)' = stock'[r] /\ stock'[r].quantity \in Int
    BY <1>1, EndsHolding DEF Sees, RowsTypeOK, Cell
  <2> QED
    BY <2>1 DEF Untouched, Change, Part
<1>5. HandOK(p)'
  BY <1>2, <1>4, IdleIs, NoCallIs DEF HandOK
<1> QED
  BY <1>2, <1>3, <1>5, IdleIs, HandStep

\* Who has touched nothing has shifted nothing.
LEMMA UntouchedSteady ==
  ASSUME NEW p \in Procs, Untouched(p)
  PROVE  Steady(p)
<1>1. \A x : SumOver(Change(p, "quantity"), RowsOf(x)) = 0
  <2> DEFINE f == Change(p, "quantity")
  <2>1. \A r \in Rows : f[r] = 0
    BY DEF Untouched
  <2> HIDE DEF f
  <2>2. \A x : \A r \in RowsOf(x) : f[r] = 0
    BY <2>1, RowsOfFinite
  <2>3. \A x : SumOver(f, RowsOf(x)) = 0
    BY <2>2, RowsOfFinite, SumZero
  <2> QED
    BY <2>3 DEF f
<1> QED
  BY <1>1 DEF Steady, Shift

\* A stock request begins while there is no other.
LEMMA BeginsHand ==
  ASSUME Poised, RowsTypeOK', NEW p \in Procs,
         (\E a \in Adjustments : BeginAdjust(p, a)) \/ (\E m \in Moves : BeginMove(p, m))
  PROVE  HandInv'
<1>1. /\ req[p] = Idle /\ Cardinality(StockTasks) < MaxStockTasks
      /\ UNCHANGED <<stock, draft, holder, call>>
  BY DEF BeginAdjust, BeginMove, rowVars
<1>2. \A q \in Procs : req[q].stage # "calls"
  <2>1. IsFiniteSet(StockTasks)
    BY FiniteAssumption, FS_Subset DEF StockTasks
  <2>2. Cardinality(StockTasks) \in Nat /\ (Cardinality(StockTasks) = 0 <=> StockTasks = {})
    BY <2>1, FS_CardinalityType, FS_EmptySet
  <2>3. Cardinality(StockTasks) < 1
    BY <1>1, <2>2, RequestAssumption DEF Poised, Conserving
  <2>4. StockTasks = {}
    BY <2>2, <2>3
  <2> QED
    BY <2>4, PoisedIs DEF StockTasks, ReqOK
<1>3. call[p] = NoCall /\ Untouched(p)
  BY <1>1, IdleIs, PoisedIs DEF CallsOpen, HandOK
<1>4. /\ req'[p].stage = "calls" /\ \A q \in Procs \ {p} : req'[q] = req[q]
      /\ \/ \E a \in Adjustments : req'[p].moving = <<a>>
         \/ \E m \in Moves : req'[p].moving = <<Leaves(m), Arrives(m)>>
  <2>1. CASE \E a \in Adjustments : BeginAdjust(p, a)
    <3>1. PICK a \in Adjustments :
             Becomes(p, [Idle EXCEPT !.kind = "adjust", !.stage = "calls", !.moving = <<a>>])
      BY <2>1 DEF BeginAdjust
    <3>2. req'[p] = [Idle EXCEPT !.kind = "adjust", !.stage = "calls", !.moving = <<a>>]
          /\ \A q \in Procs \ {p} : req'[q] = req[q]
      BY <3>1, PoisedIs, OneChanges
    <3> QED
      BY <3>2 DEF Idle
  <2>2. CASE \E m \in Moves : BeginMove(p, m)
    <3>1. PICK m \in Moves :
             Becomes(p, [Idle EXCEPT !.kind = "move", !.stage = "calls", !.moving = <<Leaves(m), Arrives(m)>>])
      BY <2>2 DEF BeginMove, Leaves, Arrives
    <3>2. req'[p] = [Idle EXCEPT !.kind = "move", !.stage = "calls", !.moving = <<Leaves(m), Arrives(m)>>]
          /\ \A q \in Procs \ {p} : req'[q] = req[q]
      BY <3>1, PoisedIs, OneChanges
    <3> QED
      BY <3>2 DEF Idle
  <2> QED
    BY <2>1, <2>2
<1>5. HandOK(p)'
  <2>1. Steady(p)'
    <3>1. Steady(p)
      BY <1>3, UntouchedSteady
    <3>2. Change(p, "quantity")' = Change(p, "quantity")
      BY <1>1 DEF Change, Sees
    <3> QED
      BY <3>1, <3>2 DEF Steady, Shift, Fixed
  <2>2. Moving(p)'
    BY <1>4, <2>1 DEF Moving
  <2>3. Reads(p)'
    BY <1>1, <1>3 DEF Reads
  <2> QED
    BY <1>4, <2>2, <2>3 DEF HandOK
<1> QED
  BY <1>1, <1>2, <1>4, <1>5, HandStep DEF RowStep, SameQuantities

\* GetInventory of a stock request reads its row as it is.
LEMMA ReadRowHand ==
  ASSUME Poised, RowsTypeOK', NEW p \in Procs, ReadRow(p)
  PROVE  HandInv'
<1> DEFINE a == Head(req[p].moving)
           c == [op |-> a.op, seen |-> Reading(p), todo |-> {}, row |-> a.row, left |-> a.quantity]
<1>1. /\ req[p].stage = "calls" /\ req[p].moving # <<>> /\ UNCHANGED <<stock, draft, holder, req>>
      /\ call' = [call EXCEPT ![p] = c]
  BY DEF ReadRow, At, GetInventory, rowVars
<1>2. call'[p] = c /\ \A q \in Procs \ {p} : call'[q] = call[q]
  BY <1>1, PoisedIs
<1>3. a.row \in Rows
  BY <1>1, HeadIs
<1>4. Moving(p)'
  <2>1. Change(p, "quantity")' = Change(p, "quantity")
    BY <1>1 DEF Change, Sees
  <2>2. (\A x : Shift(p, x)' = Shift(p, x)) /\ (Steady(p) => Steady(p)')
    BY <2>1 DEF Shift, Steady, Fixed
  <2>3. Moving(p)
    BY <1>1, PoisedIs DEF HandOK
  <2> QED
    BY <1>1, <2>2, <2>3 DEF Moving, Fixed
<1>5. Reads(p)'
  <2>1. c.seen[c.row].quantity = Sees(p, c.row)'.quantity
    BY <1>1, <1>3 DEF Reading, Sees
  <2> QED
    BY <1>1, <1>2, <2>1 DEF Reads
<1>6. HandOK(p)'
  BY <1>1, <1>4, <1>5 DEF HandOK
<1> QED
  BY <1>1, <1>2, <1>6, HandStep DEF RowStep, SameQuantities

\* UpdateInventory adds to a row what its call says, or counts a product.
LEMMA WriteRowHand ==
  ASSUME Poised, RowsTypeOK', NEW p \in Procs, WriteRow(p)
  PROVE  HandInv'
<1> DEFINE a   == Head(req[p].moving)
           c   == call[p]
           R   == c.row
           new == [quantity |-> Adjusted(c), allocated |-> c.seen[R].allocated]
           mv  == req[p].moving
<1>1. /\ req[p].stage = "calls" /\ mv # <<>> /\ c.op \in {"add", "set"}
      /\ Write(p, R, new) /\ CanWrite(p, R) /\ call' = [call EXCEPT ![p] = NoCall]
      /\ Becomes(p, [req[p] EXCEPT !.moving = Tail(mv)]) /\ Adjusted(c) \in Int
  BY MaxQuantityAssumption DEF WriteRow, UpdateInventory, At
<1>2. /\ call'[p] = NoCall /\ req'[p].moving = Tail(mv) /\ req'[p].stage = "calls"
      /\ \A q \in Procs \ {p} : req'[q] = req[q] /\ call'[q] = call[q]
  <2>1. /\ req'[p] = [req[p] EXCEPT !.moving = Tail(mv)]
        /\ \A q \in Procs \ {p} : req'[q] = req[q]
    BY <1>1, PoisedIs, OneChanges
  <2>2. req[p] \in Request
    BY PoisedIs
  <2>3. req'[p].moving = Tail(mv) /\ req'[p].stage = req[p].stage
    BY <2>1, <2>2 DEF Request
  <2> QED
    BY <1>1, <2>1, <2>3, PoisedIs
<1>3. /\ c.op = a.op /\ R = a.row /\ c.left = a.quantity /\ R \in Rows /\ c.left \in Int
      /\ c.seen[R].quantity = Sees(p, R).quantity /\ Moving(p)
  <2>1. Reads(p) /\ Moving(p)
    BY <1>1, PoisedIs DEF HandOK
  <2> QED
    BY <1>1, <2>1, HeadIs, NoCallIs DEF Reads
<1>4. new \in Cell /\ Sees(p, R).quantity \in Int
  <2>1. c \in Call /\ Sees(p, R) \in Cell
    BY <1>3, PoisedIs, ReadingOK
  <2> QED
    BY <1>1, <1>3, <2>1 DEF Call, Cell
<1>5. RowStep(p) /\ SameQuantities
  BY <1>1, <1>3, <1>4 DEF RowStep, Write, SameQuantities
<1>6. \A x : /\ Shift(p, x) \in Int
             /\ Shift(p, x)' = Shift(p, x) + (IF ProductOf[a.row] = x THEN Adjusted(c) - Sees(p, R).quantity ELSE 0)
  <2>1. "quantity" \in Columns /\ Part("quantity", new) = Adjusted(c)
        /\ Part("quantity", Sees(p, R)) = Sees(p, R).quantity
    BY DEF Columns, Part
  <2> HIDE DEF new
  <2> QED
    BY <1>1, <1>3, <1>4, <2>1, PoisedIs, WriteChanges DEF Shift
<1>7. a.op = "add" => Adjusted(c) - Sees(p, R).quantity = a.quantity
  BY <1>3, <1>4 DEF Adjusted
<1>8. Moving(p)'
  <2>1. CASE \E b \in Adjustments : mv = <<b>> /\ Steady(p)
    <3>1. PICK b \in Adjustments : mv = <<b>> /\ Steady(p)
      BY <2>1
    <3>2. a = b /\ Tail(mv) = <<>>
      BY <3>1
    <3>3. Steady(p)'
      BY <1>6, <3>1, <3>2 DEF Steady, Fixed
    <3> QED
      BY <1>2, <3>2, <3>3 DEF Moving
  <2>2. CASE \E m \in Moves : mv = <<Leaves(m), Arrives(m)>> /\ Steady(p)
    <3>1. PICK m \in Moves : mv = <<Leaves(m), Arrives(m)>> /\ Steady(p)
      BY <2>2
    <3>2. a = Leaves(m) /\ Tail(mv) = <<Arrives(m)>>
      BY <3>1
    <3>3. a.op = "add" /\ a.row = m.from /\ a.quantity = -m.quantity /\ m.quantity \in Int
          /\ ProductOf[m.from] = ProductOf[m.to]
      BY <3>2, RequestAssumption, MoveAssumption DEF Leaves
    <3>4. \A x \in Products : Fixed(x) =>
             Shift(p, x)' = 0 - (IF ProductOf[m.to] = x THEN m.quantity ELSE 0)
      BY <1>6, <1>7, <3>1, <3>3 DEF Steady
    <3> QED
      BY <1>2, <3>2, <3>4 DEF Moving, Fixed, Arrives
  <2>3. CASE \E m \in Moves : /\ mv = <<Arrives(m)>>
                              /\ \A x \in Products : Fixed(x) =>
                                    Shift(p, x) = 0 - (IF ProductOf[m.to] = x THEN m.quantity ELSE 0)
    <3>1. PICK m \in Moves : /\ mv = <<Arrives(m)>>
                             /\ \A x \in Products : Fixed(x) =>
                                   Shift(p, x) = 0 - (IF ProductOf[m.to] = x THEN m.quantity ELSE 0)
      BY <2>3
    <3>2. a = Arrives(m) /\ Tail(mv) = <<>>
      BY <3>1
    <3>3. a.op = "add" /\ a.row = m.to /\ a.quantity = m.quantity /\ m.quantity \in Int
      BY <3>2, RequestAssumption DEF Arrives
    <3>4. Steady(p)'
      BY <1>6, <1>7, <3>1, <3>3 DEF Steady, Fixed
    <3> QED
      BY <1>2, <3>2, <3>4 DEF Moving
  <2> QED
    BY <1>1, <1>3, <2>1, <2>2, <2>3 DEF Moving
<1>9. HandOK(p)'
  BY <1>2, <1>8 DEF HandOK, Reads
<1> QED
  BY <1>1, <1>2, <1>5, <1>9, HandStep

\* The COMMIT of a stock request, when both halves of a move are written.
LEMMA EndsHand ==
  ASSUME Poised, RowsTypeOK', NEW p \in Procs, EndStockRequest(p)
  PROVE  HandInv'
<1>1. /\ req[p].stage = "calls" /\ req[p].moving = <<>> /\ CommitRows(p)
      /\ call' = [call EXCEPT ![p] = NoCall] /\ Becomes(p, Idle)
  BY DEF EndStockRequest, At, CommitTx
<1>2. /\ req'[p] = Idle /\ call'[p] = NoCall
      /\ \A q \in Procs \ {p} : req'[q] = req[q] /\ call'[q] = call[q]
  BY <1>1, PoisedIs, OneChanges
<1>3. Steady(p)
  <2>1. Moving(p)
    BY <1>1, PoisedIs DEF HandOK
  <2>2. \A x, y : <<x>> # <<>> /\ <<x, y>> # <<>>
    OBVIOUS
  <2> QED
    BY <1>1, <2>1, <2>2 DEF Moving
<1>4. OnHandConserved'
  <2> SUFFICES ASSUME NEW x \in Products, Fixed(x)
               PROVE  OnHandIn(stock', x) = OnHandIn(InitialStock, x)
    BY DEF OnHandConserved, Fixed
  <2>1. OnHandIn(stock, x) = OnHandIn(InitialStock, x)
    BY PoisedIs DEF OnHandConserved, Fixed
  <2>2. /\ TotalOf("quantity", stock, x) \in Int
        /\ TotalOf("quantity", stock', x) = TotalOf("quantity", stock, x) + Shift(p, x)
    <3>1. RowsTypeOK /\ "quantity" \in Columns
      BY PoisedIs DEF Columns
    <3> QED
      BY <1>1, <3>1, SeenTotal DEF Shift
  <2>3. Shift(p, x) = 0
    BY <1>3 DEF Steady
  <2> QED
    BY <2>1, <2>2, <2>3, OnHandIs
<1>5. HandOK(p)'
  <2>1. \A r \in Rows : Sees(p, r)' = stock'[r] /\ stock'[r].quantity \in Int
    BY <1>1, EndsHolding DEF Sees, RowsTypeOK, Cell
  <2>2. Untouched(p)'
    BY <2>1 DEF Untouched, Change, Part
  <2> QED
    BY <1>2, <2>2, IdleIs, NoCallIs DEF HandOK
<1>6. \A q \in Procs \ {p} : HandOK(q)'
  BY <1>1, <1>2, OthersHand DEF RowStep
<1>7. OneCaller'
  BY <1>2, IdleIs, PoisedIs DEF OneCaller
<1> QED
  BY <1>4, <1>5, <1>6, <1>7 DEF HandInv

\* Every step preserves the invariant of the moves.
LEMMA HandNext == Poised /\ [Next]_vars => HandInv'
<1> SUFFICES ASSUME Poised, [Next]_vars PROVE HandInv'
  OBVIOUS
<1>1. RowsTypeOK'
  BY BillNext DEF Poised, BillInv, IInv, StockInv, InventoryTypeOK
<1>2. CASE UNCHANGED vars
  <2>1. UNCHANGED <<stock, draft, holder, call, req>>
    BY <1>2 DEF vars, rowVars
  <2>2. ASSUME NEW p \in Procs PROVE HandOK(p)'
    <3>1. Change(p, "quantity")' = Change(p, "quantity") /\ \A r : Sees(p, r)' = Sees(p, r)
      BY <2>1 DEF Change, Sees
    <3>2. (\A x : Shift(p, x)' = Shift(p, x)) /\ (Steady(p) => Steady(p)')
      BY <3>1 DEF Shift, Steady, Fixed
    <3>3. Moving(p) => Moving(p)'
      BY <2>1, <3>2 DEF Moving, Fixed
    <3>4. Reads(p) => Reads(p)'
      BY <2>1, <3>1 DEF Reads
    <3> QED
      BY <2>1, <3>1, <3>3, <3>4, PoisedIs DEF HandOK, Untouched
  <2> QED
    BY <2>1, <2>2, PoisedIs DEF HandInv, OneCaller, OnHandConserved
<1>3. ASSUME NEW p \in Procs,
             \/ \E o \in Orders, kind \in OrderKinds : ReadOrder(p, kind, o)
             \/ \E o \in Orders : CompleteDelivery(p, o)
             \/ GateRefuses(p) \/ CheckCredit(p) \/ PlaceOnHold(p) \/ SkipLine(p)
             \/ CheckInvoice(p) \/ CreateInvoice(p) \/ PostToLedger(p) \/ CommitOrder(p) \/ Publish(p)
             \/ AutoInvoice(p) \/ PostToGL(p) \/ PostToAR(p)
      PROVE  HandInv'
  BY <1>1, <1>3, OrderStepsHand
<1>4. ASSUME NEW p \in Procs, ListStock(p) \/ UpdateStock(p) PROVE HandInv'
  BY <1>1, <1>4, CallStepsHand
<1>5. ASSUME NEW p \in Procs, LineFails(p) \/ WriteFails(p) \/ Fail(p) \/ DeadlockVictim(p)
      PROVE  HandInv'
  BY <1>1, <1>5, RollbackHand
<1>6. ASSUME NEW p \in Procs,
             (\E a \in Adjustments : BeginAdjust(p, a)) \/ (\E m \in Moves : BeginMove(p, m))
      PROVE  HandInv'
  BY <1>1, <1>6, BeginsHand
<1>7. ASSUME NEW p \in Procs, ReadRow(p) PROVE HandInv'
  BY <1>1, <1>7, ReadRowHand
<1>8. ASSUME NEW p \in Procs, WriteRow(p) PROVE HandInv'
  BY <1>1, <1>8, WriteRowHand
<1>9. ASSUME NEW p \in Procs, EndStockRequest(p) PROVE HandInv'
  BY <1>1, <1>9, EndsHand
<1> QED
  BY <1>2, <1>3, <1>4, <1>5, <1>6, <1>7, <1>8, <1>9 DEF Next, Arrive, Serve, OrderKinds

\* With one stock request at a time and no order shipping, the quantity on hand
\* of a product nobody counts never changes, even when the two writes of a move
\* meet confirms and cancels of the same rows, or one of them fails.
THEOREM OnHandConservedHolds == Conserving => (Spec => []OnHandConserved)
<1> SUFFICES ASSUME Conserving PROVE Spec => []OnHandConserved
  OBVIOUS
<1>1. Init => HandInv
  <2> SUFFICES ASSUME Init PROVE HandInv
    OBVIOUS
  <2>1. /\ \A p \in Procs : req[p] = Idle /\ call[p] = NoCall
        /\ \A r \in Rows : holder[r] = Nobody
        /\ stock = InitialStock
    BY DEF Init, InventoryInit, RowsInit
  <2>2. \A p \in Procs, r \in Rows : Sees(p, r) = stock[r] /\ stock[r].quantity \in Int
    BY <2>1, StockAssumption DEF Sees
  <2>3. \A p \in Procs : Untouched(p)
    BY <2>2 DEF Untouched, Change, Part
  <2> QED
    BY <2>1, <2>3, IdleIs, NoCallIs DEF HandInv, OneCaller, HandOK, OnHandConserved
<1>2. BillInv /\ HandInv /\ [Next]_vars => HandInv'
  BY HandNext DEF Poised
<1>3. HandInv => OnHandConserved
  BY DEF HandInv
<1> QED
  BY <1>1, <1>2, <1>3, BillInvHolds, PTL DEF Spec

-----------------------------------------------------------------------------
(* The requests implement OrderBook.                                       *)

LEMMA AllocatedIs == \A rows, x : AllocatedIn(rows, x) = TotalOf("allocated", rows, x)
<1> QED
  BY Zenon DEF AllocatedIn, TotalOf, SumOver, Part

\* Where no row promises more than it holds, no product does.
LEMMA PromisedFits ==
  ASSUME NEW rows, NEW x,
         \A r \in Rows : /\ rows[r].allocated \in Int /\ rows[r].quantity \in Int
                         /\ 0 <= rows[r].allocated /\ rows[r].allocated <= rows[r].quantity
  PROVE  0 <= AllocatedIn(rows, x) /\ AllocatedIn(rows, x) <= OnHandIn(rows, x)
<1> DEFINE f == [r \in Rows |-> Part("allocated", rows[r])]
           h == [r \in Rows |-> Part("quantity", rows[r])]
           g == [r \in Rows |-> h[r] - f[r]]
           S == RowsOf(x)
<1>1. \A r \in Rows : f[r] = rows[r].allocated /\ h[r] = rows[r].quantity
  BY DEF Part
<1>2. \A r \in Rows : /\ f[r] \in Nat /\ g[r] \in Nat
                      /\ f[r] \in Int /\ g[r] \in Int /\ h[r] = f[r] + g[r]
  BY <1>1
<1>3. IsFiniteSet(S) /\ \A r \in S : r \in Rows
  BY RowsOfFinite
<1> HIDE DEF f, g, h, S
<1>4. SumOver(f, S) \in Int /\ SumOver(f, S) >= 0
  BY <1>2, <1>3, SumType, SumNonNegative
<1>5. SumOver(g, S) \in Int /\ SumOver(g, S) >= 0
  BY <1>2, <1>3, SumType, SumNonNegative
<1>6. SumOver(h, S) = SumOver(f, S) + SumOver(g, S)
  BY <1>2, <1>3, SumPlus
<1>7. AllocatedIn(rows, x) = SumOver(f, S) /\ OnHandIn(rows, x) = SumOver(h, S)
  BY AllocatedIs, OnHandIs DEF TotalOf, f, h, S
<1>8. 0 <= SumOver(f, S) /\ SumOver(f, S) <= SumOver(h, S)
  BY ONLY <1>4, <1>5, <1>6
<1> QED
  BY <1>7, <1>8

\* What the committed rows of a product hold, before and after a step.
LEMMA BookTotals ==
  ASSUME Ready, Backed', NEW x \in Products
  PROVE  /\ TotalOf("allocated", InitialStock, x) \in Int /\ TotalOf("quantity", InitialStock, x) \in Int
         /\ \A s : DemandOf(s, x) \in Int
         /\ AllocatedIn(stock, x) = TotalOf("allocated", InitialStock, x) + DemandOf("CONFIRMED", x)
         /\ AllocatedIn(stock', x) = TotalOf("allocated", InitialStock, x) + DemandOf("CONFIRMED", x)'
         /\ OnHandIn(stock, x) = TotalOf("quantity", InitialStock, x) + (0 - DemandOf("FULFILLED", x))
         /\ OnHandIn(stock', x) = TotalOf("quantity", InitialStock, x) + (0 - DemandOf("FULFILLED", x)')
<1>1. "allocated" \in Columns /\ "quantity" \in Columns
  BY DEF Columns
<1>2. TotalOf("allocated", InitialStock, x) \in Int /\ TotalOf("quantity", InitialStock, x) \in Int
  BY <1>1, InitialIs
<1>3. \A s : DemandOf(s, x) \in Int
  BY DemandOfIs
<1>4. \A col \in Columns : TotalOf(col, stock, x) = TotalOf(col, InitialStock, x) + Booked(col, x)
  BY ReadyIs DEF Backed
<1>5. \A col \in Columns : TotalOf(col, stock', x) = TotalOf(col, InitialStock, x) + Booked(col, x)'
  BY DEF Backed, TotalOf
<1>6. /\ Booked("allocated", x) = DemandOf("CONFIRMED", x)
      /\ Booked("allocated", x)' = DemandOf("CONFIRMED", x)'
      /\ Booked("quantity", x) = 0 - DemandOf("FULFILLED", x)
      /\ Booked("quantity", x)' = 0 - DemandOf("FULFILLED", x)'
  BY DEF Booked
<1> QED
  BY <1>1, <1>2, <1>3, <1>4, <1>5, <1>6, AllocatedIs, OnHandIs

\* While no order changes its status, the book does not change.
LEMMA BookStays ==
  ASSUME Ready, Backed', UNCHANGED status
  PROVE  \A x \in Products : /\ AllocatedIn(stock', x) = AllocatedIn(stock, x)
                             /\ OnHandIn(stock', x) = OnHandIn(stock, x)
<1> QED
  BY BookTotals, DemandStays

\* An order that changes its status moves what it asks for along.
LEMMA BookMoves ==
  ASSUME Ready, Backed', NEW o \in Orders, \A y \in Orders \ {o} : status'[y] = status[y],
         NEW x \in Products
  PROVE  LET given == IF status'[o] = "CONFIRMED" THEN Demand(o, x) ELSE 0
             back  == IF status[o] = "CONFIRMED" THEN Demand(o, x) ELSE 0
             gone  == IF status'[o] = "FULFILLED" THEN Demand(o, x) ELSE 0
             was   == IF status[o] = "FULFILLED" THEN Demand(o, x) ELSE 0
         IN  /\ AllocatedIn(stock, x) \in Int /\ OnHandIn(stock, x) \in Int /\ Demand(o, x) \in Int
             /\ AllocatedIn(stock', x) = AllocatedIn(stock, x) + given - back
             /\ OnHandIn(stock', x) = OnHandIn(stock, x) - gone + was
<1> DEFINE given == IF status'[o] = "CONFIRMED" THEN Demand(o, x) ELSE 0
           back  == IF status[o] = "CONFIRMED" THEN Demand(o, x) ELSE 0
           gone  == IF status'[o] = "FULFILLED" THEN Demand(o, x) ELSE 0
           was   == IF status[o] = "FULFILLED" THEN Demand(o, x) ELSE 0
           c  == DemandOf("CONFIRMED", x)
           c2 == DemandOf("CONFIRMED", x)'
           f  == DemandOf("FULFILLED", x)
           f2 == DemandOf("FULFILLED", x)'
           ta == TotalOf("allocated", InitialStock, x)
           tq == TotalOf("quantity", InitialStock, x)
           a  == AllocatedIn(stock, x)
           a2 == AllocatedIn(stock', x)
           q  == OnHandIn(stock, x)
           q2 == OnHandIn(stock', x)
<1>1. Demand(o, x) \in Int /\ given \in Int /\ back \in Int /\ gone \in Int /\ was \in Int
  BY DemandIs
<1>2. c \in Int /\ c2 = c + given - back
  BY DemandMoves
<1>3. f \in Int /\ f2 = f + gone - was
  BY DemandMoves
<1>4. ta \in Int /\ tq \in Int /\ a = ta + c /\ a2 = ta + c2 /\ q = tq + (0 - f) /\ q2 = tq + (0 - f2)
  BY BookTotals
<1> HIDE DEF given, back, gone, was, c, c2, f, f2, ta, tq, a, a2, q, q2
<1>5. a \in Int /\ a2 = a + given - back
  BY ONLY <1>1, <1>2, <1>4
<1>6. q \in Int /\ q2 = q - gone + was
  BY ONLY <1>1, <1>3, <1>4
<1> QED
  BY <1>1, <1>5, <1>6 DEF given, back, gone, was, a, a2, q, q2

\* The steps that change a status or an invoice.
LEMMA BookSteps ==
  ASSUME Ready, NEW p \in Procs, Arrive(p) \/ Serve(p) \/ Fail(p)
  PROVE  \/ UNCHANGED <<status, invoices>>
         \/ PlaceOnHold(p) \/ AutoInvoice(p) \/ CommitOrder(p)
<1>1. CASE Arrive(p)
  BY <1>1 DEF Arrive, ReadOrder, CompleteDelivery, BeginAdjust, BeginMove, docVars
<1>2. CASE Fail(p)
  BY <1>2 DEF Fail, docVars
<1>3. CASE Serve(p)
  <2>1. CASE GateRefuses(p) \/ CheckCredit(p) \/ ListStock(p) \/ SkipLine(p) \/ UpdateStock(p)
             \/ LineFails(p) \/ CheckInvoice(p) \/ CreateInvoice(p) \/ PostToLedger(p) \/ Publish(p)
    BY <2>1 DEF GateRefuses, CheckCredit, ListStock, SkipLine, UpdateStock, LineFails,
                CheckInvoice, CreateInvoice, PostToLedger, Publish, docVars
  <2>2. CASE PostToGL(p) \/ PostToAR(p) \/ ReadRow(p) \/ WriteRow(p) \/ WriteFails(p)
             \/ EndStockRequest(p) \/ DeadlockVictim(p)
    BY <2>2 DEF PostToGL, PostToAR, ReadRow, WriteRow, WriteFails, EndStockRequest,
                DeadlockVictim, docVars
  <2> QED
    BY <1>3, <2>1, <2>2 DEF Serve
<1> QED
  BY <1>1, <1>2, <1>3

\* Placing an order on hold is one step of the book.
LEMMA HoldBook ==
  ASSUME Ready, Backed', NEW p \in Procs, PlaceOnHold(p)
  PROVE  Book!Next
<1> DEFINE o == req[p].order
<1>1. req[p].stage = "hold" /\ status' = [status EXCEPT ![o] = "ON_HOLD"] /\ UNCHANGED invoices
  BY DEF PlaceOnHold, At
<1>2. o \in Orders
  BY <1>1, DocumentIs DEF Ready, BillInv
<1>3. status[o] = "DRAFT"
  <2>1. req[p].kind = "confirm" /\ req[p].read = status[o] /\ req[p].read \in Accepts(req[p].kind)
    BY <1>1, ReadyIs DEF TxOK, SerialOK, BeforeCommit
  <2> QED
    BY <2>1 DEF Accepts
<1>4. /\ status'[o] = "ON_HOLD"
      /\ \A y \in Orders \ {o} : status'[y] = status[y]
  BY <1>1, <1>2, ReadyIs
<1> HIDE DEF o
<1>5. \A x \in Products : /\ AllocatedIn(stock', x) = AllocatedIn(stock, x)
                          /\ OnHandIn(stock', x) = OnHandIn(stock, x)
  BY <1>2, <1>3, <1>4, BookMoves
<1>6. Book!Hold(o)
  BY <1>1, <1>3, <1>5 DEF Book!Hold, Book!Turns
<1> QED
  BY <1>2, <1>6 DEF Book!Next

\* So is the invoice of a delivery.
LEMMA BillBook ==
  ASSUME Ready, Backed', NEW p \in Procs, AutoInvoice(p)
  PROVE  Book!Next
<1> DEFINE o == req[p].order
<1>1. /\ req[p].stage = "autoInvoice" /\ UNCHANGED status
      /\ invoices' = [invoices EXCEPT ![o] = invoices[o] + 1]
  BY DEF AutoInvoice, At
<1>2. o \in Orders /\ invoices[o] = 0
  BY <1>1, DocumentIs, ReadyIs DEF Ready, BillInv, SerialOK
<1>3. \A x \in Products : /\ AllocatedIn(stock', x) = AllocatedIn(stock, x)
                          /\ OnHandIn(stock', x) = OnHandIn(stock, x)
  BY <1>1, BookStays
<1>4. invoices' = [invoices EXCEPT ![o] = 1]
  BY <1>1, <1>2
<1> HIDE DEF o
<1>5. Book!Bill(o)
  BY <1>1, <1>2, <1>3, <1>4 DEF Book!Bill
<1> QED
  BY <1>2, <1>5 DEF Book!Next

\* So is the transaction of a confirm, a cancel or a fulfilment. That what a
\* confirm promises was free is seen after its COMMIT: no row oversells.
LEMMA CommitBook ==
  ASSUME Ready, Backed', RowsTypeOK', RowsOK', NoOversell', SerialInv', FulfilledIsBilled',
         NEW p \in Procs, CommitOrder(p)
  PROVE  Book!Next
<1> DEFINE a == req[p]
           o == a.order
           n == IF a.billed THEN 1 ELSE 0
           t == NewStatus(a.kind)
<1>1. /\ a.stage = "commit" /\ o \in Orders /\ a.kind \in OrderKinds
      /\ status' = [status EXCEPT ![o] = t]
  BY ReadyIs, CommitOrderIs
<1>2. invoices' = [invoices EXCEPT ![o] = invoices[o] + n]
  BY DEF CommitOrder
<1>3. status'[o] = t /\ \A y \in Orders \ {o} : status'[y] = status[y]
  BY <1>1, ReadyIs
<1>4. status[o] \in Accepts(a.kind)
  BY <1>1, ReadyIs DEF SerialOK, BeforeCommit
<1>5. invoices \in [Orders -> Nat]
  BY ReadyIs DEF IInv, DocsTypeOK
<1>6. a.kind # "fulfill" => invoices' = invoices
  <2>1. a.kind # "fulfill" => n = 0
    BY DEF Ready, BillInv, Bills, BillOK
  <2> QED
    BY <1>1, <1>2, <1>5, <2>1
<1>7. a.kind = "fulfill" => invoices' = [invoices EXCEPT ![o] = 1]
  <2> SUFFICES ASSUME a.kind = "fulfill" PROVE invoices[o] + n = 1
    BY <1>2
  <2>1. invoices'[o] = invoices[o] + n /\ n \in Nat
    BY <1>1, <1>2, <1>5
  <2>2. invoices'[o] <= 1
    BY <1>1 DEF SerialInv, BilledOnce
  <2>3. invoices'[o] > 0
    BY <1>1, <1>3 DEF FulfilledIsBilled, NewStatus
  <2>4. invoices[o] \in Nat
    BY <1>1, <1>5
  <2> HIDE DEF n, o, a
  <2> QED
    BY <2>1, <2>2, <2>3, <2>4
<1>8. \A x \in Products :
         /\ AllocatedIn(stock, x) \in Int /\ OnHandIn(stock, x) \in Int /\ Demand(o, x) \in Int
         /\ AllocatedIn(stock', x) = AllocatedIn(stock, x)
                                     + (IF t = "CONFIRMED" THEN Demand(o, x) ELSE 0)
                                     - (IF status[o] = "CONFIRMED" THEN Demand(o, x) ELSE 0)
         /\ OnHandIn(stock', x) = OnHandIn(stock, x)
                                  - (IF t = "FULFILLED" THEN Demand(o, x) ELSE 0)
                                  + (IF status[o] = "FULFILLED" THEN Demand(o, x) ELSE 0)
  BY <1>1, <1>3, BookMoves
<1>9. \A x \in Products : /\ AllocatedIn(stock', x) \in Int /\ OnHandIn(stock', x) \in Int
                          /\ AllocatedIn(stock', x) <= OnHandIn(stock', x)
  <2>1. \A r \in Rows : /\ stock'[r].allocated \in Int /\ stock'[r].quantity \in Int
                        /\ 0 <= stock'[r].allocated /\ stock'[r].allocated <= stock'[r].quantity
    BY DEF RowsTypeOK, Cell, RowsOK, NoOversell
  <2>2. \A x \in Products : AllocatedIn(stock', x) \in Int /\ OnHandIn(stock', x) \in Int
    BY <1>8
  <2> QED
    BY <2>1, <2>2, PromisedFits
<1>10. CASE a.kind = "confirm"
  <2>1. status[o] = "DRAFT" /\ t = "CONFIRMED"
    BY <1>4, <1>10 DEF Accepts, NewStatus
  <2>2. status' = [status EXCEPT ![o] = "CONFIRMED"] /\ invoices' = invoices
    BY <1>1, <1>6, <1>10, <2>1
  <2> HIDE DEF a, o, n, t
  <2>3. \A x \in Products : /\ AllocatedIn(stock', x) = AllocatedIn(stock, x) + Demand(o, x)
                            /\ OnHandIn(stock', x) = OnHandIn(stock, x)
    BY <1>8, <2>1
  <2>4. \A x \in Products : AllocatedIn(stock, x) + Demand(o, x) <= OnHandIn(stock, x)
    BY <1>9, <2>3
  <2>5. Book!Confirm(o)
    BY <1>1, <2>1, <2>2, <2>3, <2>4 DEF Book!Confirm, Book!Turns
  <2> QED
    BY <1>1, <2>5 DEF Book!Next
<1>11. CASE a.kind = "cancel" /\ status[o] = "CONFIRMED"
  <2>1. t = "CANCELLED"
    BY <1>11 DEF NewStatus
  <2>2. status' = [status EXCEPT ![o] = "CANCELLED"] /\ invoices' = invoices
    BY <1>1, <1>6, <1>11, <2>1
  <2>3. status[o] = "CONFIRMED"
    BY <1>11
  <2> HIDE DEF a, o, n, t
  <2>4. \A x \in Products : /\ AllocatedIn(stock', x) = AllocatedIn(stock, x) - Demand(o, x)
                            /\ OnHandIn(stock', x) = OnHandIn(stock, x)
    BY <1>8, <2>1, <2>3
  <2>5. Book!CancelConfirmed(o)
    BY <1>1, <2>2, <2>3, <2>4 DEF Book!CancelConfirmed, Book!Turns
  <2> QED
    BY <1>1, <2>5 DEF Book!Next
<1>12. CASE a.kind = "cancel" /\ status[o] # "CONFIRMED"
  <2>1. t = "CANCELLED" /\ status[o] \in {"DRAFT", "ON_HOLD"}
    BY <1>4, <1>12 DEF NewStatus, Accepts
  <2>2. status' = [status EXCEPT ![o] = "CANCELLED"] /\ invoices' = invoices
    BY <1>1, <1>6, <1>12, <2>1
  <2> HIDE DEF a, o, n, t
  <2>3. \A x \in Products : /\ AllocatedIn(stock', x) = AllocatedIn(stock, x)
                            /\ OnHandIn(stock', x) = OnHandIn(stock, x)
    BY <1>8, <2>1
  <2>4. Book!CancelUnpromised(o)
    BY <1>1, <2>1, <2>2, <2>3 DEF Book!CancelUnpromised, Book!Turns
  <2> QED
    BY <1>1, <2>4 DEF Book!Next
<1>13. CASE a.kind = "fulfill"
  <2>1. status[o] = "CONFIRMED" /\ t = "FULFILLED"
    BY <1>4, <1>13 DEF Accepts, NewStatus
  <2>2. status' = [status EXCEPT ![o] = "FULFILLED"] /\ invoices' = [invoices EXCEPT ![o] = 1]
    BY <1>1, <1>7, <1>13, <2>1
  <2> HIDE DEF a, o, n, t
  <2>3. \A x \in Products : /\ AllocatedIn(stock', x) = AllocatedIn(stock, x) - Demand(o, x)
                            /\ OnHandIn(stock', x) = OnHandIn(stock, x) - Demand(o, x)
    BY <1>8, <2>1
  <2>4. Book!Fulfill(o)
    BY <1>1, <2>1, <2>2, <2>3 DEF Book!Fulfill, Book!Turns
  <2> QED
    BY <1>1, <2>4 DEF Book!Next
<1> QED
  BY <1>1, <1>10, <1>11, <1>12, <1>13 DEF OrderKinds

\* The book begins as it may.
LEMMA BookInit == Init => Book!Init
<1> SUFFICES ASSUME Init PROVE Book!Init
  OBVIOUS
<1>1. stock = InitialStock
  BY DEF Init, InventoryInit, RowsInit
<1>2. \A r \in Rows : /\ stock[r].allocated \in Int /\ stock[r].quantity \in Int
                      /\ 0 <= stock[r].allocated /\ stock[r].allocated <= stock[r].quantity
  BY <1>1, StockAssumption
<1>3. \A x \in Products : 0 <= AllocatedIn(stock, x) /\ AllocatedIn(stock, x) <= OnHandIn(stock, x)
  BY <1>2, PromisedFits
<1>4. status = [y \in Orders |-> "DRAFT"] /\ invoices = [y \in Orders |-> 0]
  BY DEF Init
<1> QED
  BY <1>3, <1>4 DEF Book!Init

\* Every step of a request is a step of the book, or none.
LEMMA BookNext ==
  Ready /\ (BillInv /\ SerialInv /\ TxInv /\ NoOversell)' /\ [Next]_vars
     => [Book!Next]_(Book!bookVars)
<1> SUFFICES ASSUME Ready, (BillInv /\ SerialInv /\ TxInv /\ NoOversell)', [Next]_vars
             PROVE  [Book!Next]_(Book!bookVars)
  OBVIOUS
<1>1. Backed' /\ SerialInv' /\ FulfilledIsBilled' /\ NoOversell' /\ RowsTypeOK' /\ RowsOK'
  BY DEF TxInv, BillInv, IInv, StockInv, InventoryTypeOK
<1>2. CASE UNCHANGED <<status, invoices>>
  <2>1. \A x \in Products : /\ AllocatedIn(stock', x) = AllocatedIn(stock, x)
                            /\ OnHandIn(stock', x) = OnHandIn(stock, x)
    BY <1>1, <1>2, BookStays
  <2> QED
    BY <1>2, <2>1 DEF Book!bookVars
<1>3. CASE UNCHANGED vars
  BY <1>2, <1>3 DEF vars, docVars
<1>4. ASSUME NEW p \in Procs, Arrive(p) \/ Serve(p) \/ Fail(p)
      PROVE  UNCHANGED <<status, invoices>> \/ Book!Next
  BY <1>1, <1>4, BookSteps, HoldBook, BillBook, CommitBook
<1> QED
  BY <1>2, <1>3, <1>4 DEF Next

\* With one request at a time on an order and nobody adjusting stock, the
\* handlers and their transactions implement the order book: for its orders, its
\* stock and its invoices, a confirm, a cancel and a fulfilment each happen at
\* once, however their statements interleave with those of other orders and
\* whatever fails or deadlocks on the way.
THEOREM BookRefinement == Serial /\ NoAdjustments => (Spec => BookSpec)
<1> SUFFICES ASSUME Serial, NoAdjustments PROVE Spec => BookSpec
  OBVIOUS
<1>1. BillInv /\ SerialInv /\ TxInv /\ (BillInv /\ SerialInv /\ TxInv /\ NoOversell)' /\ [Next]_vars
         => [Book!Next]_(Book!bookVars)
  BY BookNext DEF Ready
<1> QED
  BY <1>1, BookInit, BillInvHolds, SerialInvHolds, TxInvHolds, NoOversellHolds, PTL
  DEF Spec, BookSpec, Book!Spec
=============================================================================
