--------------------------- MODULE SpendingProofs ---------------------------
(***************************************************************************)
(* What holds of spending on AI for any number of requests over any finite *)
(* set of findings, whatever administrators do meanwhile:                  *)
(*   - the credit pool is never overrun;                                   *)
(*   - what is claimed is what is being sent, by one request each;         *)
(*   - the credits held are those of the requests in flight;               *)
(*   - a project's allocation is kept;                                     *)
(*   - the ledger counts what Checkmarx One charged for;                   *)
(*   - no result is triaged, or remediated, twice;                         *)
(*   - credits given fit in the pool and in what findings need;            *)
(*   - the audit log is one chain, and the ledger tells the same.          *)
(*                                                                         *)
(* Each claim has an invariant of its own, beside IInv: the books have     *)
(* numbers and every request knows what it sends.  That no result is sent  *)
(* twice needs those of the claims and the ledger, and that the POSTs of   *)
(* one request share no finding; that what is given fits, that a plan      *)
(* checked before an await, and not overtaken, still fits after it.        *)
(***************************************************************************)
EXTENDS Spending, Sequences, FiniteSetTheorems, WellFoundedInduction, TLAPS

-----------------------------------------------------------------------------
(* The credit books: what each of their operations leaves in the two       *)
(* numbers the pool is judged by, b.period and b.reserved, and that each   *)
(* gives books for books.  The books are taken with integers here: that    *)
(* what is reserved never goes below zero depends on who releases what,    *)
(* which the books alone do not know.  Then totals over finite sets, which *)
(* the claims about what requests hold and owe together need.              *)

IntBooks == [used       : [Accounts -> Nat],
             period     : Nat,
             reserved   : Int,
             reservedBy : [Accounts -> Int],
             allocated  : [Accounts -> Int],
             extra      : [Accounts -> Nat],
             triaged    : [Projects -> SUBSET AllIdentities],
             remediated : [Projects -> SUBSET RiskIds(Findings)]]

(* Nothing but the pool's two numbers is said of c to be those of b. *)
SamePool(b, c) == c \in IntBooks /\ c.period = b.period /\ c.reserved = b.reserved

(* Nothing is spent or held in the first books. *)
LEMMA EmptyBookType == EmptyBook \in IntBooks /\ EmptyBook.period = 0 /\ EmptyBook.reserved = 0
  BY DEF EmptyBook, IntBooks

(* A floor of zero makes a natural number. *)
LEMMA AtLeast0Type == \A n \in Int : AtLeast0(n) \in Nat
  BY DEF AtLeast0

(* One charge per result: the credits of finitely many findings. *)
LEMMA CreditsType ==
  ASSUME NEW kind \in Kinds, NEW fs, IsFiniteSet(fs)
  PROVE  Credits(kind, fs) \in Nat
  <1>. DEFINE id == [f \in fs |-> f.alternateId]
  <1>1. id \in Surjection(fs, Results(fs))
    BY DEF Surjection, Results
  <1>2. Cardinality(Results(fs)) \in Nat
    BY <1>1, FS_Surjection, FS_CardinalityType
  <1>3. CreditCost[kind] = 1 \/ CreditCost[kind] = 3
    BY DEF CreditCost
  <1>. QED
    BY <1>2, <1>3 DEF Credits

(* reserve() moves what is held, and nothing that is spent. *)
LEMMA ReserveType ==
  ASSUME NEW b \in IntBooks, NEW a \in Accounts, NEW n \in Int, NEW scoped \in BOOLEAN
  PROVE  /\ Reserve(b, a, n, scoped) \in IntBooks
         /\ Reserve(b, a, n, scoped).period = b.period
         /\ Reserve(b, a, n, scoped).reserved = b.reserved + n
  <1>. DEFINE moved == IF scoped THEN n ELSE 0
              by == [b.reservedBy EXCEPT ![a] = @ + moved]
  <1>1. moved \in Int /\ b.reservedBy \in [Accounts -> Int] /\ b.reserved \in Int
    BY DEF IntBooks
  <1>2. by \in [Accounts -> Int] /\ b.reserved + n \in Int
    BY <1>1
  <1>3. Reserve(b, a, n, scoped) = [b EXCEPT !.reserved = b.reserved + n, !.reservedBy = by]
    BY DEF Reserve, IntBooks
  <1>. HIDE DEF by
  <1>. QED
    BY <1>2, <1>3 DEF IntBooks

(* release() gives back exactly what it is asked to. *)
LEMMA ReleaseType ==
  ASSUME NEW b \in IntBooks, NEW a \in Accounts, NEW n \in Int, NEW scoped \in BOOLEAN
  PROVE  /\ Release(b, a, n, scoped) \in IntBooks
         /\ Release(b, a, n, scoped).period = b.period
         /\ Release(b, a, n, scoped).reserved = b.reserved - n
  <1>. DEFINE moved == IF scoped THEN n ELSE 0
              by == [b.reservedBy EXCEPT ![a] = @ - moved]
  <1>1. moved \in Int /\ b.reservedBy \in [Accounts -> Int] /\ b.reserved \in Int
    BY DEF IntBooks
  <1>2. by \in [Accounts -> Int] /\ b.reserved - n \in Int
    BY <1>1
  <1>3. Release(b, a, n, scoped) = [b EXCEPT !.reserved = b.reserved - n, !.reservedBy = by]
    BY DEF Release, IntBooks
  <1>. HIDE DEF by
  <1>. QED
    BY <1>2, <1>3 DEF IntBooks

(* What is recorded is counted in the pool's period, and only there. *)
LEMMA RecordType ==
  ASSUME NEW b \in IntBooks, NEW a \in Accounts, NEW n \in Nat, NEW fs \in SUBSET Findings
  PROVE  /\ Record(b, a, n, fs) \in IntBooks
         /\ Record(b, a, n, fs).period = b.period + n
         /\ Record(b, a, n, fs).reserved = b.reserved
  <1>. DEFINE counted == [b EXCEPT !.used[a] = @ + n, !.period = @ + n]
  <1>1. counted \in IntBooks /\ counted.period = b.period + n /\ counted.reserved = b.reserved
    <2>. DEFINE by == [b.used EXCEPT ![a] = @ + n]
    <2>1. by \in [Accounts -> Nat] /\ b.period + n \in Nat
      BY DEF IntBooks
    <2>2. counted = [b EXCEPT !.used = by, !.period = b.period + n]
      BY DEF IntBooks
    <2>. HIDE DEF by
    <2>. QED
      BY <2>1, <2>2 DEF IntBooks
  <1>2. UNION {Identities(f) : f \in fs} \subseteq AllIdentities
    BY DEF AllIdentities
  <1>3. RiskIds(fs) \subseteq RiskIds(Findings)
    BY DEF RiskIds
  <1>4. a[1] \in Projects
    BY DEF Accounts
  <1>. HIDE DEF counted
  <1>5. CASE a[2] = "triage"
    <2>. DEFINE c == [counted EXCEPT !.triaged[a[1]] = @ \cup UNION {Identities(f) : f \in fs}]
    <2>1. c \in IntBooks /\ c.period = counted.period /\ c.reserved = counted.reserved
      BY <1>1, <1>2, <1>4 DEF IntBooks
    <2>. QED
      BY <2>1, <1>1, <1>5 DEF Record, counted
  <1>6. CASE a[2] # "triage"
    <2>. DEFINE c == [counted EXCEPT !.remediated[a[1]] = @ \cup RiskIds(fs)]
    <2>1. c \in IntBooks /\ c.period = counted.period /\ c.reserved = counted.reserved
      BY <1>1, <1>3, <1>4 DEF IntBooks
    <2>. QED
      BY <2>1, <1>1, <1>6 DEF Record, counted
  <1>. QED
    BY <1>5, <1>6

(* An allocation does not touch the pool. *)
LEMMA GrantType ==
  ASSUME NEW b \in IntBooks, NEW a \in Accounts, NEW n \in Int
  PROVE  SamePool(b, Grant(b, a, n))
  BY AtLeast0Type DEF Grant, IntBooks, SamePool

(* Nor do extra credits. *)
LEMMA AddType ==
  ASSUME NEW b \in IntBooks, NEW a \in Accounts, NEW n \in Int
  PROVE  SamePool(b, Add(b, a, n))
  <1>. DEFINE g == Grant(b, a, n)
  <1>1. SamePool(b, g)
    BY GrantType
  <1>. HIDE DEF g
  <1>2. SamePool(g, [g EXCEPT !.extra[a] = AtLeast0(@ + n)])
    BY <1>1, AtLeast0Type DEF SamePool, IntBooks
  <1>. QED
    BY <1>1, <1>2 DEF Add, SamePool, g

(* Nor does clearing them. *)
LEMMA ClearExtrasType ==
  ASSUME NEW b \in IntBooks, NEW p \in Projects
  PROVE  SamePool(b, ClearExtras(b, p))
  <1>1. \A a \in Accounts : Larger(b.used[a], b.allocated[a] - b.extra[a]) \in Int
    BY DEF Larger, IntBooks
  <1>. QED
    BY <1>1 DEF ClearExtras, IntBooks, SamePool

(* Nor does taking unused credits back. *)
LEMMA ReclaimUnusedType ==
  ASSUME NEW b \in IntBooks, NEW a \in Accounts
  PROVE  SamePool(b, ReclaimUnused(b, a))
  <1>. DEFINE floor == b.used[a] + b.reservedBy[a]
              kept == [b.allocated EXCEPT ![a] = IF @ > floor THEN floor ELSE @]
              none == [b.extra EXCEPT ![a] = 0]
  <1>1. floor \in Int /\ b.allocated \in [Accounts -> Int] /\ b.extra \in [Accounts -> Nat]
    BY DEF IntBooks
  <1>2. kept \in [Accounts -> Int] /\ none \in [Accounts -> Nat]
    BY <1>1
  <1>3. ReclaimUnused(b, a) = [b EXCEPT !.allocated = kept, !.extra = none]
    BY DEF ReclaimUnused, IntBooks
  <1>. HIDE DEF kept, none
  <1>. QED
    BY <1>2, <1>3 DEF IntBooks, SamePool

-----------------------------------------------------------------------------
(* What each operation on the ledger leaves of the rest of the books.      *)

(* reserve() moves nothing but what is held. *)
LEMMA ReserveFields ==
  ASSUME NEW b \in IntBooks, NEW a \in Accounts, NEW n \in Int, NEW scoped \in BOOLEAN
  PROVE  LET c == Reserve(b, a, n, scoped)
         IN  /\ c.used = b.used /\ c.allocated = b.allocated
             /\ c.triaged = b.triaged /\ c.remediated = b.remediated
             /\ c.reservedBy = [b.reservedBy EXCEPT ![a] = @ + (IF scoped THEN n ELSE 0)]
  BY DEF Reserve, IntBooks

(* Nor does release(). *)
LEMMA ReleaseFields ==
  ASSUME NEW b \in IntBooks, NEW a \in Accounts, NEW n \in Int, NEW scoped \in BOOLEAN
  PROVE  LET c == Release(b, a, n, scoped)
         IN  /\ c.used = b.used /\ c.allocated = b.allocated
             /\ c.triaged = b.triaged /\ c.remediated = b.remediated
             /\ c.reservedBy = [b.reservedBy EXCEPT ![a] = @ - (IF scoped THEN n ELSE 0)]
  BY DEF Release, IntBooks

(* record() counts the credits as used by the account. *)
LEMMA RecordFields ==
  ASSUME NEW b \in IntBooks, NEW a \in Accounts, NEW n \in Nat, NEW fs \in SUBSET Findings
  PROVE  LET c == Record(b, a, n, fs)
         IN  /\ c.used = [b.used EXCEPT ![a] = @ + n]
             /\ c.reservedBy = b.reservedBy /\ c.allocated = b.allocated
  BY DEF Record, IntBooks

(* grant() changes what is allocated to one account. *)
LEMMA GrantFields ==
  ASSUME NEW b \in IntBooks, NEW a \in Accounts, NEW n \in Int
  PROVE  LET c == Grant(b, a, n)
         IN  /\ c.used = b.used /\ c.reservedBy = b.reservedBy
             /\ c.triaged = b.triaged /\ c.remediated = b.remediated
             /\ c.allocated = [b.allocated EXCEPT ![a] = AtLeast0(@ + n)]
  BY DEF Grant, IntBooks

-----------------------------------------------------------------------------
(* Sums over finite sets, as SumFunction of the community modules has      *)
(* them: by the smallest subset at which a fact would fail.                *)

Any(s) == CHOOSE x \in s : TRUE

(* g gives the total of f over every subset of s. *)
Sums(f, s, g) ==
  g = [t \in SUBSET s |-> IF t = {} THEN 0 ELSE f[Any(t)] + g[t \ {Any(t)}]]

(* A non-empty set of subsets of a finite set has a smallest. *)
LEMMA Smallest ==
  ASSUME NEW S, IsFiniteSet(S), NEW T \in SUBSET SUBSET S, T # {}
  PROVE \E m \in T : \A n \in T : ~(n \subseteq m /\ n # m)
  <1>. DEFINE R == StrictSubsetOrdering(S)
  <1>1. IsWellFoundedOn(R, SUBSET S)
    BY FS_StrictSubsetOrderingWellFounded, FS_FiniteSubsetsOfFinite
  <1>2. \A a, b \in SUBSET S : a \subseteq b /\ a # b => <<a, b>> \in R
    BY DEF StrictSubsetOrdering
  <1>. HIDE DEF R
  <1>3. PICK x \in T : \A y \in T : ~(<<y, x>> \in R)
    BY <1>1, WFMin
  <1>. QED
    BY <1>2, <1>3

(* Any is an element, where there is one. *)
LEMMA AnyIn == \A s : s # {} => Any(s) \in s
  BY DEF Any

(* Totals of functions that agree, agree, where both are defined. *)
LEMMA SumsUnique ==
  ASSUME NEW f, NEW S, IsFiniteSet(S), NEW s \in SUBSET S, NEW u \in SUBSET S,
         NEW g, NEW h, Sums(f, s, g), Sums(f, u, h)
  PROVE  \A t \in SUBSET (s \cap u) : g[t] = h[t]
  <1>. DEFINE T == {t \in SUBSET (s \cap u) : g[t] # h[t]}
  <1>1. SUFFICES ASSUME T # {} PROVE FALSE
    OBVIOUS
  <1>2. PICK m \in T : \A n \in T : ~(n \subseteq m /\ n # m)
    <2>1. T \in SUBSET SUBSET S
      OBVIOUS
    <2>. HIDE DEF T
    <2>. QED
      BY <1>1, <2>1, Smallest
  <1>3. CASE m = {}
    BY <1>3 DEF Sums
  <1>4. CASE m # {}
    <2>. DEFINE x == Any(m)
    <2>1. x \in m
      BY <1>4, AnyIn
    <2>. HIDE DEF x
    <2>2. g[m \ {x}] = h[m \ {x}]
      BY <2>1, <1>2
    <2>3. g[m] = f[Any(m)] + g[m \ {Any(m)}] /\ h[m] = f[Any(m)] + h[m \ {Any(m)}]
      BY <1>4 DEF Sums
    <2>. QED
      BY <2>2, <2>3 DEF x
  <1>. QED
    BY <1>3, <1>4

(* A finite set has totals over all its subsets. *)
LEMMA SumsExist ==
  ASSUME NEW f, NEW S, IsFiniteSet(S)
  PROVE  \E g : Sums(f, S, g)
  <1>. DEFINE T == {s \in SUBSET S : ~\E g : Sums(f, s, g)}
  <1>1. SUFFICES ASSUME T # {} PROVE FALSE
    OBVIOUS
  <1>2. PICK m \in T : \A n \in T : ~(n \subseteq m /\ n # m)
    <2>1. T \in SUBSET SUBSET S
      OBVIOUS
    <2>. HIDE DEF T
    <2>. QED
      BY <1>1, <2>1, Smallest
  <1>. DEFINE G(x) == CHOOSE g : Sums(f, m \ {x}, g)
  <1>3. \A x \in m : Sums(f, m \ {x}, G(x))
    <2>. SUFFICES ASSUME NEW x \in m PROVE Sums(f, m \ {x}, G(x))
      OBVIOUS
    <2>1. m \ {x} \in SUBSET S /\ m \ {x} \notin T
      BY <1>2
    <2>2. \E g : Sums(f, m \ {x}, g)
      BY <2>1
    <2>. QED
      BY <2>2
  <1>. DEFINE e(x, t) == G(x)[t]
              h == [t \in SUBSET m |->
                      IF t = {} THEN 0 ELSE
                      IF t = m THEN f[Any(m)] + e(Any(m), m \ {Any(m)})
                      ELSE e(Any(m \ t), t)]
  <1>. HIDE DEF e
  <1>4. \A x, y \in m : \A t \in SUBSET (m \ {x, y}) : e(x, t) = e(y, t)
    <2>. SUFFICES ASSUME NEW x \in m, NEW y \in m PROVE \A t \in SUBSET (m \ {x, y}) : e(x, t) = e(y, t)
      OBVIOUS
    <2>1. Sums(f, m \ {x}, G(x)) /\ Sums(f, m \ {y}, G(y))
      BY <1>3
    <2>2. m \ {x} \in SUBSET S /\ m \ {y} \in SUBSET S
      OBVIOUS
    <2>. HIDE DEF G
    <2>3. \A t \in SUBSET ((m \ {x}) \cap (m \ {y})) : G(x)[t] = G(y)[t]
      BY <2>1, <2>2, SumsUnique
    <2>. QED
      BY <2>3 DEF e
  <1>5. \A x \in m : \A t \in SUBSET (m \ {x}) :
          e(x, t) = IF t = {} THEN 0 ELSE f[Any(t)] + e(x, t \ {Any(t)})
    <2>. HIDE DEF G
    <2>. QED
      BY <1>3 DEF Sums, e
  <1>. HIDE DEF G
  <1>6. Sums(f, m, h)
    <2>1. SUFFICES ASSUME NEW t \in SUBSET m, t # {}
                   PROVE  h[t] = f[Any(t)] + h[t \ {Any(t)}]
      <3>. HIDE DEF h
      <3>1. DOMAIN h = SUBSET m /\ h[{}] = 0 /\ h = [t \in DOMAIN h |-> h[t]]
        BY DEF h
      <3>2. \A t \in SUBSET m : h[t] = IF t = {} THEN 0 ELSE f[Any(t)] + h[t \ {Any(t)}]
        BY <2>1, <3>1
      <3>. QED
        BY <3>1, <3>2 DEF Sums
    <2>. DEFINE x == Any(t)
                r == t \ {x}
    <2>2. x \in t
      BY <2>1, AnyIn
    <2>3. r \in SUBSET m /\ r # m /\ Any(m \ r) \in m \ r
      <3>1. r \in SUBSET m /\ r # m
        BY <2>2
      <3>. HIDE DEF r
      <3>. QED
        BY <3>1, AnyIn
    <2>4. h[r] = e(Any(m \ r), r)
      <3>. HIDE DEF r
      <3>1. CASE r = {}
        BY <3>1, <2>3, <1>5
      <3>. QED
        BY <2>3, <3>1
    <2>5. CASE t = m
      <3>1. h[t] = f[x] + e(x, r)
        BY <2>1, <2>5
      <3>2. r \in SUBSET (m \ {x, Any(m \ r)})
        BY <2>3
      <3>3. e(x, r) = e(Any(m \ r), r)
        BY <1>4, <2>2, <2>3, <3>2
      <3>. QED
        BY <3>1, <3>3, <2>4
    <2>6. CASE t # m
      <3>. DEFINE y == Any(m \ t)
      <3>1. y \in m \ t
        BY <2>6, AnyIn
      <3>. HIDE DEF y
      <3>2. h[t] = e(y, t)
        BY <2>1, <2>6 DEF y
      <3>3. e(y, t) = f[x] + e(y, r)
        BY <1>5, <2>1, <3>1
      <3>4. r \in SUBSET (m \ {y, Any(m \ r)})
        BY <2>3, <3>1
      <3>5. e(y, r) = e(Any(m \ r), r)
        BY <1>4, <3>1, <2>3, <3>4
      <3>. QED
        BY <3>2, <3>3, <3>5, <2>4
    <2>. QED
      BY <2>5, <2>6
  <1>. QED
    BY <1>2, <1>6

(* SumFunction is the last of them. *)
LEMMA SumSums ==
  ASSUME NEW f, IsFiniteSet(DOMAIN f)
  PROVE  \E g : Sums(f, DOMAIN f, g) /\ SumFunction(f) = g[DOMAIN f]
  <1>. DEFINE g == CHOOSE total : Sums(f, DOMAIN f, total)
  <1>1. Sums(f, DOMAIN f, g)
    BY SumsExist
  <1>2. SumFunction(f) = g[DOMAIN f]
    BY DEF SumFunction, SumFunctionOnSet, FoldFunctionOnSet, MapThenFoldSet, Sums, Any
  <1>. QED
    BY <1>1, <1>2

(* Any of its elements may be taken out of a total first. *)
LEMMA SumsSplit ==
  ASSUME NEW S, IsFiniteSet(S), NEW f \in [S -> Int], NEW g, Sums(f, S, g)
  PROVE  \A t \in SUBSET S : g[t] \in Int /\ \A x \in t : g[t] = f[x] + g[t \ {x}]
  <1>. DEFINE OK(t) == g[t] \in Int /\ \A x \in t : g[t] = f[x] + g[t \ {x}]
              T == {t \in SUBSET S : ~OK(t)}
  <1>1. SUFFICES ASSUME T # {} PROVE FALSE
    OBVIOUS
  <1>2. PICK m \in T : \A n \in T : ~(n \subseteq m /\ n # m)
    <2>1. T \in SUBSET SUBSET S
      OBVIOUS
    <2>. HIDE DEF T
    <2>. QED
      BY <1>1, <2>1, Smallest
  <1>3. \A t \in SUBSET S : t # {} => g[t] = f[Any(t)] + g[t \ {Any(t)}]
    BY DEF Sums
  <1>4. m # {}
    BY <1>2 DEF Sums
  <1>. DEFINE p == Any(m)
  <1>5. p \in m /\ g[m] = f[p] + g[m \ {p}]
    BY <1>2, <1>3, <1>4, AnyIn
  <1>. HIDE DEF p
  <1>6. \A x \in m : OK(m \ {x})
    BY <1>2
  <1>7. g[m] \in Int
    BY <1>2, <1>5, <1>6
  <1>8. ASSUME NEW x \in m PROVE g[m] = f[x] + g[m \ {x}]
    <2>1. CASE x = p
      BY <1>5, <2>1
    <2>2. CASE x # p
      <3>1. g[m \ {p}] = f[x] + g[(m \ {p}) \ {x}]
        BY <1>5, <1>6, <2>2
      <3>2. g[m \ {x}] = f[p] + g[(m \ {x}) \ {p}]
        BY <1>5, <1>6, <2>2
      <3>3. (m \ {p}) \ {x} = (m \ {x}) \ {p}
        OBVIOUS
      <3>4. OK((m \ {x}) \ {p})
        <4>. DEFINE r == (m \ {x}) \ {p}
        <4>1. r \in SUBSET S /\ r \subseteq m /\ r # m
          BY <1>2
        <4>2. r \notin T
          BY <1>2, <4>1
        <4>. QED
          BY <4>1, <4>2
      <3>5. f[x] \in Int /\ f[p] \in Int /\ g[(m \ {x}) \ {p}] \in Int
        BY <1>2, <1>5, <3>4
      <3>. DEFINE r == g[(m \ {x}) \ {p}]
      <3>6. /\ g[m] = f[p] + g[m \ {p}]
            /\ g[m \ {p}] = f[x] + r
            /\ g[m \ {x}] = f[p] + r
        BY <1>5, <3>1, <3>2, <3>3
      <3>7. r \in Int /\ f[x] \in Int /\ f[p] \in Int
        BY <3>5
      <3>. HIDE DEF r
      <3>. QED
        BY <3>6, <3>7
    <2>. QED
      BY <2>1, <2>2
  <1>. QED
    BY <1>2, <1>7, <1>8

(* The total of sums is the sum of the totals. *)
LEMMA SumPlus ==
  ASSUME NEW S, IsFiniteSet(S), NEW f \in [S -> Int], NEW g \in [S -> Int]
  PROVE  SumFunction([x \in S |-> f[x] + g[x]]) = SumFunction(f) + SumFunction(g)
  <1>. DEFINE h == [x \in S |-> f[x] + g[x]]
  <1>1. h \in [S -> Int] /\ DOMAIN f = S /\ DOMAIN g = S /\ DOMAIN h = S
    OBVIOUS
  <1>2. \A x \in S : h[x] = f[x] + g[x]
    OBVIOUS
  <1>. HIDE DEF h
  <1>a. \E F : Sums(f, S, F) /\ SumFunction(f) = F[S]
    BY <1>1, SumSums
  <1>b. \E G : Sums(g, S, G) /\ SumFunction(g) = G[S]
    BY <1>1, SumSums
  <1>c. \E H : Sums(h, S, H) /\ SumFunction(h) = H[S]
    BY <1>1, SumSums
  <1>3. PICK F : Sums(f, S, F) /\ SumFunction(f) = F[S]
    BY <1>a
  <1>4. PICK G : Sums(g, S, G) /\ SumFunction(g) = G[S]
    BY <1>b
  <1>5. PICK H : Sums(h, S, H) /\ SumFunction(h) = H[S]
    BY <1>c
  <1>. DEFINE T == {t \in SUBSET S : H[t] # F[t] + G[t]}
  <1>6. SUFFICES ASSUME T # {} PROVE FALSE
    BY <1>3, <1>4, <1>5 DEF h
  <1>7. PICK m \in T : \A n \in T : ~(n \subseteq m /\ n # m)
    <2>1. T \in SUBSET SUBSET S
      OBVIOUS
    <2>. HIDE DEF T
    <2>. QED
      BY <1>6, <2>1, Smallest
  <1>8. m # {}
    BY <1>3, <1>4, <1>5, <1>7 DEF Sums
  <1>9. PICK x : x \in m
    BY <1>8
  <1>10. m \ {x} \in SUBSET S /\ H[m \ {x}] = F[m \ {x}] + G[m \ {x}]
    BY <1>7, <1>9
  <1>11. /\ F[m] = f[x] + F[m \ {x}] /\ F[m \ {x}] \in Int
    BY <1>1, <1>3, <1>7, <1>9, <1>10, SumsSplit
  <1>12. /\ G[m] = g[x] + G[m \ {x}] /\ G[m \ {x}] \in Int
    BY <1>1, <1>4, <1>7, <1>9, <1>10, SumsSplit
  <1>13. /\ H[m] = h[x] + H[m \ {x}] /\ H[m \ {x}] \in Int
    <2>1. \A t \in SUBSET S : H[t] \in Int /\ \A y \in t : H[t] = h[y] + H[t \ {y}]
      BY <1>1, <1>5, SumsSplit
    <2>. QED
      BY <2>1, <1>7, <1>9, <1>10
  <1>14. h[x] = f[x] + g[x] /\ f[x] \in Int /\ g[x] \in Int
    BY <1>2, <1>7, <1>9
  <1>. QED
    BY <1>7, <1>10, <1>11, <1>12, <1>13, <1>14

(* A total of integers is one. *)
LEMMA SumType ==
  ASSUME NEW S, IsFiniteSet(S), NEW f \in [S -> Int]
  PROVE  SumFunction(f) \in Int
  BY SumSums, SumsSplit

(* A total that counts the same for each element of a set, and nothing else. *)
LEMMA SumOver ==
  ASSUME NEW S, IsFiniteSet(S), NEW D \in SUBSET S, NEW k \in Int
  PROVE  SumFunction([x \in S |-> IF x \in D THEN k ELSE 0]) = k * Cardinality(D)
  <1>. DEFINE f == [x \in S |-> IF x \in D THEN k ELSE 0]
  <1>1. f \in [S -> Int] /\ DOMAIN f = S /\ \A x \in S : f[x] = IF x \in D THEN k ELSE 0
    OBVIOUS
  <1>. HIDE DEF f
  <1>a. \E F : Sums(f, S, F) /\ SumFunction(f) = F[S]
    BY <1>1, SumSums
  <1>2. PICK F : Sums(f, S, F) /\ SumFunction(f) = F[S]
    BY <1>a
  <1>. DEFINE T == {t \in SUBSET S : F[t] # k * Cardinality(D \cap t)}
  <1>3. D \cap S = D
    OBVIOUS
  <1>4. SUFFICES ASSUME T # {} PROVE FALSE
    BY <1>2, <1>3 DEF f
  <1>5. PICK m \in T : \A n \in T : ~(n \subseteq m /\ n # m)
    <2>1. T \in SUBSET SUBSET S
      OBVIOUS
    <2>. HIDE DEF T
    <2>. QED
      BY <1>4, <2>1, Smallest
  <1>6. m # {}
    <2>1. ASSUME m = {} PROVE FALSE
      <3>1. D \cap m = {} /\ F[m] = 0
        BY <1>2, <2>1 DEF Sums
      <3>2. Cardinality(D \cap m) = 0
        BY <3>1, FS_EmptySet
      <3>3. k * 0 = 0
        OBVIOUS
      <3>. QED
        BY <1>5, <3>1, <3>2, <3>3
    <2>. QED
      BY <2>1
  <1>7. PICK x : x \in m
    BY <1>6
  <1>8. m \ {x} \in SUBSET S /\ F[m \ {x}] = k * Cardinality(D \cap (m \ {x}))
    BY <1>5, <1>7
  <1>9. F[m] = f[x] + F[m \ {x}] /\ F[m \ {x}] \in Int
    BY <1>1, <1>2, <1>5, <1>7, <1>8, SumsSplit
  <1>10. IsFiniteSet(D \cap m) /\ IsFiniteSet(m) /\ Cardinality(D \cap m) \in Nat
    BY <1>5, FS_Subset, FS_CardinalityType
  <1>11. D \cap (m \ {x}) = (D \cap m) \ {x}
    OBVIOUS
  <1>12. Cardinality((D \cap m) \ {x}) = IF x \in D THEN Cardinality(D \cap m) - 1 ELSE Cardinality(D \cap m)
    BY <1>7, <1>10, FS_RemoveElement
  <1>. DEFINE c == Cardinality(D \cap m)
  <1>13. c \in Int /\ k * (c - 1) + k = k * c
    <2>1. c \in Int
      BY <1>10
    <2>. HIDE DEF c
    <2>. QED
      BY <2>1
  <1>14. F[m] = k * c
    <2>. HIDE DEF c
    <2>1. CASE x \in D
      <3>1. F[m \ {x}] = k * (c - 1) /\ f[x] = k
        BY <1>1, <1>5, <1>7, <1>8, <1>11, <1>12, <2>1 DEF c
      <3>. QED
        BY <1>9, <1>13, <3>1
    <2>2. CASE x \notin D
      <3>1. F[m \ {x}] = k * c /\ f[x] = 0
        BY <1>1, <1>5, <1>7, <1>8, <1>11, <1>12, <2>2 DEF c
      <3>. QED
        BY <1>9, <3>1
    <2>. QED
      BY <2>1, <2>2
  <1>. QED
    BY <1>5, <1>14

(* Only what changed at one place changes a total. *)
LEMMA SumExcept ==
  ASSUME NEW S, IsFiniteSet(S), NEW f \in [S -> Int], NEW x \in S, NEW v \in Int
  PROVE  SumFunction([f EXCEPT ![x] = v]) = SumFunction(f) + (v - f[x])
  <1>. DEFINE d == v - f[x]
              g == [y \in S |-> IF y \in {x} THEN d ELSE 0]
  <1>1. d \in Int /\ f[x] + d = v
    OBVIOUS
  <1>. HIDE DEF d
  <1>2. g \in [S -> Int]
    BY <1>1
  <1>3. [f EXCEPT ![x] = v] = [y \in S |-> f[y] + g[y]]
    <2>1. \A y \in S : g[y] = (IF y = x THEN d ELSE 0) /\ f[y] \in Int
      OBVIOUS
    <2>. HIDE DEF g
    <2>2. \A y \in S : [f EXCEPT ![x] = v][y] = f[y] + g[y]
      BY <1>1, <2>1
    <2>. QED
      BY <2>2
  <1>4. SumFunction(g) = d * Cardinality({x})
    BY <1>1, SumOver
  <1>5. SumFunction(g) = d
    <2>1. Cardinality({x}) = 1
      BY FS_Singleton
    <2>2. d * 1 = d
      BY <1>1
    <2>. QED
      BY <1>4, <2>1, <2>2
  <1>. HIDE DEF g
  <1>. QED
    BY <1>2, <1>3, <1>5, SumPlus DEF d

(* The total over some of the places is that over all, the others at zero. *)
LEMMA SumOfSome ==
  ASSUME NEW S, IsFiniteSet(S), NEW T \in SUBSET S, NEW f \in [S -> Int]
  PROVE  SumFunction([x \in T |-> f[x]]) = SumFunction([x \in S |-> IF x \in T THEN f[x] ELSE 0])
  <1>. DEFINE g == [x \in T |-> f[x]]
              h == [x \in S |-> IF x \in T THEN f[x] ELSE 0]
  <1>1. /\ g \in [T -> Int] /\ DOMAIN g = T /\ h \in [S -> Int] /\ DOMAIN h = S
        /\ \A x \in T : g[x] = h[x]
        /\ \A x \in S \ T : h[x] = 0
        /\ IsFiniteSet(T)
    BY FS_Subset
  <1>. HIDE DEF g, h
  <1>a. \E G : Sums(g, T, G) /\ SumFunction(g) = G[T]
    BY <1>1, SumSums
  <1>b. \E H : Sums(h, S, H) /\ SumFunction(h) = H[S]
    BY <1>1, SumSums
  <1>2. PICK G : Sums(g, T, G) /\ SumFunction(g) = G[T]
    BY <1>a
  <1>3. PICK H : Sums(h, S, H) /\ SumFunction(h) = H[S]
    BY <1>b
  <1>. DEFINE Bad == {t \in SUBSET S : H[t] # G[t \cap T]}
  <1>4. S \cap T = T
    OBVIOUS
  <1>5. SUFFICES ASSUME Bad # {} PROVE FALSE
    BY <1>2, <1>3, <1>4 DEF g, h
  <1>6. PICK m \in Bad : \A n \in Bad : ~(n \subseteq m /\ n # m)
    <2>1. Bad \in SUBSET SUBSET S
      OBVIOUS
    <2>. HIDE DEF Bad
    <2>. QED
      BY <1>5, <2>1, Smallest
  <1>7. m # {}
    BY <1>2, <1>3, <1>6 DEF Sums
  <1>8. PICK x : x \in m
    BY <1>7
  <1>9. m \ {x} \in SUBSET S /\ H[m \ {x}] = G[(m \ {x}) \cap T]
    BY <1>6, <1>8
  <1>10. H[m] = h[x] + H[m \ {x}] /\ H[m \ {x}] \in Int
    BY <1>1, <1>3, <1>6, <1>8, <1>9, SumsSplit
  <1>11. CASE x \in T
    <2>1. m \cap T \in SUBSET T /\ x \in m \cap T /\ (m \cap T) \ {x} = (m \ {x}) \cap T
      BY <1>8, <1>11
    <2>2. G[m \cap T] = g[x] + G[(m \cap T) \ {x}]
      <3>1. \A t \in SUBSET T : G[t] \in Int /\ \A y \in t : G[t] = g[y] + G[t \ {y}]
        BY <1>1, <1>2, SumsSplit
      <3>. QED
        BY <2>1, <3>1
    <2>. QED
      BY <1>1, <1>6, <1>9, <1>10, <1>11, <2>1, <2>2
  <1>12. CASE x \notin T
    <2>1. m \cap T = (m \ {x}) \cap T /\ h[x] = 0
      BY <1>1, <1>6, <1>8, <1>12
    <2>2. H[m] = H[m \ {x}]
      BY <1>10, <2>1
    <2>. QED
      BY <1>6, <1>9, <2>1, <2>2
  <1>. QED
    BY <1>11, <1>12

(* A total of natural numbers is one, and each is at most the total. *)
LEMMA SumNat ==
  ASSUME NEW S, IsFiniteSet(S), NEW f \in [S -> Nat]
  PROVE  SumFunction(f) \in Nat /\ \A x \in S : f[x] <= SumFunction(f)
  <1>1. f \in [S -> Int] /\ DOMAIN f = S
    OBVIOUS
  <1>a. \E F : Sums(f, S, F) /\ SumFunction(f) = F[S]
    BY <1>1, SumSums
  <1>2. PICK F : Sums(f, S, F) /\ SumFunction(f) = F[S]
    BY <1>a
  <1>. DEFINE T == {t \in SUBSET S : F[t] \notin Nat}
  <1>3. ASSUME T # {} PROVE FALSE
    <2>1. PICK m \in T : \A n \in T : ~(n \subseteq m /\ n # m)
      <3>1. T \in SUBSET SUBSET S
        OBVIOUS
      <3>. HIDE DEF T
      <3>. QED
        BY <1>3, <3>1, Smallest
    <2>2. m # {}
      BY <1>2, <2>1 DEF Sums
    <2>3. PICK x : x \in m
      BY <2>2
    <2>4. m \ {x} \in SUBSET S /\ F[m \ {x}] \in Nat
      BY <2>1, <2>3
    <2>5. F[m] = f[x] + F[m \ {x}]
      BY <1>1, <1>2, <2>1, <2>3, SumsSplit
    <2>. QED
      BY <2>1, <2>3, <2>4, <2>5
  <1>4. \A t \in SUBSET S : F[t] \in Nat
    BY <1>3
  <1>5. \A x \in S : F[S] = f[x] + F[S \ {x}]
    <2>1. \A t \in SUBSET S : F[t] \in Int /\ \A x \in t : F[t] = f[x] + F[t \ {x}]
      BY <1>1, <1>2, SumsSplit
    <2>. QED
      BY <2>1
  <1>6. ASSUME NEW x \in S PROVE f[x] <= F[S]
    <2>1. F[S] = f[x] + F[S \ {x}] /\ f[x] \in Nat
      BY <1>5
    <2>2. F[S \ {x}] \in Nat
      BY <1>4
    <2>. HIDE DEF T
    <2>. QED
      BY <2>1, <2>2
  <1>7. F[S] \in Nat
    BY <1>4
  <1>. QED
    BY <1>1, <1>2, <1>6, <1>7

-----------------------------------------------------------------------------
(* Spending.                                                               *)

Groups == (SUBSET Findings) \ {{}}

RequestType ==
  [pc : {"idle", "asked", "checking", "posting", "covering"}, mode : AllModes,
   todo : SUBSET Groups, claimed : SUBSET Findings, current : SUBSET Findings,
   tries : 0..1, sent : {"no", "published", "duplicate"}]

(* A request that holds credits holds them for some finding; only the      *)
(* relay reads what a rule covers, of a POST that was accepted.            *)
RequestOK(q) ==
  /\ q \in RequestType
  /\ q.pc \in {"posting", "covering"} => q.current # {}
  /\ q.pc = "covering" => q.mode # "adminTriage" /\ q.sent = "published"

Within(b) == Limit > 0 => b.period + b.reserved <= Limit

IInv ==
  /\ book \in IntBooks
  /\ req \in [Requests -> RequestType]
  /\ \A r \in Requests : RequestOK(req[r])
  /\ PoolNeverOverrun

-----------------------------------------------------------------------------
(* The kind of a request and whether it has an allowance are defined. *)
LEMMA KindType == \A mode \in AllModes : Kind(mode) \in Kinds /\ Scoped(mode) \in BOOLEAN
  BY DEF Kind, Kinds, Scoped

(* Findings that are sent together are of a project with an account. *)
LEMMA AccountType ==
  ASSUME NEW mode \in AllModes, NEW group \in Groups
  PROVE  Account(mode, group) \in Accounts /\ Credits(Kind(mode), group) \in Nat
  <1>1. (CHOOSE f \in group : TRUE) \in Findings
    BY DEF Groups
  <1>2. ProjectOf(group) \in Projects
    BY <1>1, SpendAssumption DEF ProjectOf
  <1>3. IsFiniteSet(group)
    BY FS_Subset, SpendAssumption DEF Groups
  <1>4. Kind(mode) \in Kinds
    BY KindType
  <1>. QED
    BY <1>2, <1>3, <1>4, CreditsType DEF Account, Accounts

(* A bucket is a set of findings of one scan. *)
LEMMA BucketsType == \A fs \in SUBSET Findings : Buckets(fs) \subseteq Groups
  BY DEF Buckets, Groups

(* Each bucket is of what is bucketed, of one project, and apart from the  *)
(* others.                                                                 *)
LEMMA BucketsApart ==
  ASSUME NEW fs \in SUBSET Findings
  PROVE  /\ \A g \in Buckets(fs) : g \subseteq fs /\ \A e, f \in g : e.project = f.project
         /\ \A g, h \in Buckets(fs) : g = h \/ g \cap h = {}
  <1>1. \A g \in Buckets(fs) : \E s : g = {f \in fs : f.scan = s}
    BY DEF Buckets
  <1>2. \A g \in Buckets(fs) : g \subseteq fs /\ \A e, f \in g : e.project = f.project
    BY <1>1, SpendAssumption
  <1>3. ASSUME NEW g \in Buckets(fs), NEW h \in Buckets(fs), g \cap h # {} PROVE g = h
    <2>1. PICK s : g = {f \in fs : f.scan = s}
      BY <1>1
    <2>2. PICK t : h = {f \in fs : f.scan = t}
      BY <1>1
    <2>3. PICK f : f \in g /\ f \in h
      BY <1>3
    <2>4. s = t
      BY <2>1, <2>2, <2>3
    <2>. QED
      BY <2>1, <2>2, <2>4
  <1>. QED
    BY <1>2, <1>3

(* No request is one of the requests. *)
LEMMA IdleOK == RequestOK(Idle)
  BY DEF Idle, RequestOK, RequestType, AllModes

-----------------------------------------------------------------------------
(* What a step of a request does to what it sends, claims and holds.       *)

Flying(q) == q.pc \in {"posting", "covering"}
Active(q) == q.pc = "checking" \/ Flying(q)

(* The findings a request has still to see through. *)
Sending(q) == (UNION q.todo) \cup (IF Flying(q) THEN q.current ELSE {})

(* The credits it holds, and those it holds on an account. *)
Held(q) == IF Flying(q) THEN Cost(q) ELSE 0
HeldOn(q, a) ==
  IF Flying(q) /\ Scoped(q.mode) /\ Account(q.mode, q.current) = a THEN Cost(q) ELSE 0

(* p is request q with other news of its POST. *)
SameWork(q, p) ==
  /\ p \in RequestType /\ p.mode = q.mode /\ p.claimed = q.claimed
  /\ p.todo = q.todo /\ p.current = q.current

(* p is request q, or the same with nothing left to send. *)
Carries(q, p) ==
  /\ p \in RequestType /\ p.mode = q.mode /\ p.claimed = q.claimed
  /\ p.todo = q.todo \/ p.todo = {}

(* The books b are those in which request r holds nothing any more. *)
Returned(r, b) ==
  /\ b \in IntBooks
  /\ b.reserved = book.reserved - Held(req[r])
  /\ \A a \in Accounts : b.reservedBy[a] = book.reservedBy[a] - HeldOn(req[r], a)

Covered(b) == \A a \in Accounts : b.used[a] + b.reservedBy[a] <= b.allocated[a]

(* Going on, as request q with the books b and the claims g: the next      *)
(* bucket is posted, or the request ends.                                  *)
Posts(q, n, b, g) ==
  /\ n \in RequestType /\ n.pc = "posting" /\ n.sent = "no"
  /\ n.mode = q.mode /\ n.claimed = q.claimed
  /\ n.current \in q.todo /\ n.current \in Groups
  /\ n.todo \subseteq q.todo \ {n.current}
  /\ Fits(q, b, n.current)
  /\ book' = Reserve(b, Account(n.mode, n.current), Cost(n), Scoped(n.mode))
  /\ guard' = g

Ends(r, n, b, g) == n = Idle /\ book' = b /\ guard' = Released(r, g)

(* These are all the ways to go on. *)
LEMMA GoOnShape ==
  ASSUME NEW r \in Requests, NEW q \in RequestType, NEW b, NEW g, GoOn(r, q, b, g)
  PROVE  \E n \in RequestType :
           req' = [req EXCEPT ![r] = n] /\ (Posts(q, n, b, g) \/ Ends(r, n, b, g))
  <1>1. CASE \E group \in q.todo : \E refused \in SUBSET (q.todo \ {group}) :
               /\ Fits(q, b, group)
               /\ Post(r, [q EXCEPT !.todo = @ \ (refused \cup {group})], b, group)
               /\ guard' = g
    <2>a. PICK group \in q.todo : \E refused \in SUBSET (q.todo \ {group}) :
               /\ Fits(q, b, group)
               /\ Post(r, [q EXCEPT !.todo = @ \ (refused \cup {group})], b, group)
               /\ guard' = g
      BY <1>1
    <2>1. PICK refused \in SUBSET (q.todo \ {group}) :
               /\ Fits(q, b, group)
               /\ Post(r, [q EXCEPT !.todo = @ \ (refused \cup {group})], b, group)
               /\ guard' = g
      BY <2>a
    <2>. DEFINE todo == q.todo \ (refused \cup {group})
                p == [q EXCEPT !.todo = @ \ (refused \cup {group})]
                posting == [p EXCEPT !.pc = "posting"]
                sending == [posting EXCEPT !.current = group]
                first == [sending EXCEPT !.tries = 0]
                n == [first EXCEPT !.sent = "no"]
    <2>2. group \in Groups /\ group \in SUBSET Findings
      BY DEF RequestType, Groups
    <2>3. p \in RequestType /\ p.mode = q.mode /\ p.claimed = q.claimed /\ p.todo = todo
      BY DEF RequestType
    <2>4. Post(r, p, b, group)
      BY <2>1
    <2>. HIDE DEF p
    <2>5. posting \in RequestType /\ posting.pc = "posting" /\ posting.mode = q.mode
          /\ posting.claimed = q.claimed /\ posting.todo = todo
      BY <2>3 DEF RequestType
    <2>6. [p EXCEPT !.pc = "posting", !.current = group, !.tries = 0, !.sent = "no"] = n
      OBVIOUS
    <2>. HIDE DEF posting
    <2>7. sending \in RequestType /\ sending.pc = "posting" /\ sending.mode = q.mode
          /\ sending.claimed = q.claimed /\ sending.todo = todo /\ sending.current = group
      BY <2>2, <2>5 DEF RequestType
    <2>. HIDE DEF sending
    <2>8. first \in RequestType /\ first.pc = "posting" /\ first.mode = q.mode
          /\ first.claimed = q.claimed /\ first.todo = todo /\ first.current = group
      BY <2>7 DEF RequestType
    <2>. HIDE DEF first
    <2>9. n \in RequestType /\ n.pc = "posting" /\ n.mode = q.mode /\ n.sent = "no"
          /\ n.claimed = q.claimed /\ n.todo = todo /\ n.current = group
      BY <2>8 DEF RequestType
    <2>10. req' = [req EXCEPT ![r] = n]
           /\ book' = Reserve(b, Account(p.mode, group), Credits(Kind(p.mode), group), Scoped(p.mode))
      BY <2>4, <2>6 DEF Post
    <2>. HIDE DEF n
    <2>11. n.todo \subseteq q.todo \ {n.current}
      BY <2>9
    <2>12. Cost(n) = Credits(Kind(p.mode), group)
      BY <2>3, <2>9 DEF Cost
    <2>. QED
      BY <2>1, <2>2, <2>3, <2>9, <2>10, <2>11, <2>12 DEF Posts
  <1>2. CASE book' = b /\ req' = [req EXCEPT ![r] = Idle] /\ guard' = Released(r, g)
    BY <1>2, IdleOK DEF Ends, RequestOK
  <1>. QED
    BY <1>1, <1>2 DEF GoOn

-----------------------------------------------------------------------------
(* Going on to the next bucket reserves within the pool. *)
LEMMA GoOnKeepsIInv ==
  ASSUME req \in [Requests -> RequestType], \A x \in Requests : RequestOK(req[x]),
         NEW r \in Requests, NEW q, RequestOK(q),
         NEW b \in IntBooks, Within(b), NEW g, GoOn(r, q, b, g)
  PROVE  IInv'
  <1>1. PICK n \in RequestType :
          req' = [req EXCEPT ![r] = n] /\ (Posts(q, n, b, g) \/ Ends(r, n, b, g))
    BY GoOnShape DEF RequestOK
  <1>2. CASE Posts(q, n, b, g)
    <2>. DEFINE a == Account(n.mode, n.current)
                s == Scoped(n.mode)
    <2>1. n.mode \in AllModes /\ n.current \in Groups /\ n.mode = q.mode /\ n.pc = "posting"
      BY <1>2 DEF Posts, RequestType
    <2>2. a \in Accounts /\ Cost(n) \in Nat /\ s \in BOOLEAN
      BY <2>1, AccountType, KindType DEF Cost
    <2>3. RequestOK(n)
      BY <2>1 DEF RequestOK, Groups
    <2>4. book' = Reserve(b, a, Cost(n), s)
      BY <1>2 DEF Posts
    <2>5. book' \in IntBooks /\ book'.period = b.period /\ book'.reserved = b.reserved + Cost(n)
      <3>. HIDE DEF a, s
      <3>. QED
        BY <2>2, <2>4, ReserveType
    <2>6. Limit = 0 \/ Cost(n) <= Limit - b.period - b.reserved
      BY <1>2, <2>1 DEF Posts, Fits, MayReserve, PoolHas, Cost
    <2>7. PoolNeverOverrun'
      BY <2>2, <2>5, <2>6, SpendAssumption DEF PoolNeverOverrun, IntBooks
    <2>8. req' \in [Requests -> RequestType] /\ \A x \in Requests : RequestOK(req'[x])
      BY <1>1, <2>3 DEF RequestOK
    <2>. QED
      BY <2>5, <2>7, <2>8 DEF IInv
  <1>3. CASE Ends(r, n, b, g)
    <2>1. req' \in [Requests -> RequestType] /\ \A x \in Requests : RequestOK(req'[x])
      BY <1>1, <1>3, IdleOK DEF RequestOK, Ends
    <2>. QED
      BY <1>3, <2>1 DEF IInv, Within, PoolNeverOverrun, Ends
  <1>. QED
    BY <1>1, <1>2, <1>3

(* A request in flight knows what it costs and whose account it is on. *)
LEMMA InFlightType ==
  ASSUME IInv, NEW r \in Requests, req[r].pc \in {"posting", "covering"}
  PROVE  /\ Account(req[r].mode, req[r].current) \in Accounts
         /\ Cost(req[r]) \in Nat
         /\ Scoped(req[r].mode) \in BOOLEAN
         /\ req[r].current \in SUBSET Findings
  <1>1. req[r].mode \in AllModes /\ req[r].current \in Groups
    BY DEF IInv, RequestOK, RequestType, Groups
  <1>. QED
    BY <1>1, AccountType, KindType DEF Cost, Groups

(* Released, and recorded or not, what a request held is within the pool. *)
LEMMA EndedWithin ==
  ASSUME IInv, NEW r \in Requests, req[r].pc \in {"posting", "covering"},
         NEW b, SamePool(book, b)
  PROVE  LET q == req[r]
             a == Account(q.mode, q.current)
             released == Release(b, a, Cost(q), Scoped(q.mode))
             settled == Record(released, a, Cost(q), q.current)
         IN  /\ released \in IntBooks /\ Within(released)
             /\ settled \in IntBooks /\ Within(settled)
  <1>. DEFINE q == req[r]
              a == Account(q.mode, q.current)
              released == Release(b, a, Cost(q), Scoped(q.mode))
              settled == Record(released, a, Cost(q), q.current)
  <1>1. a \in Accounts /\ Cost(q) \in Nat /\ Scoped(q.mode) \in BOOLEAN /\ q.current \in SUBSET Findings
    BY InFlightType
  <1>2. released \in IntBooks /\ released.period = b.period /\ released.reserved = b.reserved - Cost(q)
    BY <1>1, ReleaseType DEF SamePool
  <1>3. /\ settled \in IntBooks
        /\ settled.period = released.period + Cost(q)
        /\ settled.reserved = released.reserved
    BY <1>1, <1>2, RecordType
  <1>4. book.period \in Nat /\ book.reserved \in Int /\ Within(book)
    BY DEF IInv, IntBooks, Within, PoolNeverOverrun
  <1>5. b.period = book.period /\ b.reserved = book.reserved
    BY DEF SamePool
  <1>. HIDE DEF released, settled
  <1>6. Within(released) /\ Within(settled)
    BY <1>1, <1>2, <1>3, <1>4, <1>5, SpendAssumption DEF Within
  <1>. QED
    BY <1>2, <1>3, <1>6 DEF released, settled

-----------------------------------------------------------------------------
(* Nothing spent, nothing held. *)
LEMMA InitIInv == Init => IInv
  <1>. SUFFICES ASSUME Init PROVE IInv
    OBVIOUS
  <1>1. book \in IntBooks /\ PoolNeverOverrun
    BY EmptyBookType, SpendAssumption DEF Init, PoolNeverOverrun
  <1>2. \A r \in Requests : req[r] = Idle
    BY DEF Init
  <1>3. req \in [Requests -> RequestType] /\ \A r \in Requests : RequestOK(req[r])
    BY <1>2, IdleOK DEF Init, RequestOK
  <1>. QED
    BY <1>1, <1>3 DEF IInv

(* Steps that leave the books alone: only what one request is changes. *)
LEMMA OneRequestKeepsIInv ==
  ASSUME IInv, NEW r \in Requests, NEW q, RequestOK(q),
         req' = [req EXCEPT ![r] = q], book' = book
  PROVE  IInv'
  <1>1. req' \in [Requests -> RequestType] /\ \A x \in Requests : RequestOK(req'[x])
    BY DEF IInv, RequestOK
  <1>. QED
    BY <1>1 DEF IInv, PoolNeverOverrun

(* A request arrives: the books do not move. *)
LEMMA AskKeepsIInv ==
  ASSUME IInv, NEW r \in Requests, NEW mode \in Modes, NEW fs \in SUBSET Findings,
         Ask(r, mode, fs)
  PROVE  IInv'
  <1>. DEFINE q == [Idle EXCEPT !.pc = "asked", !.mode = mode, !.todo = {fs}]
  <1>1. mode \in AllModes /\ {fs} \subseteq Groups
    BY SpendAssumption DEF Ask, Groups
  <1>2. Idle \in RequestType
    BY IdleOK DEF RequestOK
  <1>3. q \in RequestType /\ q.pc = "asked"
    <2>. DEFINE asked == [Idle EXCEPT !.pc = "asked"]
                ofMode == [asked EXCEPT !.mode = mode]
    <2>1. asked \in RequestType /\ asked.pc = "asked"
      BY <1>2 DEF RequestType
    <2>. HIDE DEF asked
    <2>2. ofMode \in RequestType /\ ofMode.pc = "asked"
      BY <1>1, <2>1 DEF RequestType
    <2>. HIDE DEF ofMode
    <2>3. [ofMode EXCEPT !.todo = {fs}] \in RequestType /\ [ofMode EXCEPT !.todo = {fs}].pc = "asked"
      BY <1>1, <2>2 DEF RequestType
    <2>. QED
      BY <2>3 DEF asked, ofMode
  <1>4. RequestOK(q)
    BY <1>3 DEF RequestOK
  <1>. QED
    BY <1>4, OneRequestKeepsIInv DEF Ask

(* The claim, and the first reservation. *)
LEMMA BeginKeepsIInv ==
  ASSUME IInv, NEW r \in Requests, NEW open \in SUBSET Findings, Begin(r, open)
  PROVE  IInv'
  <1>. DEFINE q == req[r]
              kind == Kind(q.mode)
              wanted == IF kind = "triage" THEN Unsent(kind, open) ELSE open
              mine == {f \in wanted : Claimable(kind, f)}
              p == [q EXCEPT !.todo = Buckets(Unsent(kind, mine)), !.claimed = mine]
  <1>1. mine \in SUBSET Findings /\ Unsent(kind, mine) \in SUBSET Findings
    BY DEF Unsent
  <1>2. Buckets(Unsent(kind, mine)) \in SUBSET Groups
    BY <1>1, BucketsType
  <1>3. q \in RequestType /\ q.pc = "asked"
    BY DEF IInv, Begin
  <1>4. GoOn(r, p, book, Claimed(r, kind, mine))
    BY DEF Begin
  <1>. HIDE DEF mine, kind
  <1>5. p \in RequestType /\ p.pc = "asked"
    BY <1>1, <1>2, <1>3 DEF RequestType
  <1>6. RequestOK(p)
    BY <1>5 DEF RequestOK
  <1>. HIDE DEF p
  <1>7. Within(book)
    BY DEF IInv, PoolNeverOverrun, Within
  <1>. QED
    BY <1>4, <1>6, <1>7, GoOnKeepsIInv DEF IInv

(* The claim of a relay remediation: nothing is reserved yet. *)
LEMMA BeginRemediateKeepsIInv ==
  ASSUME IInv, NEW r \in Requests, BeginRemediate(r)
  PROVE  IInv'
  <1>. DEFINE q == req[r]
              fs == UNION q.todo
              p == [q EXCEPT !.pc = "checking", !.claimed = fs]
  <1>1. q \in RequestType /\ fs \in SUBSET Findings
    BY DEF IInv, RequestType, Groups
  <1>2. p \in RequestType /\ p.pc = "checking"
    BY <1>1 DEF RequestType
  <1>3. RequestOK(p)
    BY <1>2 DEF RequestOK
  <1>4. book' = book /\ (req' = [req EXCEPT ![r] = p] \/ req' = [req EXCEPT ![r] = Idle])
    BY DEF BeginRemediate
  <1>. HIDE DEF p
  <1>. QED
    BY <1>3, <1>4, IdleOK, OneRequestKeepsIInv

(* A relay remediation is sent, or refused. *)
LEMMA CheckKeepsIInv ==
  ASSUME IInv, NEW r \in Requests, NEW confirmed \in BOOLEAN, Check(r, confirmed)
  PROVE  IInv'
  <1>. DEFINE q == req[r]
              none == [q EXCEPT !.todo = {}]
  <1>1. q \in RequestType /\ q.pc = "checking"
    BY DEF IInv, Check
  <1>2. RequestOK(q)
    BY DEF IInv
  <1>3. none \in RequestType /\ none.pc = "checking"
    BY <1>1 DEF RequestType
  <1>4. RequestOK(none)
    BY <1>3 DEF RequestOK
  <1>5. \E p \in {q, none} : GoOn(r, p, book, guard)
    BY DEF Check
  <1>. HIDE DEF none
  <1>6. Within(book)
    BY DEF IInv, PoolNeverOverrun, Within
  <1>. QED
    BY <1>2, <1>4, <1>5, <1>6, GoOnKeepsIInv DEF IInv

(* Checkmarx One takes the POST, or has its results already; an answer may *)
(* be lost and the POST sent again: the books do not move.                 *)
LEMMA SentKeepsIInv ==
  ASSUME IInv, NEW r \in Requests,
         \/ Accept(r) \/ Deduplicate(r) \/ Accepted(r)
         \/ req[r].pc = "posting" /\ req' = [req EXCEPT ![r].tries = 1, ![r].sent = "no"] /\ book' = book
  PROVE  IInv'
  <1>. DEFINE q == req[r]
              accepted == [q EXCEPT !.sent = "published"]
              duplicate == [q EXCEPT !.sent = "duplicate"]
              covering == [q EXCEPT !.pc = "covering"]
              retry == [q EXCEPT !.tries = 1]
              again == [retry EXCEPT !.sent = "no"]
  <1>1. q \in RequestType /\ q.pc = "posting" /\ q.current # {} /\ r \in DOMAIN req
    BY DEF IInv, RequestOK, Accept, Deduplicate, Accepted
  <1>2. /\ accepted \in RequestType /\ accepted.current = q.current /\ accepted.pc = "posting"
        /\ duplicate \in RequestType /\ duplicate.current = q.current /\ duplicate.pc = "posting"
        /\ retry \in RequestType /\ retry.current = q.current /\ retry.pc = "posting"
    BY <1>1 DEF RequestType
  <1>3. again \in RequestType /\ again.current = q.current /\ again.pc = "posting"
    <2>. HIDE DEF retry
    <2>. QED
      BY <1>2 DEF RequestType
  <1>4. covering \in RequestType /\ covering.current = q.current /\ covering.mode = q.mode
        /\ covering.sent = q.sent
    BY <1>1 DEF RequestType
  <1>5. /\ book' = book
        /\ \/ req' = [req EXCEPT ![r] = accepted]
           \/ req' = [req EXCEPT ![r] = duplicate]
           \/ /\ req' = [req EXCEPT ![r] = covering]
              /\ q.mode # "adminTriage" /\ q.sent = "published"
           \/ req' = [req EXCEPT ![r] = again]
    BY <1>1 DEF Accept, Deduplicate, Accepted, ReadsPublished, IInv
  <1>. HIDE DEF accepted, duplicate, covering, retry, again
  <1>6. RequestOK(accepted) /\ RequestOK(duplicate) /\ RequestOK(again)
    BY <1>1, <1>2, <1>3 DEF RequestOK
  <1>7. q.mode # "adminTriage" /\ q.sent = "published" => RequestOK(covering)
    BY <1>1, <1>4 DEF RequestOK
  <1>. QED
    BY <1>5, <1>6, <1>7, OneRequestKeepsIInv

(* The answers that end what a request holds: charged or not, they release *)
(* it, and what was charged is recorded in the same step.                  *)
LEMMA EndedKeepsIInv ==
  ASSUME IInv, NEW r \in Requests,
         \/ Settle(r) \/ SettleAdmin(r) \/ NotCharged(r)
         \/ \E stopped \in BOOLEAN : Fail(r, stopped)
         \/ req[r].pc = "posting" /\ GoOn(r, req[r], ReleaseOf(req[r]), guard)
  PROVE  IInv'
  <1>. DEFINE q == req[r]
              a == Account(q.mode, q.current)
              none == [q EXCEPT !.todo = {}]
              Ended(b, c) == \/ c = Release(b, a, Cost(q), Scoped(q.mode))
                             \/ c = Record(Release(b, a, Cost(q), Scoped(q.mode)), a, Cost(q), q.current)
  <1>1. q \in RequestType /\ q.pc \in {"posting", "covering"} /\ RequestOK(q)
    BY DEF IInv, Settle, SettleAdmin, NotCharged, Fail
  <1>2. none \in RequestType /\ none.pc = q.pc /\ none.current = q.current
    BY <1>1 DEF RequestType
  <1>3. RequestOK(none)
    BY <1>1, <1>2 DEF RequestOK
  <1>4. a \in Accounts
    BY <1>1, InFlightType
  <1>5. book \in IntBooks /\ SamePool(book, book)
    BY DEF IInv, SamePool
  <1>6. Raised(q) \in Nat
    <2>1. Cost(q) \in Nat
      BY <1>1, InFlightType
    <2>2. book.allocated[a] \in Int /\ book.used[a] \in Nat /\ book.reservedBy[a] \in Int
      BY <1>4, <1>5 DEF IntBooks
    <2>3. Remaining(book, a) \in Nat
      BY <2>2, AtLeast0Type DEF Remaining
    <2>. QED
      BY <2>1, <2>3, AtLeast0Type DEF Raised
  <1>7. SamePool(book, Grant(book, a, Raised(q)))
    BY <1>4, <1>5, <1>6, GrantType
  <1>8. \A b : SamePool(book, b) => \A c : Ended(b, c) => c \in IntBooks /\ Within(c)
    BY <1>1, EndedWithin
  <1>9. \E p \in {q, none}, b \in {book, Grant(book, a, Raised(q))} : \E c :
          Ended(b, c) /\ GoOn(r, p, c, guard)
    <2>1. ASSUME Settle(r) \/ NotCharged(r) PROVE \E c : Ended(book, c) /\ GoOn(r, q, c, guard)
      BY <2>1 DEF Settle, NotCharged, ReleaseOf
    <2>2. ASSUME SettleAdmin(r)
          PROVE  \E c : Ended(Grant(book, a, Raised(q)), c) /\ GoOn(r, q, c, guard)
      BY <2>2 DEF SettleAdmin
    <2>3. ASSUME NEW stopped \in BOOLEAN, Fail(r, stopped)
          PROVE  \E p \in {q, none} : \E c : Ended(book, c) /\ GoOn(r, p, c, guard)
      BY <2>3 DEF Fail, ReleaseOf
    <2>4. ASSUME GoOn(r, q, ReleaseOf(q), guard) PROVE \E c : Ended(book, c) /\ GoOn(r, q, c, guard)
      BY <2>4 DEF ReleaseOf
    <2>. HIDE DEF none, Ended
    <2>. QED
      BY <2>1, <2>2, <2>3, <2>4
  <1>10. PICK p \in {q, none}, b \in {book, Grant(book, a, Raised(q))} :
           \E c : Ended(b, c) /\ GoOn(r, p, c, guard)
    BY <1>9
  <1>11. PICK c : Ended(b, c) /\ GoOn(r, p, c, guard)
    BY <1>10
  <1>. HIDE DEF none, Ended
  <1>12. c \in IntBooks /\ Within(c) /\ RequestOK(p)
    BY <1>1, <1>3, <1>5, <1>7, <1>8, <1>10, <1>11
  <1>. QED
    BY <1>11, <1>12, GoOnKeepsIInv DEF IInv

(* A lost answer: the POST is sent again, or the reservation released. *)
LEMMA LoseKeepsIInv ==
  ASSUME IInv, NEW r \in Requests, Lose(r)
  PROVE  IInv'
  <1>1. CASE req' = [req EXCEPT ![r].tries = 1, ![r].sent = "no"] /\ UNCHANGED <<book, guard>>
    BY <1>1, SentKeepsIInv DEF Lose
  <1>2. CASE GoOn(r, req[r], ReleaseOf(req[r]), guard)
    BY <1>2, EndedKeepsIInv DEF Lose
  <1>. QED
    BY <1>1, <1>2 DEF Lose

(* Allocations change, or a month ends: the pool has no less room. *)
LEMMA MeanwhileKeepsIInv ==
  ASSUME IInv,
         \/ \E a \in Accounts, n \in Amounts : Administer(a, n)
         \/ NewMonth
  PROVE  IInv'
  <1>1. ASSUME NEW a \in Accounts, NEW n \in Amounts, Administer(a, n) PROVE IInv'
    <2>1. book \in IntBooks /\ book.extra[a] \in Nat /\ n \in Nat /\ a[1] \in Projects
      BY SpendAssumption DEF IInv, IntBooks, Accounts
    <2>2. SamePool(book, book')
      BY <1>1, <2>1, AddType, ClearExtrasType, ReclaimUnusedType DEF Administer
    <2>3. req' = req
      BY <1>1 DEF Administer
    <2>. QED
      BY <2>2, <2>3 DEF IInv, SamePool, PoolNeverOverrun
  <1>2. ASSUME NewMonth PROVE IInv'
    <2>1. /\ book' \in IntBooks
          /\ book'.period = 0
          /\ book'.reserved = book.reserved
      BY <1>2 DEF IInv, IntBooks, NewMonth
    <2>2. book.period \in Nat /\ book.reserved \in Int
      BY DEF IInv, IntBooks
    <2>3. PoolNeverOverrun'
      BY <2>1, <2>2, SpendAssumption DEF IInv, PoolNeverOverrun
    <2>. QED
      BY <1>2, <2>1, <2>3 DEF IInv, NewMonth
  <1>. QED
    BY <1>1, <1>2

(* Every step keeps the inductive invariant. *)
LEMMA StepKeepsIInv == IInv /\ [Next]_vars => IInv'
  <1>. SUFFICES ASSUME IInv, [Next]_vars PROVE IInv'
    OBVIOUS
  <1>1. ASSUME NEW r \in Requests, NEW mode \in Modes, NEW fs \in SUBSET Findings, Ask(r, mode, fs)
        PROVE  IInv'
    BY <1>1, AskKeepsIInv
  <1>2. ASSUME NEW r \in Requests, NEW open \in SUBSET Findings, Begin(r, open) PROVE IInv'
    BY <1>2, BeginKeepsIInv
  <1>3. ASSUME NEW r \in Requests, BeginRemediate(r) PROVE IInv'
    BY <1>3, BeginRemediateKeepsIInv
  <1>4. ASSUME NEW r \in Requests, NEW confirmed \in BOOLEAN, Check(r, confirmed) PROVE IInv'
    BY <1>4, CheckKeepsIInv
  <1>5. ASSUME NEW r \in Requests, Accept(r) \/ Deduplicate(r) \/ Accepted(r) PROVE IInv'
    BY <1>5, SentKeepsIInv
  <1>6. ASSUME NEW r \in Requests, Answered(r) PROVE IInv'
    BY <1>5, <1>6, EndedKeepsIInv DEF Answered
  <1>7. ASSUME NEW r \in Requests, Lose(r) PROVE IInv'
    BY <1>7, LoseKeepsIInv
  <1>8. ASSUME (\E a \in Accounts, n \in Amounts : Administer(a, n)) \/ NewMonth PROVE IInv'
    BY <1>8, MeanwhileKeepsIInv
  <1>9. CASE UNCHANGED <<book, req>>
    BY <1>9 DEF IInv, RequestOK, PoolNeverOverrun
  <1>10. ASSUME NEW x \in Results(Findings), JobFails(x) PROVE IInv'
    BY <1>9, <1>10 DEF JobFails
  <1>11. CASE UNCHANGED vars
    BY <1>9, <1>11 DEF vars
  <1>. QED
    BY <1>1, <1>2, <1>3, <1>4, <1>5, <1>6, <1>7, <1>8, <1>10, <1>11 DEF Next

(* Every behaviour of the requests keeps the inductive invariant.          *)
THEOREM Inductive == Spec => []IInv
  BY InitIInv, StepKeepsIInv, PTL DEF Spec

-----------------------------------------------------------------------------
(* The header of credits.js: concurrent requests cannot jointly overrun    *)
(* the monthly limit, whatever is retried, fails, or is lost, and however  *)
(* administrators change allocations meanwhile.                            *)
THEOREM PoolIsKept == Spec => []PoolNeverOverrun
  <1>1. IInv => PoolNeverOverrun
    BY DEF IInv
  <1>. QED
    BY <1>1, Inductive, PTL

-----------------------------------------------------------------------------
(* What the steps that go on leave in the books, and with which claims.    *)

(* Of a request that is not in flight the books hold nothing. *)
LEMMA NothingHeld ==
  ASSUME IInv, NEW r \in Requests, ~Flying(req[r])
  PROVE  Returned(r, book)
  <1>1. /\ book \in IntBooks /\ book.reserved \in Int
        /\ \A a \in Accounts : book.reservedBy[a] \in Int
    BY DEF IInv, IntBooks
  <1>2. Held(req[r]) = 0 /\ \A a \in Accounts : HeldOn(req[r], a) = 0
    BY DEF Held, HeldOn
  <1>. QED
    BY <1>1, <1>2 DEF Returned

(* What a request in flight gives back when its answer came, from books    *)
(* that hold what they held: no more and no less than the request did; and *)
(* what is recorded is within the allocation, when it is held or was made  *)
(* room for.                                                               *)
LEMMA GivenBack ==
  ASSUME IInv, NEW r \in Requests, Flying(req[r]),
         NEW b \in IntBooks, b.reserved = book.reserved, b.reservedBy = book.reservedBy
  PROVE  LET q == req[r]
             a == Account(q.mode, q.current)
             released == Release(b, a, Cost(q), Scoped(q.mode))
             settled == Record(released, a, Cost(q), q.current)
         IN  /\ Returned(r, released) /\ (Covered(b) => Covered(released))
             /\ Returned(r, settled)
             /\ (/\ Covered(b)
                 /\ ~Scoped(q.mode) => b.used[a] + b.reservedBy[a] + Cost(q) <= b.allocated[a])
                => Covered(settled)
  <1>. DEFINE q == req[r]
              a == Account(q.mode, q.current)
              s == Scoped(q.mode)
              n == Cost(q)
              released == Release(b, a, n, s)
              settled == Record(released, a, n, q.current)
  <1>1. a \in Accounts /\ n \in Nat /\ s \in BOOLEAN /\ q.current \in SUBSET Findings
    BY InFlightType DEF Flying
  <1>3. Held(q) = n /\ \A c \in Accounts : HeldOn(q, c) = IF s /\ a = c THEN n ELSE 0
    BY DEF Held, HeldOn
  <1>. HIDE DEF a, n, s
  <1>4. /\ released \in IntBooks /\ released.reserved = b.reserved - n
        /\ released.used = b.used /\ released.allocated = b.allocated
        /\ released.reservedBy = [b.reservedBy EXCEPT ![a] = @ - (IF s THEN n ELSE 0)]
    BY <1>1, ReleaseType, ReleaseFields
  <1>. HIDE DEF released
  <1>5. /\ settled \in IntBooks /\ settled.reserved = released.reserved
        /\ settled.used = [released.used EXCEPT ![a] = @ + n]
        /\ settled.reservedBy = released.reservedBy /\ settled.allocated = released.allocated
    <2>. HIDE DEF q
    <2>1. settled \in IntBooks /\ settled.reserved = released.reserved
      BY <1>1, <1>4, RecordType
    <2>2. /\ settled.used = [released.used EXCEPT ![a] = @ + n]
          /\ settled.reservedBy = released.reservedBy /\ settled.allocated = released.allocated
      BY <1>1, <1>4, RecordFields
    <2>. QED
      BY <2>1, <2>2
  <1>. HIDE DEF settled, q
  <1>6. \A c \in Accounts : b.used[c] \in Nat /\ b.reservedBy[c] \in Int /\ b.allocated[c] \in Int
    BY DEF IntBooks
  <1>7. \A c \in Accounts :
          /\ released.reservedBy[c] = b.reservedBy[c] - (IF s /\ a = c THEN n ELSE 0)
          /\ settled.used[c] = b.used[c] + (IF a = c THEN n ELSE 0)
    BY <1>1, <1>4, <1>5, <1>6 DEF IntBooks
  <1>8. Returned(r, released) /\ Returned(r, settled)
    BY <1>3, <1>4, <1>5, <1>7 DEF Returned, q
  <1>9. Covered(b) => Covered(released)
    BY <1>1, <1>4, <1>6, <1>7 DEF Covered
  <1>10. Covered(b) /\ (~s => b.used[a] + b.reservedBy[a] + n <= b.allocated[a]) => Covered(settled)
    <2>. SUFFICES ASSUME Covered(b), ~s => b.used[a] + b.reservedBy[a] + n <= b.allocated[a],
                         NEW c \in Accounts
                  PROVE  settled.used[c] + settled.reservedBy[c] <= settled.allocated[c]
      BY DEF Covered
    <2>1. b.used[c] + b.reservedBy[c] <= b.allocated[c]
      BY DEF Covered
    <2>2. /\ settled.used[c] = b.used[c] + (IF a = c THEN n ELSE 0)
          /\ settled.reservedBy[c] = b.reservedBy[c] - (IF s /\ a = c THEN n ELSE 0)
          /\ settled.allocated[c] = b.allocated[c]
      BY <1>4, <1>5, <1>7
    <2>3. b.used[c] \in Nat /\ b.reservedBy[c] \in Int /\ b.allocated[c] \in Int
      BY <1>6
    <2>4. CASE a = c
      BY <1>1, <2>1, <2>2, <2>3, <2>4
    <2>5. CASE a # c
      BY <1>1, <2>1, <2>2, <2>3, <2>5
    <2>. QED
      BY <2>4, <2>5
  <1>. QED
    BY <1>8, <1>9, <1>10 DEF released, settled, a, n, s, q

(* The allocation raised for an administrator's triage covers it. *)
LEMMA RaisedCovers ==
  ASSUME IInv, NEW r \in Requests, Flying(req[r])
  PROVE  LET q == req[r]
             a == Account(q.mode, q.current)
             b == Grant(book, a, Raised(q))
         IN  /\ b \in IntBooks /\ b.reserved = book.reserved /\ b.reservedBy = book.reservedBy
             /\ Covered(book) =>
                  /\ Covered(b)
                  /\ ~Scoped(q.mode) => b.used[a] + b.reservedBy[a] + Cost(q) <= b.allocated[a]
  <1>. DEFINE q == req[r]
              a == Account(q.mode, q.current)
              n == Cost(q)
              left == book.allocated[a] - book.used[a] - book.reservedBy[a]
              more == Raised(q)
              b == Grant(book, a, more)
  <1>1. a \in Accounts /\ n \in Nat
    BY InFlightType DEF Flying
  <1>2. book \in IntBooks
    BY DEF IInv
  <1>3. \A c \in Accounts : book.used[c] \in Nat /\ book.reservedBy[c] \in Int /\ book.allocated[c] \in Int
    BY <1>2 DEF IntBooks
  <1>4. left \in Int
    BY <1>1, <1>3
  <1>5. /\ more \in Nat
        /\ ~Scoped(q.mode) => more = AtLeast0(n - AtLeast0(left))
    <2>1. AtLeast0(left) \in Nat
      BY <1>4, AtLeast0Type
    <2>2. AtLeast0(n - AtLeast0(left)) \in Nat
      BY <1>1, <2>1, AtLeast0Type
    <2>. QED
      BY <2>2 DEF Raised, Scoped, Remaining
  <1>. HIDE DEF a, n, more
  <1>6. b \in IntBooks /\ b.reserved = book.reserved
    BY <1>1, <1>2, <1>5, GrantType DEF SamePool
  <1>7. /\ b.used = book.used /\ b.reservedBy = book.reservedBy
        /\ b.allocated = [book.allocated EXCEPT ![a] = AtLeast0(@ + more)]
    BY <1>1, <1>2, <1>5, GrantFields
  <1>. HIDE DEF b
  <1>8. \A c \in Accounts : b.allocated[c] =
          IF c = a THEN AtLeast0(book.allocated[a] + more) ELSE book.allocated[c]
    BY <1>1, <1>2, <1>7 DEF IntBooks
  <1>9. ASSUME Covered(book)
        PROVE  /\ Covered(b)
               /\ ~Scoped(q.mode) => b.used[a] + b.reservedBy[a] + n <= b.allocated[a]
    <2>1. \A c \in Accounts : book.used[c] + book.reservedBy[c] <= book.allocated[c]
      BY <1>9 DEF Covered
    <2>2. Covered(b)
      BY <1>1, <1>3, <1>5, <1>7, <1>8, <2>1 DEF Covered, AtLeast0
    <2>3. ASSUME ~Scoped(q.mode) PROVE b.used[a] + b.reservedBy[a] + n <= b.allocated[a]
      <3>1. more = AtLeast0(n - AtLeast0(left))
        BY <1>5, <2>3
      <3>2. left >= 0
        BY <1>1, <1>3, <2>1
      <3>3. b.allocated[a] = AtLeast0(book.allocated[a] + more)
        BY <1>1, <1>8
      <3>. QED
        BY <1>1, <1>3, <1>5, <1>7, <3>1, <3>2, <3>3 DEF AtLeast0
    <2>. QED
      BY <2>2, <2>3
  <1>. QED
    BY <1>6, <1>7, <1>9 DEF b, a, n, more

(* The steps that go on after a check or an answer. *)
WentOn(r) ==
  \/ \E confirmed \in BOOLEAN : Check(r, confirmed)
  \/ Settle(r) \/ SettleAdmin(r) \/ NotCharged(r)
  \/ \E stopped \in BOOLEAN : Fail(r, stopped)
  \/ Lose(r) /\ GoOn(r, req[r], ReleaseOf(req[r]), guard)

(* The steps that only bring news of a POST. *)
HeardOf(r) ==
  \/ Accept(r) \/ Deduplicate(r) \/ Accepted(r)
  \/ Lose(r) /\ req' = [req EXCEPT ![r].tries = 1, ![r].sent = "no"] /\ UNCHANGED <<book, guard>>

(* A request that goes on holds nothing when it does. *)
LEMMA WentOnShape ==
  ASSUME IInv, NEW r \in Requests, WentOn(r)
  PROVE  /\ Active(req[r])
         /\ \E q, b : /\ Carries(req[r], q)
                      /\ Returned(r, b) /\ (Covered(book) => Covered(b))
                      /\ GoOn(r, q, b, guard)
  <1>. DEFINE q == req[r]
              none == [q EXCEPT !.todo = {}]
              Good(b) == Returned(r, b) /\ (Covered(book) => Covered(b))
  <1>1. q \in RequestType /\ book \in IntBooks
    BY DEF IInv
  <1>2. none \in RequestType /\ Carries(q, q) /\ Carries(q, none)
    BY <1>1 DEF Carries, RequestType
  <1>. SUFFICES Active(q) /\ \E p \in {q, none} : \E b : Good(b) /\ GoOn(r, p, b, guard)
    BY <1>2
  <1>. HIDE DEF none
  <1>3. ASSUME NEW confirmed \in BOOLEAN, Check(r, confirmed)
        PROVE  Active(q) /\ \E p \in {q, none} : \E b : Good(b) /\ GoOn(r, p, b, guard)
    <2>1. Active(q) /\ ~Flying(q)
      BY <1>3 DEF Check, Active, Flying
    <2>2. Good(book)
      BY <2>1, NothingHeld
    <2>3. \E p \in {q, none} : GoOn(r, p, book, guard)
      BY <1>3 DEF Check, none
    <2>. HIDE DEF Good
    <2>. QED
      BY <2>1, <2>2, <2>3
  <1>4. ASSUME Flying(q) PROVE Active(q) /\ Good(ReleaseOf(q))
    BY <1>1, <1>4, GivenBack DEF Active, ReleaseOf
  <1>5. ASSUME Settle(r) PROVE Active(q) /\ \E b : Good(b) /\ GoOn(r, q, b, guard)
    <2>. DEFINE b == Record(ReleaseOf(q), Account(q.mode, q.current), Cost(q), q.current)
    <2>1. Flying(q) /\ Scoped(q.mode) /\ GoOn(r, q, b, guard)
      BY <1>5 DEF Settle, Flying, Scoped, IInv, RequestOK
    <2>. QED
      BY <1>1, <2>1, GivenBack DEF Active, ReleaseOf
  <1>6. ASSUME SettleAdmin(r) PROVE Active(q) /\ \E b : Good(b) /\ GoOn(r, q, b, guard)
    <2>. DEFINE a == Account(q.mode, q.current)
                granted == Grant(book, a, Raised(q))
                b == Record(Release(granted, a, Cost(q), Scoped(q.mode)), a, Cost(q), q.current)
    <2>1. Flying(q) /\ GoOn(r, q, b, guard)
      BY <1>6 DEF SettleAdmin, Flying
    <2>2. /\ granted \in IntBooks /\ granted.reserved = book.reserved
          /\ granted.reservedBy = book.reservedBy
          /\ Covered(book) =>
               /\ Covered(granted)
               /\ ~Scoped(q.mode) =>
                    granted.used[a] + granted.reservedBy[a] + Cost(q) <= granted.allocated[a]
      BY <2>1, RaisedCovers
    <2>. HIDE DEF granted
    <2>3. Good(b)
      BY <2>1, <2>2, GivenBack
    <2>. HIDE DEF b, Good
    <2>. QED
      BY <2>1, <2>3 DEF Active
  <1>7. ASSUME NotCharged(r) PROVE Flying(q) /\ GoOn(r, q, ReleaseOf(q), guard)
    BY <1>7 DEF NotCharged, Flying
  <1>8. ASSUME NEW stopped \in BOOLEAN, Fail(r, stopped)
        PROVE  Flying(q) /\ \E p \in {q, none} : GoOn(r, p, ReleaseOf(q), guard)
    BY <1>8 DEF Fail, Flying, none
  <1>9. ASSUME Lose(r), GoOn(r, q, ReleaseOf(q), guard)
        PROVE  Flying(q) /\ GoOn(r, q, ReleaseOf(q), guard)
    BY <1>9 DEF Lose, Flying
  <1>. HIDE DEF Good, q
  <1>10. CASE \E confirmed \in BOOLEAN : Check(r, confirmed)
    BY <1>3, <1>10
  <1>11. CASE Settle(r) \/ SettleAdmin(r)
    BY <1>5, <1>6, <1>11
  <1>12. CASE NotCharged(r) \/ (Lose(r) /\ GoOn(r, q, ReleaseOf(q), guard))
    BY <1>4, <1>7, <1>9, <1>12
  <1>13. CASE \E stopped \in BOOLEAN : Fail(r, stopped)
    BY <1>4, <1>8, <1>13
  <1>. QED
    BY <1>10, <1>11, <1>12, <1>13 DEF WentOn, q

(* A request that hears of its POST goes on sending it. *)
LEMMA HeardOfShape ==
  ASSUME IInv, NEW r \in Requests, HeardOf(r)
  PROVE  /\ Flying(req[r]) /\ book' = book /\ guard' = guard
         /\ \E q : SameWork(req[r], q) /\ Flying(q) /\ req' = [req EXCEPT ![r] = q]
  <1>. DEFINE q == req[r]
              accepted == [q EXCEPT !.sent = "published"]
              duplicate == [q EXCEPT !.sent = "duplicate"]
              covering == [q EXCEPT !.pc = "covering"]
              retry == [q EXCEPT !.tries = 1]
              again == [retry EXCEPT !.sent = "no"]
  <1>1. q \in RequestType /\ q.pc = "posting" /\ r \in DOMAIN req
    BY DEF IInv, HeardOf, Accept, Deduplicate, Accepted, Lose
  <1>2. SameWork(q, accepted) /\ SameWork(q, duplicate) /\ SameWork(q, covering) /\ SameWork(q, retry)
        /\ accepted.pc = "posting" /\ duplicate.pc = "posting" /\ covering.pc = "covering"
        /\ retry.pc = "posting"
    BY <1>1 DEF SameWork, RequestType
  <1>3. SameWork(q, again) /\ again.pc = "posting"
    <2>. HIDE DEF retry
    <2>. QED
      BY <1>2 DEF SameWork, RequestType
  <1>4. /\ book' = book /\ guard' = guard
        /\ \/ req' = [req EXCEPT ![r] = accepted]
           \/ req' = [req EXCEPT ![r] = duplicate]
           \/ req' = [req EXCEPT ![r] = covering]
           \/ req' = [req EXCEPT ![r] = again]
    BY <1>1 DEF HeardOf, Accept, Deduplicate, Accepted, IInv
  <1>. HIDE DEF accepted, duplicate, covering, again, retry
  <1>. QED
    BY <1>1, <1>2, <1>3, <1>4 DEF Flying

(* Every step is of one of these kinds. *)
LEMMA StepShape ==
  ASSUME IInv, [Next]_vars
  PROVE  \/ \E r \in Requests : \E mode \in Modes, fs \in SUBSET Findings : Ask(r, mode, fs)
         \/ \E r \in Requests : \E open \in SUBSET Findings : Begin(r, open)
         \/ \E r \in Requests : BeginRemediate(r)
         \/ \E r \in Requests : WentOn(r)
         \/ \E r \in Requests : HeardOf(r)
         \/ UNCHANGED <<req, guard, jobs, recorded, lost>> /\ (book' = book \/ NewMonth)
              /\ UNCHANGED failures
         \/ \E x \in Results(Findings) : JobFails(x)
         \/ \E a \in Accounts, n \in Amounts : Administer(a, n)
  <1>1. ASSUME NEW r \in Requests, Answered(r) PROVE WentOn(r) \/ HeardOf(r)
    BY <1>1 DEF Answered, WentOn, HeardOf
  <1>2. ASSUME NEW r \in Requests, Lose(r) PROVE WentOn(r) \/ HeardOf(r)
    BY <1>2 DEF Lose, WentOn, HeardOf
  <1>3. ASSUME NEW r \in Requests, Accept(r) \/ Deduplicate(r) PROVE HeardOf(r)
    BY <1>3 DEF HeardOf
  <1>4. ASSUME NEW r \in Requests, \E confirmed \in BOOLEAN : Check(r, confirmed) PROVE WentOn(r)
    BY <1>4 DEF WentOn
  <1>5. CASE NewMonth
    BY <1>5 DEF NewMonth
  <1>6. CASE UNCHANGED vars
    BY <1>6 DEF vars
  <1>. QED
    BY <1>1, <1>2, <1>3, <1>4, <1>5, <1>6 DEF Next

-----------------------------------------------------------------------------
(* Claims and requests.  What a request sends it claimed, each key of what *)
(* it claimed names it, and a key names nobody else.                       *)

(* What request x, being q, has with the claims g. *)
Holds(x, q, g) ==
  Active(q) =>
    /\ Sending(q) \subseteq q.claimed
    /\ \A k \in ClaimKeys(Kind(q.mode), q.claimed) : g[k] = x

(* The key k is claimed by request q. *)
ClaimedBy(q, k) == Active(q) /\ k \in ClaimKeys(Kind(q.mode), q.claimed)

ClaimsInv ==
  /\ guard \in [AllKeys -> Requests \cup {NoRequest}]
  /\ \A r \in Requests : Holds(r, req[r], guard)
  /\ \A k \in AllKeys : guard[k] # NoRequest => ClaimedBy(req[guard[k]], k)

(* The keys of findings are keys of the guard. *)
LEMMA KeysType ==
  \A kind \in Kinds, fs \in SUBSET Findings : ClaimKeys(kind, fs) \subseteq AllKeys
  BY DEF ClaimKeys, AllKeys

(* Going on, the next bucket is of the findings claimed; ended, nothing of *)
(* the request's stays claimed.                                            *)
LEMMA GoOnKeepsClaims ==
  ASSUME req \in [Requests -> RequestType], NEW r \in Requests, NEW q \in RequestType,
         NEW b, NEW g \in [AllKeys -> Requests \cup {NoRequest}],
         \A x \in Requests \ {r} : Holds(x, req[x], g),
         \A k \in AllKeys : g[k] \notin {NoRequest, r} => ClaimedBy(req[g[k]], k),
         UNION q.todo \subseteq q.claimed,
         \A k \in AllKeys : g[k] = r <=> k \in ClaimKeys(Kind(q.mode), q.claimed),
         GoOn(r, q, b, g)
  PROVE  ClaimsInv'
  <1>1. PICK n \in RequestType :
          req' = [req EXCEPT ![r] = n] /\ (Posts(q, n, b, g) \/ Ends(r, n, b, g))
    BY GoOnShape
  <1>2. req'[r] = n /\ \A x \in Requests \ {r} : req'[x] = req[x]
    BY <1>1
  <1>3. NoRequest \notin Requests
    BY SpendAssumption
  <1>4. CASE Posts(q, n, b, g)
    <2>1. /\ guard' = g /\ n.mode = q.mode /\ n.claimed = q.claimed /\ n.pc = "posting"
          /\ n.current \in q.todo /\ n.todo \subseteq q.todo
      BY <1>4 DEF Posts
    <2>2. Active(n) /\ Sending(n) \subseteq n.claimed
      <3>1. Active(n) /\ Flying(n)
        BY <2>1 DEF Active, Flying
      <3>2. Sending(n) = (UNION n.todo) \cup n.current
        BY <3>1 DEF Sending
      <3>3. UNION n.todo \subseteq UNION q.todo /\ n.current \subseteq UNION q.todo
        BY <2>1, Zenon
      <3>. QED
        BY <2>1, <3>1, <3>2, <3>3
    <2>3. ClaimKeys(Kind(q.mode), q.claimed) \subseteq AllKeys
      BY KeysType, KindType DEF RequestType
    <2>4. Holds(r, n, g) /\ \A k \in AllKeys : g[k] = r => ClaimedBy(n, k)
      BY <2>1, <2>2, <2>3 DEF Holds, ClaimedBy
    <2>5. \A x \in Requests : Holds(x, req'[x], guard')
      BY <1>2, <2>1, <2>4
    <2>6. \A k \in AllKeys : g[k] # NoRequest => ClaimedBy(req'[g[k]], k)
      BY <1>2, <2>4
    <2>. QED
      BY <2>1, <2>5, <2>6 DEF ClaimsInv, Holds, ClaimedBy, Active, Flying, Sending
  <1>5. CASE Ends(r, n, b, g)
    <2>1. n = Idle /\ guard' = [k \in AllKeys |-> IF g[k] = r THEN NoRequest ELSE g[k]]
      BY <1>5 DEF Ends, Released
    <2>2. ~Active(n)
      BY <2>1 DEF Idle, Active, Flying
    <2>3. ASSUME NEW x \in Requests PROVE Holds(x, req'[x], guard')
      <3>1. CASE x = r
        BY <1>2, <2>2, <3>1 DEF Holds
      <3>2. CASE x # r
        <4>. SUFFICES ASSUME Active(req[x])
                      PROVE  /\ Sending(req[x]) \subseteq req[x].claimed
                             /\ \A k \in ClaimKeys(Kind(req[x].mode), req[x].claimed) : guard'[k] = x
          BY <1>2, <3>2 DEF Holds
        <4>1. ClaimKeys(Kind(req[x].mode), req[x].claimed) \subseteq AllKeys
          BY KeysType, KindType DEF RequestType
        <4>2. /\ Sending(req[x]) \subseteq req[x].claimed
              /\ \A k \in ClaimKeys(Kind(req[x].mode), req[x].claimed) : g[k] = x
          BY <3>2 DEF Holds
        <4>. QED
          BY <2>1, <3>2, <4>1, <4>2
      <3>. QED
        BY <3>1, <3>2
    <2>4. \A k \in AllKeys : guard'[k] # NoRequest => ClaimedBy(req'[guard'[k]], k)
      BY <1>2, <2>1
    <2>5. guard' \in [AllKeys -> Requests \cup {NoRequest}]
      BY <2>1
    <2>. QED
      BY <2>3, <2>4, <2>5 DEF ClaimsInv, Holds, ClaimedBy, Active, Flying, Sending
  <1>. QED
    BY <1>1, <1>4, <1>5

(* Steps that leave the claims alone, and what one request does with its   *)
(* own as well, if it had any.                                             *)
LEMMA SameClaims ==
  ASSUME IInv, ClaimsInv, NEW r \in Requests, NEW q, guard' = guard,
         req' = [req EXCEPT ![r] = q], Holds(r, q, guard),
         \A k : ClaimedBy(req[r], k) => ClaimedBy(q, k)
  PROVE  ClaimsInv'
  <1>1. req'[r] = q /\ \A x \in Requests \ {r} : req'[x] = req[x]
    BY DEF IInv
  <1>2. \A x \in Requests : Holds(x, req'[x], guard')
    BY <1>1 DEF ClaimsInv
  <1>3. \A k \in AllKeys : guard'[k] # NoRequest => ClaimedBy(req'[guard'[k]], k)
    BY <1>1 DEF ClaimsInv
  <1>. QED
    BY <1>2, <1>3 DEF ClaimsInv, Holds, ClaimedBy, Active, Flying, Sending

(* A claim is of keys nobody had. *)
LEMMA BeginKeepsClaims ==
  ASSUME IInv, ClaimsInv, NEW r \in Requests, NEW open \in SUBSET Findings, Begin(r, open)
  PROVE  ClaimsInv'
  <1>. DEFINE q == req[r]
              kind == Kind(q.mode)
              wanted == IF kind = "triage" THEN Unsent(kind, open) ELSE open
              mine == {f \in wanted : Claimable(kind, f)}
              todo == Buckets(Unsent(kind, mine))
              p == [q EXCEPT !.todo = todo, !.claimed = mine]
              g == Claimed(r, kind, mine)
  <1>1. q \in RequestType /\ q.pc = "asked" /\ GoOn(r, p, book, g)
    BY DEF IInv, Begin
  <1>2. mine \in SUBSET Findings /\ Unsent(kind, mine) \in SUBSET mine
    BY DEF Unsent
  <1>3. todo \subseteq Groups /\ UNION todo \subseteq mine
    <2>1. todo \subseteq Groups /\ \A h \in todo : h \subseteq mine
      <3>. DEFINE fs == Unsent(kind, mine)
      <3>1. fs \in SUBSET Findings /\ fs \subseteq mine
        BY <1>2
      <3>. HIDE DEF fs, mine
      <3>2. Buckets(fs) \subseteq Groups /\ \A h \in Buckets(fs) : h \subseteq mine
        BY <3>1, BucketsType, BucketsApart
      <3>. QED
        BY <3>2 DEF fs
    <2>. HIDE DEF todo, mine
    <2>. QED
      BY <2>1
  <1>4. \A k \in ClaimKeys(kind, mine) : guard[k] = NoRequest
    <2>1. \A f \in mine : \A k \in ClaimKeys(kind, {f}) : guard[k] = NoRequest
      BY DEF Claimable
    <2>2. \A k \in ClaimKeys(kind, mine) : \E f \in mine : k \in ClaimKeys(kind, {f})
      BY DEF ClaimKeys
    <2>. QED
      BY <2>1, <2>2
  <1>. HIDE DEF mine, todo, kind
  <1>5. p \in RequestType /\ p.mode = q.mode /\ p.claimed = mine /\ p.todo = todo
    BY <1>1, <1>2, <1>3 DEF RequestType
  <1>6. kind = Kind(q.mode) /\ kind \in Kinds
    BY <1>1, KindType DEF RequestType, kind
  <1>7. ClaimKeys(kind, mine) \subseteq AllKeys
    BY <1>2, <1>6, KeysType
  <1>8. /\ guard \in [AllKeys -> Requests \cup {NoRequest}]
        /\ \A x \in Requests : Holds(x, req[x], guard)
        /\ \A k \in AllKeys : guard[k] # NoRequest => ClaimedBy(req[guard[k]], k)
    BY DEF ClaimsInv
  <1>9. \A k \in AllKeys : guard[k] # r
    <2>1. ~Active(q) /\ NoRequest \notin Requests
      BY <1>1, SpendAssumption DEF Active, Flying
    <2>. QED
      BY <1>8, <2>1 DEF ClaimedBy
  <1>10. /\ g \in [AllKeys -> Requests \cup {NoRequest}]
         /\ \A k \in AllKeys : g[k] = IF k \in ClaimKeys(kind, mine) THEN r ELSE guard[k]
    BY <1>8 DEF Claimed
  <1>. HIDE DEF g, p, q
  <1>11. \A x \in Requests \ {r} : Holds(x, req[x], g)
    <2>. SUFFICES ASSUME NEW x \in Requests \ {r}, Active(req[x]),
                         NEW k \in ClaimKeys(Kind(req[x].mode), req[x].claimed)
                  PROVE  g[k] = x
      BY <1>8 DEF Holds
    <2>1. req[x] \in RequestType
      BY DEF IInv
    <2>2. k \in AllKeys
      BY <2>1, KeysType, KindType DEF RequestType
    <2>3. guard[k] = x
      BY <1>8 DEF Holds
    <2>. QED
      BY <1>4, <1>10, <2>2, <2>3, SpendAssumption
  <1>12. \A k \in AllKeys : g[k] \notin {NoRequest, r} => ClaimedBy(req[g[k]], k)
    BY <1>8, <1>10
  <1>13. \A k \in AllKeys : g[k] = r <=> k \in ClaimKeys(Kind(p.mode), p.claimed)
    BY <1>5, <1>6, <1>7, <1>9, <1>10
  <1>14. UNION p.todo \subseteq p.claimed
    BY <1>3, <1>5
  <1>15. req \in [Requests -> RequestType]
    BY DEF IInv
  <1>. QED
    BY <1>1, <1>5, <1>10, <1>11, <1>12, <1>13, <1>14, <1>15, GoOnKeepsClaims DEF p, g

(* A relay remediation claims its finding, if nobody did, or ends. *)
LEMMA BeginRemediateKeepsClaims ==
  ASSUME IInv, ClaimsInv, NEW r \in Requests, BeginRemediate(r)
  PROVE  ClaimsInv'
  <1>. DEFINE q == req[r]
              fs == UNION q.todo
              p == [q EXCEPT !.pc = "checking", !.claimed = fs]
              keys == ClaimKeys("remediation", fs)
  <1>1. q \in RequestType /\ q.pc = "asked" /\ q.mode = "relayRemediate" /\ fs \in SUBSET Findings
    BY DEF IInv, RequestType, Groups, BeginRemediate
  <1>2. ~Active(q) /\ NoRequest \notin Requests /\ Kind(q.mode) = "remediation"
    BY <1>1, SpendAssumption DEF Active, Flying, Kind
  <1>3. CASE \A f \in fs : Claimable("remediation", f)
    <2>1. guard' = Claimed(r, "remediation", fs) /\ req' = [req EXCEPT ![r] = p]
      BY <1>3 DEF BeginRemediate
    <2>2. p \in RequestType /\ p.pc = "checking" /\ p.mode = q.mode /\ p.claimed = fs /\ p.todo = q.todo
      BY <1>1 DEF RequestType
    <2>. HIDE DEF p
    <2>3. keys \subseteq AllKeys
      BY <1>1, KeysType DEF Kinds
    <2>4. \A k \in keys : guard[k] = NoRequest
      <3>1. \A f \in fs : \A k \in ClaimKeys("remediation", {f}) : guard[k] = NoRequest
        BY <1>3 DEF Claimable
      <3>2. \A k \in keys : \E f \in fs : k \in ClaimKeys("remediation", {f})
        BY DEF ClaimKeys
      <3>. QED
        BY <3>1, <3>2
    <2>. HIDE DEF keys
    <2>5. Active(p) /\ Sending(p) \subseteq p.claimed
      BY <2>2 DEF Active, Flying, Sending
    <2>6. /\ guard' \in [AllKeys -> Requests \cup {NoRequest}]
          /\ \A k \in AllKeys : guard'[k] = IF k \in keys THEN r ELSE guard[k]
      BY <2>1 DEF Claimed, ClaimsInv, keys
    <2>7. req'[r] = p /\ \A x \in Requests \ {r} : req'[x] = req[x]
      BY <2>1 DEF IInv
    <2>8. \A k : ClaimedBy(p, k) <=> k \in keys
      BY <1>2, <2>2, <2>5 DEF ClaimedBy, keys
    <2>9. ASSUME NEW x \in Requests PROVE Holds(x, req'[x], guard')
      <3>1. CASE x = r
        BY <1>2, <2>2, <2>3, <2>5, <2>6, <2>7, <3>1 DEF Holds, keys
      <3>2. CASE x # r
        <4>. SUFFICES ASSUME Active(req[x]), NEW k \in ClaimKeys(Kind(req[x].mode), req[x].claimed)
                      PROVE  guard'[k] = x
          BY <2>7, <3>2 DEF Holds, ClaimsInv
        <4>1. req[x] \in RequestType
          BY DEF IInv
        <4>2. k \in AllKeys
          BY <4>1, KeysType, KindType DEF RequestType
        <4>3. guard[k] = x
          BY DEF Holds, ClaimsInv
        <4>. QED
          BY <1>2, <2>4, <2>6, <4>2, <4>3
      <3>. QED
        BY <3>1, <3>2
    <2>10. ASSUME NEW k \in AllKeys, guard'[k] # NoRequest PROVE ClaimedBy(req'[guard'[k]], k)
      <3>1. CASE k \in keys
        BY <2>6, <2>7, <2>8, <3>1
      <3>2. CASE k \notin keys
        <4>1. guard'[k] = guard[k] /\ guard[k] # NoRequest /\ ClaimedBy(req[guard[k]], k)
          BY <2>6, <2>10, <3>2 DEF ClaimsInv
        <4>2. guard[k] # r
          BY <1>2, <4>1 DEF ClaimedBy
        <4>3. guard[k] \in Requests
          BY <4>1 DEF ClaimsInv
        <4>. QED
          BY <2>7, <4>1, <4>2, <4>3
      <3>. QED
        BY <3>1, <3>2
    <2>. QED
      BY <2>6, <2>9, <2>10 DEF ClaimsInv, Holds, ClaimedBy, Active, Flying, Sending
  <1>4. CASE ~\A f \in fs : Claimable("remediation", f)
    <2>1. guard' = guard /\ req' = [req EXCEPT ![r] = Idle]
      BY <1>4 DEF BeginRemediate
    <2>2. ~Active(Idle)
      BY DEF Idle, Active, Flying
    <2>. QED
      BY <1>2, <2>1, <2>2, SameClaims DEF Holds, ClaimedBy
  <1>. QED
    BY <1>3, <1>4

(* Every step keeps claims and requests in agreement. *)
LEMMA StepKeepsClaims == IInv /\ ClaimsInv /\ [Next]_vars => ClaimsInv'
  <1>. SUFFICES ASSUME IInv, ClaimsInv, [Next]_vars PROVE ClaimsInv'
    OBVIOUS
  <1>1. CASE UNCHANGED <<req, guard>>
    BY <1>1 DEF ClaimsInv, Holds, ClaimedBy, Active, Flying, Sending
  <1>2. ASSUME NEW r \in Requests, NEW mode \in Modes, NEW fs \in SUBSET Findings, Ask(r, mode, fs)
        PROVE  ClaimsInv'
    <2>. DEFINE q == [Idle EXCEPT !.pc = "asked", !.mode = mode, !.todo = {fs}]
    <2>1. ~Active(q)
      BY DEF Idle, Active, Flying
    <2>2. guard' = guard /\ req' = [req EXCEPT ![r] = q] /\ ~Active(req[r])
      BY <1>2 DEF Ask, Active, Flying
    <2>. HIDE DEF q
    <2>. QED
      BY <2>1, <2>2, SameClaims DEF Holds, ClaimedBy
  <1>3. ASSUME NEW r \in Requests, WentOn(r) PROVE ClaimsInv'
    <2>1. Active(req[r]) /\ \E q, b : Carries(req[r], q) /\ GoOn(r, q, b, guard)
      BY <1>3, WentOnShape
    <2>2. PICK q, b : Carries(req[r], q) /\ GoOn(r, q, b, guard)
      BY <2>1
    <2>3. /\ q \in RequestType /\ q.mode = req[r].mode /\ q.claimed = req[r].claimed
          /\ UNION q.todo \subseteq UNION req[r].todo
      BY <2>2 DEF Carries
    <2>4. /\ guard \in [AllKeys -> Requests \cup {NoRequest}]
          /\ \A x \in Requests : Holds(x, req[x], guard)
          /\ \A k \in AllKeys : guard[k] # NoRequest => ClaimedBy(req[guard[k]], k)
      BY DEF ClaimsInv
    <2>5. UNION q.todo \subseteq q.claimed
      BY <2>1, <2>3, <2>4 DEF Holds, Sending
    <2>6. \A k \in AllKeys : guard[k] = r <=> k \in ClaimKeys(Kind(q.mode), q.claimed)
      BY <2>1, <2>3, <2>4, SpendAssumption DEF Holds, ClaimedBy
    <2>7. req \in [Requests -> RequestType]
      BY DEF IInv
    <2>. QED
      BY <2>2, <2>3, <2>4, <2>5, <2>6, <2>7, GoOnKeepsClaims
  <1>4. ASSUME NEW r \in Requests, HeardOf(r) PROVE ClaimsInv'
    <2>1. /\ Flying(req[r]) /\ guard' = guard
          /\ \E q : SameWork(req[r], q) /\ Flying(q) /\ req' = [req EXCEPT ![r] = q]
      BY <1>4, HeardOfShape
    <2>2. PICK q : SameWork(req[r], q) /\ Flying(q) /\ req' = [req EXCEPT ![r] = q]
      BY <2>1
    <2>3. Holds(r, req[r], guard)
      BY DEF ClaimsInv
    <2>4. /\ Active(req[r]) /\ Active(q) /\ Sending(q) = Sending(req[r])
          /\ q.mode = req[r].mode /\ q.claimed = req[r].claimed
      BY <2>1, <2>2 DEF SameWork, Active, Sending
    <2>5. Holds(r, q, guard) /\ \A k : ClaimedBy(req[r], k) => ClaimedBy(q, k)
      BY <2>3, <2>4 DEF Holds, ClaimedBy
    <2>. QED
      BY <2>1, <2>2, <2>5, SameClaims
  <1>5. ASSUME NEW a \in Accounts, NEW n \in Amounts, Administer(a, n) PROVE ClaimsInv'
    BY <1>1, <1>5 DEF Administer
  <1>6. ASSUME NEW x \in Results(Findings), JobFails(x) PROVE ClaimsInv'
    BY <1>1, <1>6 DEF JobFails
  <1>. QED
    BY <1>1, <1>2, <1>3, <1>4, <1>5, <1>6, StepShape, BeginKeepsClaims, BeginRemediateKeepsClaims

(* Nothing is claimed at first. *)
LEMMA InitClaims == Init => ClaimsInv
  <1>. SUFFICES ASSUME Init PROVE ClaimsInv
    OBVIOUS
  <1>1. \A r \in Requests : req[r] = Idle
    BY DEF Init
  <1>2. ~Active(Idle)
    BY DEF Idle, Active, Flying
  <1>. QED
    BY <1>1, <1>2 DEF Init, ClaimsInv, Holds

(* The claims' invariant holds throughout. *)
THEOREM ClaimsInductive == Spec => [](IInv /\ ClaimsInv)
  BY InitClaims, StepKeepsClaims, Inductive, PTL DEF Spec

(* What is being sent is claimed, and nothing else is: two requests never  *)
(* send the same finding at the same time, and no claim outlives its       *)
(* request.                                                                *)
THEOREM ClaimsAndRequestsAgree == Spec => []ClaimsMatchRequests
  <1>1. IInv /\ ClaimsInv => ClaimsMatchRequests
    <2>. SUFFICES ASSUME IInv, ClaimsInv PROVE ClaimsMatchRequests
      OBVIOUS
    <2>1. ASSUME NEW r \in Requests, req[r].pc \in {"posting", "covering"},
                 NEW k \in ClaimKeys(Kind(req[r].mode), req[r].current)
          PROVE  guard[k] = r
      <3>1. Flying(req[r]) /\ Active(req[r])
        BY <2>1 DEF Flying, Active
      <3>2. req[r].current \subseteq req[r].claimed
        BY <3>1 DEF ClaimsInv, Holds, Sending
      <3>3. k \in ClaimKeys(Kind(req[r].mode), req[r].claimed)
        BY <2>1, <3>2 DEF ClaimKeys
      <3>. QED
        BY <3>1, <3>3 DEF ClaimsInv, Holds
    <2>2. NoClaimLeftBehind
      BY DEF NoClaimLeftBehind, ClaimsInv, ClaimedBy, Active, Flying
    <2>. QED
      BY <2>1, <2>2 DEF ClaimsMatchRequests, OneSenderPerFinding
  <1>. QED
    BY <1>1, ClaimsInductive, PTL

-----------------------------------------------------------------------------
(* What the books hold, in all and on each account, is what the requests   *)
(* in flight hold.                                                         *)

HoldsNow == [r \in Requests |-> Held(req[r])]
HoldsOnNow(a) == [r \in Requests |-> HeldOn(req[r], a)]

HeldInv ==
  /\ book.reserved = SumFunction(HoldsNow)
  /\ \A a \in Accounts : book.reservedBy[a] = SumFunction(HoldsOnNow(a))

(* Whatever a request is, its cost is a number. *)
LEMMA CostType ==
  ASSUME NEW q \in RequestType
  PROVE  Cost(q) \in Nat /\ Held(q) \in Nat /\ \A a : HeldOn(q, a) \in Nat
  <1>1. IsFiniteSet(q.current) /\ Kind(q.mode) \in Kinds
    BY FS_Subset, SpendAssumption, KindType DEF RequestType
  <1>2. Cost(q) \in Nat
    BY <1>1, CreditsType DEF Cost
  <1>. QED
    BY <1>2 DEF Held, HeldOn

(* One request's share of what is held changes as the books do. *)
LEMMA HeldMoves ==
  ASSUME IInv, HeldInv, NEW r \in Requests, NEW q \in RequestType,
         req' = [req EXCEPT ![r] = q],
         book'.reserved = book.reserved - Held(req[r]) + Held(q),
         \A a \in Accounts :
           book'.reservedBy[a] = book.reservedBy[a] - HeldOn(req[r], a) + HeldOn(q, a)
  PROVE  HeldInv'
  <1>1. /\ req \in [Requests -> RequestType]
        /\ req'[r] = q /\ \A x \in Requests \ {r} : req'[x] = req[x]
    BY DEF IInv
  <1>2. HoldsNow \in [Requests -> Int] /\ HoldsNow' \in [Requests -> Int]
    BY <1>1, CostType DEF HoldsNow
  <1>3. HoldsNow' = [HoldsNow EXCEPT ![r] = Held(q)]
    BY <1>1 DEF HoldsNow
  <1>4. HoldsNow[r] = Held(req[r]) /\ Held(req[r]) \in Int /\ Held(q) \in Int
    BY <1>1, CostType DEF HoldsNow
  <1>5. SumFunction(HoldsNow) \in Int
    BY <1>2, SumType, SpendAssumption
  <1>6. SumFunction(HoldsNow') = SumFunction(HoldsNow) + (Held(q) - Held(req[r]))
    <2>. HIDE DEF HoldsNow
    <2>1. SumFunction([HoldsNow EXCEPT ![r] = Held(q)])
            = SumFunction(HoldsNow) + (Held(q) - HoldsNow[r])
      BY <1>2, <1>4, SumExcept, SpendAssumption
    <2>. QED
      BY <1>3, <1>4, <2>1
  <1>7. book'.reserved = SumFunction(HoldsNow')
    BY <1>4, <1>5, <1>6 DEF HeldInv
  <1>8. ASSUME NEW a \in Accounts PROVE book'.reservedBy[a] = SumFunction(HoldsOnNow(a)')
    <2>. DEFINE h == HoldsOnNow(a)
    <2>1. h \in [Requests -> Int]
      BY <1>1, CostType DEF HoldsOnNow
    <2>2. h' = [h EXCEPT ![r] = HeldOn(q, a)]
      BY <1>1 DEF HoldsOnNow
    <2>3. h[r] = HeldOn(req[r], a) /\ HeldOn(req[r], a) \in Int /\ HeldOn(q, a) \in Int
      BY <1>1, CostType DEF HoldsOnNow
    <2>4. SumFunction(h) \in Int
      BY <2>1, SumType, SpendAssumption
    <2>5. book.reservedBy[a] = SumFunction(h)
      BY DEF HeldInv
    <2>6. SumFunction([h EXCEPT ![r] = HeldOn(q, a)]) = SumFunction(h) + (HeldOn(q, a) - h[r])
      <3>. HIDE DEF h
      <3>. QED
        BY <2>1, <2>3, SumExcept, SpendAssumption
    <2>. QED
      BY <2>2, <2>3, <2>4, <2>5, <2>6
  <1>. QED
    BY <1>7, <1>8 DEF HeldInv

(* A step that neither moves a credit held nor changes who holds it. *)
LEMMA HeldStays ==
  ASSUME HeldInv, req' = req, book'.reserved = book.reserved, book'.reservedBy = book.reservedBy
  PROVE  HeldInv'
  BY DEF HeldInv, HoldsNow, HoldsOnNow

(* Going on, what the request holds next is reserved for it. *)
LEMMA GoOnKeepsHeld ==
  ASSUME IInv, HeldInv, NEW r \in Requests, NEW q \in RequestType, NEW b, Returned(r, b),
         NEW g, GoOn(r, q, b, g)
  PROVE  HeldInv' /\ (Covered(b) => Covered(book'))
  <1>1. PICK n \in RequestType :
          req' = [req EXCEPT ![r] = n] /\ (Posts(q, n, b, g) \/ Ends(r, n, b, g))
    BY GoOnShape
  <1>2. b \in IntBooks /\ book \in IntBooks /\ req[r] \in RequestType
    BY DEF Returned, IInv
  <1>3. /\ b.reserved = book.reserved - Held(req[r])
        /\ \A a \in Accounts : b.reservedBy[a] = book.reservedBy[a] - HeldOn(req[r], a)
    BY DEF Returned
  <1>4. \A a \in Accounts : b.used[a] \in Nat /\ b.reservedBy[a] \in Int /\ b.allocated[a] \in Int
    BY <1>2 DEF IntBooks
  <1>5. CASE Posts(q, n, b, g)
    <2>. DEFINE c == Account(n.mode, n.current)
                s == Scoped(n.mode)
                k == Cost(n)
    <2>1. n.pc = "posting" /\ n.mode = q.mode /\ n.current \in Groups /\ Fits(q, b, n.current)
          /\ book' = Reserve(b, c, k, s)
      BY <1>5 DEF Posts
    <2>2. c \in Accounts /\ k \in Nat /\ s \in BOOLEAN
      BY <2>1, AccountType, KindType, CostType DEF RequestType
    <2>3. Held(n) = k /\ \A a \in Accounts : HeldOn(n, a) = IF s /\ c = a THEN k ELSE 0
      BY <2>1 DEF Held, HeldOn, Flying
    <2>4. s => k <= b.allocated[c] - b.used[c] - b.reservedBy[c]
      BY <2>1 DEF Fits, MayReserve, Cost
    <2>. HIDE DEF c, s, k
    <2>5. /\ book'.reserved = b.reserved + k
          /\ book'.used = b.used /\ book'.allocated = b.allocated
          /\ book'.reservedBy = [b.reservedBy EXCEPT ![c] = @ + (IF s THEN k ELSE 0)]
      BY <1>2, <2>1, <2>2, ReserveType, ReserveFields
    <2>6. \A a \in Accounts :
            book'.reservedBy[a] = b.reservedBy[a] + (IF s /\ c = a THEN k ELSE 0)
      BY <1>2, <1>4, <2>2, <2>5 DEF IntBooks
    <2>7. HeldInv'
      <3>1. /\ book'.reserved = book.reserved - Held(req[r]) + Held(n)
            /\ \A a \in Accounts :
                 book'.reservedBy[a] = book.reservedBy[a] - HeldOn(req[r], a) + HeldOn(n, a)
        BY <1>3, <2>3, <2>5, <2>6
      <3>. QED
        BY <1>1, <3>1, HeldMoves
    <2>8. Covered(b) => Covered(book')
      <3>. SUFFICES ASSUME Covered(b), NEW a \in Accounts
                    PROVE  book'.used[a] + book'.reservedBy[a] <= book'.allocated[a]
        BY DEF Covered
      <3>1. b.used[a] + b.reservedBy[a] <= b.allocated[a]
        BY DEF Covered
      <3>2. book'.reservedBy[a] = b.reservedBy[a] + (IF s /\ c = a THEN k ELSE 0)
        BY <2>6
      <3>. QED
        BY <1>4, <2>2, <2>4, <2>5, <3>1, <3>2
    <2>. QED
      BY <2>7, <2>8
  <1>6. CASE Ends(r, n, b, g)
    <2>1. n = Idle /\ book' = b
      BY <1>6 DEF Ends
    <2>2. Held(Idle) = 0 /\ \A a \in Accounts : HeldOn(Idle, a) = 0
      BY DEF Held, HeldOn, Flying, Idle
    <2>3. b.reserved \in Int /\ \A a \in Accounts : b.reservedBy[a] \in Int
      BY <1>2 DEF IntBooks
    <2>4. /\ book'.reserved = book.reserved - Held(req[r]) + Held(n)
          /\ \A a \in Accounts :
               book'.reservedBy[a] = book.reservedBy[a] - HeldOn(req[r], a) + HeldOn(n, a)
      BY <1>3, <2>1, <2>2, <2>3
    <2>. QED
      BY <1>1, <2>1, <2>4, HeldMoves
  <1>. QED
    BY <1>1, <1>5, <1>6

(* A request that holds nothing before and after moves no credit. *)
LEMMA HoldsNothing ==
  ASSUME IInv, HeldInv, NEW r \in Requests, NEW q \in RequestType,
         ~Flying(req[r]), ~Flying(q), req' = [req EXCEPT ![r] = q], book' = book
  PROVE  HeldInv'
  <1>1. book.reserved \in Int /\ \A a \in Accounts : book.reservedBy[a] \in Int
    BY DEF IInv, IntBooks
  <1>2. /\ Held(req[r]) = 0 /\ Held(q) = 0
        /\ \A a \in Accounts : HeldOn(req[r], a) = 0 /\ HeldOn(q, a) = 0
    BY DEF Held, HeldOn
  <1>3. /\ book'.reserved = book.reserved - Held(req[r]) + Held(q)
        /\ \A a \in Accounts :
             book'.reservedBy[a] = book.reservedBy[a] - HeldOn(req[r], a) + HeldOn(q, a)
    BY <1>1, <1>2
  <1>. QED
    BY <1>3, HeldMoves

(* Every step keeps the books and the requests in flight in agreement.     *)
LEMMA StepKeepsHeld == IInv /\ HeldInv /\ [Next]_vars => HeldInv'
  <1>. SUFFICES ASSUME IInv, HeldInv, [Next]_vars PROVE HeldInv'
    OBVIOUS
  <1>0. book \in IntBooks /\ IInv'
    BY StepKeepsIInv DEF IInv
  <1>1. ASSUME NEW r \in Requests, \/ \E mode \in Modes, fs \in SUBSET Findings : Ask(r, mode, fs)
                                   \/ BeginRemediate(r)
        PROVE  HeldInv'
    <2>. DEFINE q == req'[r]
    <2>1. ~Flying(req[r]) /\ book' = book
      BY <1>1 DEF Ask, BeginRemediate, Flying
    <2>2. req' = [req EXCEPT ![r] = q]
      BY <1>1 DEF Ask, BeginRemediate, IInv
    <2>3. ~Flying(q)
      <3>1. ASSUME NEW mode \in Modes, NEW fs \in SUBSET Findings, Ask(r, mode, fs) PROVE q.pc = "asked"
        <4>1. q = [Idle EXCEPT !.pc = "asked", !.mode = mode, !.todo = {fs}]
          BY <3>1 DEF Ask, IInv
        <4>. QED
          BY <4>1 DEF Idle
      <3>2. ASSUME BeginRemediate(r) PROVE q.pc \in {"checking", "idle"}
        <4>1. \/ q = [req[r] EXCEPT !.pc = "checking", !.claimed = UNION req[r].todo]
              \/ q = Idle
          BY <3>2 DEF BeginRemediate, IInv
        <4>2. req[r] \in RequestType
          BY DEF IInv
        <4>3. [req[r] EXCEPT !.pc = "checking", !.claimed = UNION req[r].todo].pc = "checking"
          BY <4>2 DEF RequestType
        <4>4. Idle.pc = "idle"
          BY DEF Idle
        <4>. HIDE DEF q
        <4>. QED
          BY <4>1, <4>3, <4>4
      <3>. HIDE DEF q
      <3>. QED
        BY <1>1, <3>1, <3>2 DEF Flying
    <2>4. q \in RequestType
      BY <1>0 DEF IInv
    <2>. HIDE DEF q
    <2>. QED
      BY <2>1, <2>2, <2>3, <2>4, HoldsNothing
  <1>2. ASSUME NEW r \in Requests, NEW open \in SUBSET Findings, Begin(r, open) PROVE HeldInv'
    <2>. DEFINE q == req[r]
                kind == Kind(q.mode)
                wanted == IF kind = "triage" THEN Unsent(kind, open) ELSE open
                mine == {f \in wanted : Claimable(kind, f)}
                todo == Buckets(Unsent(kind, mine))
                p == [q EXCEPT !.todo = todo, !.claimed = mine]
                g == Claimed(r, kind, mine)
    <2>1. q \in RequestType /\ q.pc = "asked" /\ GoOn(r, p, book, g)
      BY <1>2 DEF IInv, Begin
    <2>2. mine \in SUBSET Findings /\ Unsent(kind, mine) \in SUBSET Findings
      BY DEF Unsent
    <2>3. todo \in SUBSET Groups
      BY <2>2, BucketsType
    <2>4. Returned(r, book)
      BY <2>1, NothingHeld DEF Flying
    <2>. HIDE DEF todo, mine, g
    <2>5. p \in RequestType
      BY <2>1, <2>2, <2>3 DEF RequestType
    <2>. HIDE DEF p
    <2>. QED
      BY <2>1, <2>4, <2>5, GoOnKeepsHeld
  <1>3. ASSUME NEW r \in Requests, WentOn(r) PROVE HeldInv'
    <2>1. \E q, b : Carries(req[r], q) /\ Returned(r, b) /\ GoOn(r, q, b, guard)
      BY <1>3, WentOnShape
    <2>2. PICK q, b : Carries(req[r], q) /\ Returned(r, b) /\ GoOn(r, q, b, guard)
      BY <2>1
    <2>3. q \in RequestType
      BY <2>2 DEF Carries
    <2>. QED
      BY <2>2, <2>3, GoOnKeepsHeld
  <1>4. ASSUME NEW r \in Requests, HeardOf(r) PROVE HeldInv'
    <2>1. /\ Flying(req[r]) /\ book' = book
          /\ \E q : SameWork(req[r], q) /\ Flying(q) /\ req' = [req EXCEPT ![r] = q]
      BY <1>4, HeardOfShape
    <2>2. PICK q : SameWork(req[r], q) /\ Flying(q) /\ req' = [req EXCEPT ![r] = q]
      BY <2>1
    <2>3. /\ q \in RequestType /\ req[r] \in RequestType
          /\ Held(q) = Held(req[r]) /\ \A a : HeldOn(q, a) = HeldOn(req[r], a)
      BY <2>1, <2>2 DEF SameWork, Held, HeldOn, Cost, IInv
    <2>4. /\ Held(q) \in Nat /\ \A a : HeldOn(q, a) \in Nat
          /\ book.reserved \in Int /\ \A a \in Accounts : book.reservedBy[a] \in Int
      BY <1>0, <2>3, CostType DEF IntBooks
    <2>5. /\ book'.reserved = book.reserved - Held(req[r]) + Held(q)
          /\ \A a \in Accounts :
               book'.reservedBy[a] = book.reservedBy[a] - HeldOn(req[r], a) + HeldOn(q, a)
      BY <2>1, <2>3, <2>4
    <2>. QED
      BY <2>2, <2>3, <2>5, HeldMoves
  <1>5. ASSUME NEW a \in Accounts, NEW n \in Amounts, Administer(a, n) PROVE HeldInv'
    <2>1. book'.reserved = book.reserved /\ book'.reservedBy = book.reservedBy /\ req' = req
      BY <1>0, <1>5 DEF Administer, Add, Grant, ClearExtras, ReclaimUnused, IntBooks
    <2>. QED
      BY <2>1, HeldStays
  <1>6. ASSUME NEW x \in Results(Findings), JobFails(x) PROVE HeldInv'
    BY <1>6, HeldStays DEF JobFails
  <1>7. CASE req' = req /\ (book' = book \/ NewMonth)
    BY <1>0, <1>7, HeldStays DEF NewMonth, IntBooks
  <1>. QED
    BY <1>1, <1>2, <1>3, <1>4, <1>5, <1>6, <1>7, StepShape

(* What some requests hold is the sum over all, the others at nothing. *)
LEMMA HeldBySum ==
  ASSUME IInv, NEW rs \in SUBSET Requests, NEW h \in [Requests -> Int],
         \A r \in rs : h[r] = Cost(req[r]), \A r \in Requests \ rs : h[r] = 0
  PROVE  HeldBy(rs) = SumFunction(h)
  <1>1. [r \in rs |-> Cost(req[r])] = [r \in rs |-> h[r]]
    OBVIOUS
  <1>2. [r \in Requests |-> IF r \in rs THEN h[r] ELSE 0] = h
    OBVIOUS
  <1>3. SumFunction([r \in rs |-> h[r]])
          = SumFunction([r \in Requests |-> IF r \in rs THEN h[r] ELSE 0])
    BY SumOfSome, SpendAssumption
  <1>. QED
    BY <1>1, <1>2, <1>3 DEF HeldBy

(* Nothing is held at first. *)
LEMMA InitHeld == Init => HeldInv
  <1>. SUFFICES ASSUME Init PROVE HeldInv
    OBVIOUS
  <1>1. SumFunction([r \in Requests |-> IF r \in {} THEN 0 ELSE 0]) = 0 * Cardinality({})
    BY SumOver, SpendAssumption
  <1>2. SumFunction([r \in Requests |-> 0]) = 0
    BY <1>1, FS_EmptySet
  <1>3. \A r \in Requests : Held(req[r]) = 0 /\ \A a : HeldOn(req[r], a) = 0
    BY DEF Init, Idle, Held, HeldOn, Flying
  <1>4. HoldsNow = [r \in Requests |-> 0] /\ \A a : HoldsOnNow(a) = [r \in Requests |-> 0]
    BY <1>3 DEF HoldsNow, HoldsOnNow
  <1>5. book.reserved = 0 /\ \A a \in Accounts : book.reservedBy[a] = 0
    BY DEF Init, EmptyBook
  <1>. QED
    BY <1>2, <1>4, <1>5 DEF HeldInv

(* Both invariants hold throughout. *)
THEOREM HoldsInductive == Spec => [](IInv /\ HeldInv)
  BY InitHeld, StepKeepsHeld, Inductive, PTL DEF Spec

(* Every credit held belongs to a request in flight, in the pool and on    *)
(* every account, for any number of requests: no reservation is leaked, or *)
(* released twice, on any path.                                            *)
THEOREM HeldCreditsAreInFlight == Spec => []HeldForInFlight
  <1>1. IInv /\ HeldInv => HeldForInFlight
    <2>. SUFFICES ASSUME IInv, HeldInv PROVE HeldForInFlight
      OBVIOUS
    <2>1. \A r \in Requests : Held(req[r]) \in Int /\ \A a : HeldOn(req[r], a) \in Int
      BY CostType DEF IInv
    <2>2. book.reserved = HeldBy(InFlight)
      <3>1. InFlight \in SUBSET Requests /\ HoldsNow \in [Requests -> Int]
        BY <2>1 DEF InFlight, HoldsNow
      <3>2. /\ \A r \in InFlight : HoldsNow[r] = Cost(req[r])
            /\ \A r \in Requests \ InFlight : HoldsNow[r] = 0
        BY DEF InFlight, HoldsNow, Held, Flying
      <3>. QED
        BY <3>1, <3>2, HeldBySum DEF HeldInv
    <2>3. ASSUME NEW a \in Accounts
          PROVE  book.reservedBy[a] =
                   HeldBy({r \in InFlight : Scoped(req[r].mode) /\ Account(req[r].mode, req[r].current) = a})
      <3>. DEFINE rs == {r \in InFlight : Scoped(req[r].mode) /\ Account(req[r].mode, req[r].current) = a}
                  h == HoldsOnNow(a)
      <3>1. rs \in SUBSET Requests /\ h \in [Requests -> Int]
        BY <2>1 DEF InFlight, HoldsOnNow
      <3>2. /\ \A r \in rs : h[r] = Cost(req[r])
            /\ \A r \in Requests \ rs : h[r] = 0
        BY DEF InFlight, HoldsOnNow, HeldOn, Flying
      <3>3. book.reservedBy[a] = SumFunction(h)
        BY DEF HeldInv
      <3>. HIDE DEF rs, h
      <3>4. HeldBy(rs) = SumFunction(h)
        BY <3>1, <3>2, HeldBySum
      <3>. QED
        BY <3>3, <3>4 DEF rs
    <2>. QED
      BY <2>2, <2>3 DEF HeldForInFlight
  <1>. QED
    BY <1>1, HoldsInductive, PTL

-----------------------------------------------------------------------------
(* Allocations.  Adding credits and taking unused ones back leave what is  *)
(* spent and promised within the allocation; taking extra credits back     *)
(* (clearExtras, setExtra) does not look at what is promised.              *)

(* What administrators do keeps each account covered. *)
LEMMA AdministerKeepsCovered ==
  ASSUME IInv, Covered(book), AdminOps \subseteq {"add", "reclaim"},
         NEW a \in Accounts, NEW n \in Amounts, Administer(a, n)
  PROVE  Covered(book')
  <1>1. book \in IntBooks /\ n \in Nat
    BY SpendAssumption DEF IInv
  <1>2. \A c \in Accounts : /\ book.used[c] \in Nat /\ book.reservedBy[c] \in Int
                            /\ book.allocated[c] \in Int
                            /\ book.used[c] + book.reservedBy[c] <= book.allocated[c]
    BY <1>1 DEF IntBooks, Covered
  <1>3. CASE book' = Add(book, a, n)
    <2>. DEFINE g == Grant(book, a, n)
    <2>a. n \in Int
      BY <1>1
    <2>b. g \in IntBooks
      BY <1>1, <2>a, GrantType DEF SamePool
    <2>c. /\ g.used = book.used /\ g.reservedBy = book.reservedBy
          /\ g.allocated = [book.allocated EXCEPT ![a] = AtLeast0(@ + n)]
      BY <1>1, <2>a, GrantFields
    <2>1. /\ g \in IntBooks /\ g.used = book.used /\ g.reservedBy = book.reservedBy
          /\ g.allocated = [book.allocated EXCEPT ![a] = AtLeast0(@ + n)]
      BY <2>b, <2>c
    <2>. HIDE DEF g
    <2>2. /\ book'.used = book.used /\ book'.reservedBy = book.reservedBy
          /\ book'.allocated = [book.allocated EXCEPT ![a] = AtLeast0(@ + n)]
      BY <1>3, <2>1 DEF Add, IntBooks, g
    <2>3. \A c \in Accounts : book'.allocated[c] =
            IF c = a THEN AtLeast0(book.allocated[a] + n) ELSE book.allocated[c]
      BY <1>1, <2>2 DEF IntBooks
    <2>. QED
      BY <1>1, <1>2, <2>2, <2>3 DEF Covered, AtLeast0
  <1>4. CASE book' = ReclaimUnused(book, a)
    <2>. DEFINE floor == book.used[a] + book.reservedBy[a]
    <2>1. /\ book'.used = book.used /\ book'.reservedBy = book.reservedBy
          /\ book'.allocated = [book.allocated EXCEPT ![a] = IF @ > floor THEN floor ELSE @]
      BY <1>1, <1>4 DEF ReclaimUnused, IntBooks
    <2>2. \A c \in Accounts : book'.allocated[c] =
            IF c = a THEN IF book.allocated[a] > floor THEN floor ELSE book.allocated[a]
            ELSE book.allocated[c]
      BY <1>1, <2>1 DEF IntBooks
    <2>. QED
      BY <1>2, <2>1, <2>2 DEF Covered
  <1>. QED
    BY <1>3, <1>4 DEF Administer

(* Every step keeps each account covered. *)
LEMMA StepKeepsCovered ==
  ASSUME AdminOps \subseteq {"add", "reclaim"}
  PROVE  IInv /\ HeldInv /\ WithinAllocation /\ [Next]_vars => WithinAllocation'
  <1>. SUFFICES ASSUME IInv, HeldInv, Covered(book), [Next]_vars PROVE Covered(book')
    BY DEF WithinAllocation, Covered
  <1>0. book \in IntBooks
    BY DEF IInv
  <1>1. CASE book' = book
    BY <1>1
  <1>2. ASSUME NEW r \in Requests, NEW open \in SUBSET Findings, Begin(r, open) PROVE Covered(book')
    <2>. DEFINE q == req[r]
                kind == Kind(q.mode)
                wanted == IF kind = "triage" THEN Unsent(kind, open) ELSE open
                mine == {f \in wanted : Claimable(kind, f)}
                todo == Buckets(Unsent(kind, mine))
                p == [q EXCEPT !.todo = todo, !.claimed = mine]
                g == Claimed(r, kind, mine)
    <2>1. q \in RequestType /\ q.pc = "asked" /\ GoOn(r, p, book, g)
      BY <1>2 DEF IInv, Begin
    <2>2. mine \in SUBSET Findings /\ Unsent(kind, mine) \in SUBSET Findings
      BY DEF Unsent
    <2>3. todo \in SUBSET Groups
      BY <2>2, BucketsType
    <2>4. Returned(r, book)
      BY <2>1, NothingHeld DEF Flying
    <2>. HIDE DEF todo, mine, g
    <2>5. p \in RequestType
      BY <2>1, <2>2, <2>3 DEF RequestType
    <2>. HIDE DEF p
    <2>. QED
      BY <2>1, <2>4, <2>5, GoOnKeepsHeld
  <1>3. ASSUME NEW r \in Requests, WentOn(r) PROVE Covered(book')
    <2>1. \E q, b : /\ Carries(req[r], q) /\ Returned(r, b) /\ Covered(b)
                    /\ GoOn(r, q, b, guard)
      BY <1>3, WentOnShape
    <2>2. PICK q, b : Carries(req[r], q) /\ Returned(r, b) /\ Covered(b) /\ GoOn(r, q, b, guard)
      BY <2>1
    <2>3. q \in RequestType
      BY <2>2 DEF Carries
    <2>. QED
      BY <2>2, <2>3, GoOnKeepsHeld
  <1>4. ASSUME NEW r \in Requests, HeardOf(r) PROVE book' = book
    BY <1>4, HeardOfShape
  <1>5. ASSUME NewMonth PROVE Covered(book')
    <2>1. /\ book'.used = book.used /\ book'.reservedBy = book.reservedBy
          /\ book'.allocated = book.allocated
      BY <1>0, <1>5 DEF NewMonth, IntBooks
    <2>. QED
      BY <2>1 DEF Covered
  <1>6. ASSUME NEW r \in Requests, \/ \E mode \in Modes, fs \in SUBSET Findings : Ask(r, mode, fs)
                                   \/ BeginRemediate(r)
        PROVE  book' = book
    BY <1>6 DEF Ask, BeginRemediate
  <1>7. ASSUME NEW x \in Results(Findings), JobFails(x) PROVE book' = book
    BY <1>7 DEF JobFails
  <1>. QED
    BY <1>1, <1>2, <1>3, <1>4, <1>5, <1>6, <1>7, StepShape, AdministerKeepsCovered

(* While administrators only add credits and take unused ones back, no     *)
(* project spends or is promised more than it was allocated, however many  *)
(* requests run: the allowance is looked at when it is reserved, and what  *)
(* is reserved is turned into what is spent in one step.                   *)
THEOREM AllocationIsKept ==
  ASSUME AdminOps \subseteq {"add", "reclaim"}
  PROVE  Spec => []WithinAllocation
  <1>1. Init => WithinAllocation
    BY DEF Init, EmptyBook, WithinAllocation
  <1>. QED
    BY <1>1, StepKeepsCovered, HoldsInductive, PTL DEF Spec

-----------------------------------------------------------------------------
(* What Checkmarx One charged for, and the ledger.  The difference is what *)
(* requests in flight were told of and have not recorded, and what answers *)
(* that never arrived told of.                                             *)

(* What the request was told is charged, in credits and per charge. *)
Due(q) == IF Flying(q) /\ q.sent = "published" THEN Cost(q) ELSE 0
Names(q, c) == c[1] = Kind(q.mode) /\ c[2] \in Results(q.current)
DueFor(q, c) == IF Flying(q) /\ q.sent = "published" /\ Names(q, c) THEN 1 ELSE 0

DueNow == [r \in Requests |-> Due(req[r])]
DueForNow(c) == [r \in Requests |-> DueFor(req[r], c)]

LedgerInv ==
  /\ jobs \in [Charged -> Nat]
  /\ recorded \in [Charged -> Nat]
  /\ lost.charges \in Nat
  /\ TotalOf(jobs) = TotalOf(recorded) + lost.charges + SumFunction(DueNow)
  /\ \A c \in Charged : recorded[c] + SumFunction(DueForNow(c)) <= jobs[c]

(* There are finitely many charges to be made. *)
LEMMA ChargedFinite ==
  /\ \A fs \in SUBSET Findings : IsFiniteSet(Results(fs)) /\ Results(fs) \subseteq Results(Findings)
  /\ IsFiniteSet(Charged)
  <1>1. ASSUME NEW fs \in SUBSET Findings
        PROVE  IsFiniteSet(Results(fs)) /\ Results(fs) \subseteq Results(Findings)
    <2>. DEFINE id == [f \in fs |-> f.alternateId]
    <2>1. id \in Surjection(fs, Results(fs)) /\ IsFiniteSet(fs)
      BY FS_Subset, SpendAssumption DEF Surjection, Results
    <2>. HIDE DEF id
    <2>2. IsFiniteSet(Results(fs))
      BY <2>1, FS_Surjection
    <2>. QED
      BY <2>2 DEF Results
  <1>2. IsFiniteSet(Kinds)
    <2>1. IsFiniteSet({"triage"}) /\ IsFiniteSet({"triage"} \cup {"remediation"})
      BY FS_Singleton, FS_AddElement
    <2>2. Kinds = {"triage"} \cup {"remediation"}
      BY DEF Kinds
    <2>. QED
      BY <2>1, <2>2
  <1>3. IsFiniteSet(Charged)
    BY <1>1, <1>2, FS_Product DEF Charged
  <1>. QED
    BY <1>1, <1>3

(* Counting each result of a request once costs what the request costs. *)
LEMMA CountedOnce ==
  ASSUME NEW counts \in [Charged -> Nat], NEW q \in RequestType
  PROVE  LET more == [c \in Charged |->
                        counts[c] + IF c[1] = Kind(q.mode) /\ c[2] \in Results(q.current) THEN 1 ELSE 0]
         IN  more \in [Charged -> Nat] /\ TotalOf(more) = TotalOf(counts) + Cost(q)
  <1>. DEFINE more == [c \in Charged |->
                         counts[c] + IF c[1] = Kind(q.mode) /\ c[2] \in Results(q.current) THEN 1 ELSE 0]
              D == {Kind(q.mode)} \X Results(q.current)
              k == CreditCost[Kind(q.mode)]
              w == [c \in Charged |-> counts[c] * CreditCost[c[1]]]
              d == [c \in Charged |-> IF c \in D THEN k ELSE 0]
              v == [c \in Charged |-> more[c] * CreditCost[c[1]]]
  <1>1. more \in [Charged -> Nat]
    OBVIOUS
  <1>2. Kind(q.mode) \in Kinds /\ q.current \in SUBSET Findings
    BY KindType DEF RequestType
  <1>3. \A kind \in Kinds : CreditCost[kind] \in Nat
    BY DEF CreditCost
  <1>4. k \in Nat
    BY <1>2, <1>3
  <1>5. IsFiniteSet(Results(q.current)) /\ Results(q.current) \subseteq Results(Findings) /\ IsFiniteSet(Charged)
    BY <1>2, ChargedFinite
  <1>6. D \in SUBSET Charged
    BY <1>2, <1>5 DEF Charged
  <1>7. Cardinality(D) = Cardinality(Results(q.current))
    <2>1. IsFiniteSet({Kind(q.mode)}) /\ Cardinality({Kind(q.mode)}) = 1
      BY FS_Singleton
    <2>2. Cardinality(D) = Cardinality({Kind(q.mode)}) * Cardinality(Results(q.current))
      BY <1>5, <2>1, FS_Product
    <2>3. Cardinality(Results(q.current)) \in Nat
      BY <1>5, FS_CardinalityType
    <2>. QED
      BY <2>1, <2>2, <2>3
  <1>8. SumFunction(d) = Cost(q)
    <2>. HIDE DEF D, k
    <2>1. SumFunction(d) = k * Cardinality(D)
      BY <1>4, <1>5, <1>6, SumOver
    <2>. QED
      BY <1>7, <2>1 DEF Cost, Credits, k
  <1>9. \A c \in Charged : c[1] \in Kinds
    BY DEF Charged
  <1>10. \A c \in Charged : w[c] \in Int /\ d[c] \in Int /\ v[c] = w[c] + d[c]
    <2>. SUFFICES ASSUME NEW c \in Charged PROVE w[c] \in Int /\ d[c] \in Int /\ v[c] = w[c] + d[c]
      OBVIOUS
    <2>. DEFINE m == counts[c]
                p == CreditCost[c[1]]
    <2>1. m \in Int /\ p \in Int /\ w[c] = m * p
      BY <1>3, <1>9
    <2>2. m * p \in Int /\ (m + 1) * p = m * p + p /\ (m + 0) * p = m * p + 0
      <3>. HIDE DEF m, p
      <3>. QED
        BY <2>1
    <2>3. CASE c \in D
      <3>1. c[1] = Kind(q.mode) /\ c[2] \in Results(q.current)
        BY <2>3
      <3>2. v[c] = (m + 1) * p /\ d[c] = p
        BY <2>3, <3>1
      <3>. QED
        BY <2>1, <2>2, <3>2
    <2>4. CASE c \notin D
      <3>1. ~(c[1] = Kind(q.mode) /\ c[2] \in Results(q.current))
        BY <2>4 DEF Charged
      <3>2. v[c] = (m + 0) * p /\ d[c] = 0
        BY <2>4, <3>1
      <3>. QED
        BY <2>1, <2>2, <3>2
    <2>. QED
      BY <2>3, <2>4
  <1>11. w \in [Charged -> Int] /\ d \in [Charged -> Int] /\ v = [c \in Charged |-> w[c] + d[c]]
    <2>. HIDE DEF more, D, k
    <2>. QED
      BY <1>10
  <1>12. SumFunction([c \in Charged |-> w[c] + d[c]]) = SumFunction(w) + SumFunction(d)
    <2>. HIDE DEF w, d
    <2>. QED
      BY <1>5, <1>11, SumPlus
  <1>13. TotalOf(counts) = SumFunction(w) /\ TotalOf(more) = SumFunction(v)
    BY DEF TotalOf
  <1>14. TotalOf(more) = TotalOf(counts) + Cost(q)
    <2>. HIDE DEF w, d, v, more
    <2>. QED
      BY <1>8, <1>11, <1>12, <1>13
  <1>. QED
    BY <1>1, <1>14

(* A total of charges is a number. *)
LEMMA TotalType == \A counts \in [Charged -> Nat] : TotalOf(counts) \in Int
  <1>. SUFFICES ASSUME NEW counts \in [Charged -> Nat] PROVE TotalOf(counts) \in Int
    OBVIOUS
  <1>1. \A c \in Charged : c[1] \in Kinds
    BY DEF Charged
  <1>2. \A kind \in Kinds : CreditCost[kind] \in Nat
    BY DEF CreditCost
  <1>3. [c \in Charged |-> counts[c] * CreditCost[c[1]]] \in [Charged -> Int]
    <2>. SUFFICES ASSUME NEW c \in Charged PROVE counts[c] * CreditCost[c[1]] \in Int
      OBVIOUS
    <2>1. counts[c] \in Int /\ CreditCost[c[1]] \in Int
      BY <1>1, <1>2
    <2>. QED
      BY <2>1
  <1>. QED
    BY <1>3, SumType, ChargedFinite DEF TotalOf

(* What one request was told of changes with it, and nothing else.         *)
LEMMA DueMoves ==
  ASSUME IInv, NEW r \in Requests, NEW q \in RequestType, req' = [req EXCEPT ![r] = q]
  PROVE  /\ SumFunction(DueNow) \in Nat /\ Due(req[r]) \in Nat /\ Due(q) \in Nat
         /\ SumFunction(DueNow') = SumFunction(DueNow) + Due(q) - Due(req[r])
         /\ \A c : SumFunction(DueForNow(c)) \in Int
         /\ \A c : SumFunction(DueForNow(c)')
                     = SumFunction(DueForNow(c)) + DueFor(q, c) - DueFor(req[r], c)
  <1>1. /\ req \in [Requests -> RequestType]
        /\ req'[r] = q /\ \A x \in Requests \ {r} : req'[x] = req[x]
    BY DEF IInv
  <1>2. \A p \in RequestType : Due(p) \in Nat /\ \A c : DueFor(p, c) \in {0, 1}
    BY CostType DEF Due, DueFor
  <1>3. DueNow \in [Requests -> Nat] /\ DueNow \in [Requests -> Int] /\ DueNow[r] = Due(req[r])
    BY <1>1, <1>2 DEF DueNow
  <1>4. DueNow' = [DueNow EXCEPT ![r] = Due(q)]
    BY <1>1 DEF DueNow
  <1>5. Due(req[r]) \in Nat /\ Due(q) \in Nat
    BY <1>1, <1>2
  <1>6. SumFunction(DueNow) \in Nat
    BY <1>3, SumNat, SpendAssumption
  <1>7. SumFunction(DueNow') = SumFunction(DueNow) + Due(q) - Due(req[r])
    <2>. HIDE DEF DueNow
    <2>1. SumFunction([DueNow EXCEPT ![r] = Due(q)]) = SumFunction(DueNow) + (Due(q) - DueNow[r])
      <3>1. DueNow \in [Requests -> Int] /\ Due(q) \in Int
        BY <1>3, <1>5
      <3>. QED
        BY <3>1, SumExcept, SpendAssumption
    <2>. QED
      BY <1>3, <1>4, <1>5, <1>6, <2>1
  <1>8. ASSUME NEW c
        PROVE  /\ SumFunction(DueForNow(c)) \in Int
               /\ SumFunction(DueForNow(c)')
                    = SumFunction(DueForNow(c)) + DueFor(q, c) - DueFor(req[r], c)
    <2>. DEFINE h == DueForNow(c)
    <2>1. h \in [Requests -> Int] /\ h[r] = DueFor(req[r], c)
      BY <1>1, <1>2 DEF DueForNow
    <2>2. h' = [h EXCEPT ![r] = DueFor(q, c)]
      BY <1>1 DEF DueForNow
    <2>3. DueFor(req[r], c) \in Int /\ DueFor(q, c) \in Int
      BY <1>1, <1>2
    <2>4. SumFunction(h) \in Int
      BY <2>1, SumType, SpendAssumption
    <2>5. SumFunction([h EXCEPT ![r] = DueFor(q, c)]) = SumFunction(h) + (DueFor(q, c) - h[r])
      <3>. HIDE DEF h
      <3>. QED
        BY <2>1, <2>3, SumExcept, SpendAssumption
    <2>. QED
      BY <2>1, <2>2, <2>3, <2>4, <2>5
  <1>. QED
    BY <1>5, <1>6, <1>7, <1>8

(* A request that goes on was told of nothing yet. *)
LEMMA NothingDue ==
  ASSUME NEW r \in Requests, NEW q \in RequestType, NEW b, NEW g, GoOn(r, q, b, g)
  PROVE  \E n \in RequestType : /\ req' = [req EXCEPT ![r] = n]
                                /\ Due(n) = 0 /\ \A c : DueFor(n, c) = 0
  <1>1. PICK n \in RequestType :
          req' = [req EXCEPT ![r] = n] /\ (Posts(q, n, b, g) \/ Ends(r, n, b, g))
    BY GoOnShape
  <1>2. n.sent = "no"
    BY <1>1 DEF Posts, Ends, Idle
  <1>. QED
    BY <1>1, <1>2 DEF Due, DueFor

(* A request that was told of nothing goes on: the charges stay. *)
LEMMA TellsNothing ==
  ASSUME IInv, LedgerInv, NEW r \in Requests, NEW q \in RequestType,
         req' = [req EXCEPT ![r] = q], UNCHANGED <<jobs, recorded>>,
         Due(q) = 0, \A c : DueFor(q, c) = 0,
         lost'.charges = lost.charges + Due(req[r])
  PROVE  LedgerInv'
  <1>1. /\ SumFunction(DueNow) \in Nat /\ Due(req[r]) \in Nat
        /\ SumFunction(DueNow') = SumFunction(DueNow) + Due(q) - Due(req[r])
        /\ \A c : SumFunction(DueForNow(c)) \in Int
        /\ \A c : SumFunction(DueForNow(c)')
                    = SumFunction(DueForNow(c)) + DueFor(q, c) - DueFor(req[r], c)
    BY DueMoves
  <1>2. TotalOf(jobs') = TotalOf(jobs) /\ TotalOf(recorded') = TotalOf(recorded)
    OBVIOUS
  <1>3. TotalOf(recorded) \in Int
    BY TotalType DEF LedgerInv
  <1>4. TotalOf(jobs') = TotalOf(recorded') + lost'.charges + SumFunction(DueNow')
    BY <1>1, <1>2, <1>3 DEF LedgerInv
  <1>5. \A c \in Charged : recorded'[c] + SumFunction(DueForNow(c)') <= jobs'[c]
    <2>. SUFFICES ASSUME NEW c \in Charged
                  PROVE  recorded'[c] + SumFunction(DueForNow(c)') <= jobs'[c]
      OBVIOUS
    <2>1. recorded[c] \in Nat /\ jobs[c] \in Nat /\ recorded[c] + SumFunction(DueForNow(c)) <= jobs[c]
      BY DEF LedgerInv
    <2>2. DueFor(req[r], c) \in {0, 1} /\ DueFor(q, c) = 0
      BY DEF DueFor
    <2>3. SumFunction(DueForNow(c)') = SumFunction(DueForNow(c)) - DueFor(req[r], c)
          /\ SumFunction(DueForNow(c)) \in Int
      BY <1>1, <2>2
    <2>. QED
      BY <2>1, <2>2, <2>3
  <1>6. lost'.charges \in Nat
    BY <1>1 DEF LedgerInv
  <1>. QED
    BY <1>4, <1>5, <1>6 DEF LedgerInv

(* What was told is recorded: the charge moves into the ledger. *)
LEMMA RecordedIsTold ==
  ASSUME IInv, LedgerInv, NEW r \in Requests, Flying(req[r]), req[r].sent = "published",
         NEW q \in RequestType, req' = [req EXCEPT ![r] = q],
         Due(q) = 0, \A c : DueFor(q, c) = 0,
         recorded' = RecordedNow(req[r]), UNCHANGED <<jobs, lost>>
  PROVE  LedgerInv'
  <1>. DEFINE p == req[r]
  <1>1. /\ SumFunction(DueNow) \in Nat
        /\ SumFunction(DueNow') = SumFunction(DueNow) + Due(q) - Due(p)
        /\ \A c : SumFunction(DueForNow(c)) \in Int
        /\ \A c : SumFunction(DueForNow(c)')
                    = SumFunction(DueForNow(c)) + DueFor(q, c) - DueFor(p, c)
    BY DueMoves
  <1>2. p \in RequestType /\ Cost(p) \in Nat
    BY CostType DEF IInv
  <1>3. Due(p) = Cost(p) /\ \A c : DueFor(p, c) = IF Names(p, c) THEN 1 ELSE 0
    BY DEF Due, DueFor
  <1>4. recorded \in [Charged -> Nat] /\ jobs \in [Charged -> Nat] /\ lost.charges \in Nat
    BY DEF LedgerInv
  <1>5. recorded' \in [Charged -> Nat] /\ TotalOf(recorded') = TotalOf(recorded) + Cost(p)
    BY <1>2, <1>4, CountedOnce DEF RecordedNow
  <1>6. \A c \in Charged : recorded'[c] = recorded[c] + IF Names(p, c) THEN 1 ELSE 0
    BY DEF RecordedNow, Names
  <1>7. TotalOf(recorded) \in Int /\ TotalOf(jobs') = TotalOf(jobs)
    BY <1>4, TotalType
  <1>8. TotalOf(jobs') = TotalOf(recorded') + lost'.charges + SumFunction(DueNow')
    BY <1>1, <1>2, <1>3, <1>4, <1>5, <1>7 DEF LedgerInv
  <1>9. \A c \in Charged : recorded'[c] + SumFunction(DueForNow(c)') <= jobs'[c]
    <2>. SUFFICES ASSUME NEW c \in Charged
                  PROVE  recorded'[c] + SumFunction(DueForNow(c)') <= jobs'[c]
      OBVIOUS
    <2>1. recorded[c] \in Nat /\ jobs[c] \in Nat /\ recorded[c] + SumFunction(DueForNow(c)) <= jobs[c]
      BY <1>4 DEF LedgerInv
    <2>2. DueFor(p, c) \in {0, 1} /\ recorded'[c] = recorded[c] + DueFor(p, c)
      BY <1>3, <1>6
    <2>3. /\ SumFunction(DueForNow(c)') = SumFunction(DueForNow(c)) - DueFor(p, c)
          /\ SumFunction(DueForNow(c)) \in Int
      <3>1. DueFor(q, c) = 0
        OBVIOUS
      <3>. QED
        BY <1>1, <2>2, <3>1
    <2>. QED
      BY <2>1, <2>2, <2>3
  <1>. QED
    BY <1>4, <1>5, <1>8, <1>9 DEF LedgerInv

(* Checkmarx One charges for what it accepts, and the request is told. *)
LEMMA AcceptKeepsLedger ==
  ASSUME IInv, LedgerInv, NEW r \in Requests, Accept(r)
  PROVE  LedgerInv'
  <1>. DEFINE p == req[r]
              q == [p EXCEPT !.sent = "published"]
  <1>1. /\ p \in RequestType /\ p.pc = "posting" /\ p.sent = "no"
        /\ req' = [req EXCEPT ![r] = q] /\ UNCHANGED <<recorded, lost>>
    BY DEF Accept, IInv
  <1>2. q \in RequestType /\ q.pc = "posting" /\ q.sent = "published" /\ q.mode = p.mode
        /\ q.current = p.current
    BY <1>1 DEF RequestType
  <1>. HIDE DEF q
  <1>3. /\ Due(p) = 0 /\ \A c : DueFor(p, c) = 0
        /\ Due(q) = Cost(p) /\ \A c : DueFor(q, c) = IF Names(p, c) THEN 1 ELSE 0
    BY <1>1, <1>2 DEF Due, DueFor, Flying, Cost, Names
  <1>4. /\ SumFunction(DueNow) \in Nat
        /\ SumFunction(DueNow') = SumFunction(DueNow) + Due(q) - Due(p)
        /\ \A c : SumFunction(DueForNow(c)) \in Int
        /\ \A c : SumFunction(DueForNow(c)')
                    = SumFunction(DueForNow(c)) + DueFor(q, c) - DueFor(p, c)
    BY <1>1, <1>2, DueMoves
  <1>5. recorded \in [Charged -> Nat] /\ jobs \in [Charged -> Nat] /\ lost.charges \in Nat
    BY DEF LedgerInv
  <1>6. jobs' \in [Charged -> Nat] /\ TotalOf(jobs') = TotalOf(jobs) + Cost(p)
    BY <1>1, <1>5, CountedOnce DEF Accept
  <1>7. \A c \in Charged : jobs'[c] = jobs[c] + IF Names(p, c) THEN 1 ELSE 0
    BY DEF Accept, Names
  <1>8. TotalOf(recorded) \in Int /\ TotalOf(recorded') = TotalOf(recorded) /\ Cost(p) \in Nat
    BY <1>1, <1>5, TotalType, CostType
  <1>9. TotalOf(jobs') = TotalOf(recorded') + lost'.charges + SumFunction(DueNow')
    BY <1>1, <1>3, <1>4, <1>5, <1>6, <1>8 DEF LedgerInv
  <1>10. \A c \in Charged : recorded'[c] + SumFunction(DueForNow(c)') <= jobs'[c]
    <2>. SUFFICES ASSUME NEW c \in Charged
                  PROVE  recorded'[c] + SumFunction(DueForNow(c)') <= jobs'[c]
      OBVIOUS
    <2>1. recorded[c] \in Nat /\ jobs[c] \in Nat /\ recorded[c] + SumFunction(DueForNow(c)) <= jobs[c]
      BY <1>5 DEF LedgerInv
    <2>2. DueFor(q, c) \in {0, 1} /\ DueFor(p, c) = 0 /\ jobs'[c] = jobs[c] + DueFor(q, c)
      BY <1>3, <1>7
    <2>3. /\ SumFunction(DueForNow(c)') = SumFunction(DueForNow(c)) + DueFor(q, c)
          /\ SumFunction(DueForNow(c)) \in Int
      BY <1>4, <2>2
    <2>. QED
      BY <1>1, <2>1, <2>2, <2>3
  <1>. QED
    BY <1>1, <1>5, <1>6, <1>9, <1>10 DEF LedgerInv

(* Nothing is told that a request was not told before. *)
LEMMA SameDue ==
  ASSUME IInv, LedgerInv, NEW r \in Requests, NEW q \in RequestType,
         req' = [req EXCEPT ![r] = q], UNCHANGED <<jobs, recorded, lost>>,
         Due(q) = Due(req[r]), \A c : DueFor(q, c) = DueFor(req[r], c)
  PROVE  LedgerInv'
  <1>1. /\ SumFunction(DueNow) \in Nat /\ Due(req[r]) \in Nat
        /\ SumFunction(DueNow') = SumFunction(DueNow) + Due(q) - Due(req[r])
        /\ \A c : SumFunction(DueForNow(c)) \in Int
        /\ \A c : SumFunction(DueForNow(c)')
                    = SumFunction(DueForNow(c)) + DueFor(q, c) - DueFor(req[r], c)
    BY DueMoves
  <1>2. SumFunction(DueNow') = SumFunction(DueNow)
    BY <1>1
  <1>3. \A c : SumFunction(DueForNow(c)') = SumFunction(DueForNow(c))
    <2>. SUFFICES ASSUME NEW c PROVE SumFunction(DueForNow(c)') = SumFunction(DueForNow(c))
      OBVIOUS
    <2>1. DueFor(req[r], c) \in Int /\ DueFor(q, c) = DueFor(req[r], c)
      BY DEF DueFor
    <2>. QED
      BY <1>1, <2>1
  <1>4. TotalOf(jobs') = TotalOf(jobs) /\ TotalOf(recorded') = TotalOf(recorded)
    OBVIOUS
  <1>. QED
    BY <1>2, <1>3, <1>4 DEF LedgerInv

(* A request goes on that was told of nothing, or whose answer was lost.   *)
LEMMA GoOnKeepsLedger ==
  ASSUME IInv, LedgerInv, NEW r \in Requests, NEW q \in RequestType, NEW b, NEW g,
         GoOn(r, q, b, g), UNCHANGED <<jobs, recorded>>,
         lost'.charges = lost.charges + Due(req[r])
  PROVE  LedgerInv'
  <1>1. PICK n \in RequestType : /\ req' = [req EXCEPT ![r] = n]
                                 /\ Due(n) = 0 /\ \A c : DueFor(n, c) = 0
    BY NothingDue
  <1>. QED
    BY <1>1, TellsNothing

(* Every step keeps the ledger and Checkmarx One in agreement.             *)
LEMMA StepKeepsLedger == IInv /\ LedgerInv /\ [Next]_vars => LedgerInv'
  <1>. SUFFICES ASSUME IInv, LedgerInv, [Next]_vars PROVE LedgerInv'
    OBVIOUS
  <1>0. IInv' /\ lost.charges \in Nat /\ req \in [Requests -> RequestType]
    BY StepKeepsIInv DEF IInv, LedgerInv
  <1>1. CASE UNCHANGED <<req, jobs, recorded, lost>>
    BY <1>1 DEF LedgerInv, DueNow, DueForNow, TotalOf
  <1>2. ASSUME NEW r \in Requests, \/ \E mode \in Modes, fs \in SUBSET Findings : Ask(r, mode, fs)
                                   \/ BeginRemediate(r)
        PROVE  LedgerInv'
    <2>. DEFINE q == req'[r]
    <2>1. ~Flying(req[r]) /\ UNCHANGED <<jobs, recorded, lost>>
      BY <1>2 DEF Ask, BeginRemediate, Flying
    <2>2. req' = [req EXCEPT ![r] = q] /\ q \in RequestType
      BY <1>0, <1>2 DEF Ask, BeginRemediate, IInv
    <2>3. q.sent # "published" \/ ~Flying(q)
      <3>1. ASSUME NEW mode \in Modes, NEW fs \in SUBSET Findings, Ask(r, mode, fs) PROVE q.pc = "asked"
        <4>1. q = [Idle EXCEPT !.pc = "asked", !.mode = mode, !.todo = {fs}]
          BY <1>0, <3>1 DEF Ask
        <4>. QED
          BY <4>1 DEF Idle
      <3>2. ASSUME BeginRemediate(r) PROVE q.pc \in {"checking", "idle"}
        <4>1. \/ q = [req[r] EXCEPT !.pc = "checking", !.claimed = UNION req[r].todo]
              \/ q = Idle
          BY <1>0, <3>2 DEF BeginRemediate
        <4>2. req[r] \in RequestType
          BY <1>0
        <4>3. [req[r] EXCEPT !.pc = "checking", !.claimed = UNION req[r].todo].pc = "checking"
          BY <4>2 DEF RequestType
        <4>4. Idle.pc = "idle"
          BY DEF Idle
        <4>. HIDE DEF q
        <4>. QED
          BY <4>1, <4>3, <4>4
      <3>. HIDE DEF q
      <3>. QED
        BY <1>2, <3>1, <3>2 DEF Flying
    <2>. HIDE DEF q
    <2>4. /\ Due(req[r]) = 0 /\ Due(q) = 0
          /\ \A c : DueFor(req[r], c) = 0 /\ DueFor(q, c) = 0
      BY <2>1, <2>3 DEF Due, DueFor
    <2>. QED
      BY <2>1, <2>2, <2>4, SameDue
  <1>3. ASSUME NEW r \in Requests, NEW open \in SUBSET Findings, Begin(r, open) PROVE LedgerInv'
    <2>. DEFINE q == req[r]
                kind == Kind(q.mode)
                wanted == IF kind = "triage" THEN Unsent(kind, open) ELSE open
                mine == {f \in wanted : Claimable(kind, f)}
                todo == Buckets(Unsent(kind, mine))
                p == [q EXCEPT !.todo = todo, !.claimed = mine]
                g == Claimed(r, kind, mine)
    <2>1. /\ q \in RequestType /\ q.pc = "asked" /\ GoOn(r, p, book, g)
          /\ UNCHANGED <<jobs, recorded, lost>>
      BY <1>3 DEF IInv, Begin
    <2>2. mine \in SUBSET Findings /\ Unsent(kind, mine) \in SUBSET Findings
      BY DEF Unsent
    <2>3. todo \in SUBSET Groups
      BY <2>2, BucketsType
    <2>4. lost'.charges = lost.charges + Due(q)
      BY <1>0, <2>1 DEF Due, Flying
    <2>. HIDE DEF todo, mine, g
    <2>5. p \in RequestType
      BY <2>1, <2>2, <2>3 DEF RequestType
    <2>. HIDE DEF p
    <2>. QED
      BY <2>1, <2>4, <2>5, GoOnKeepsLedger
  <1>4. ASSUME NEW r \in Requests, WentOn(r) PROVE LedgerInv'
    <2>. DEFINE q == req[r]
                none == [q EXCEPT !.todo = {}]
    <2>1. q \in RequestType /\ RequestOK(q)
      BY DEF IInv
    <2>2. none \in RequestType
      BY <2>1 DEF RequestType
    <2>. HIDE DEF none
    <2>3. ASSUME NEW p \in {q, none}, NEW b, GoOn(r, p, b, guard), UNCHANGED <<jobs, recorded>>,
                 lost'.charges = lost.charges + Due(q)
          PROVE  LedgerInv'
      <3>1. p \in RequestType
        BY <2>1, <2>2
      <3>. QED
        BY <2>3, <3>1, GoOnKeepsLedger
    <2>4. ASSUME q.sent # "published" \/ ~Flying(q), UNCHANGED lost
          PROVE  lost'.charges = lost.charges + Due(q)
      BY <1>0, <2>4 DEF Due
    <2>5. ASSUME NEW b, GoOn(r, q, b, guard), recorded' = RecordedNow(q), UNCHANGED <<jobs, lost>>,
                 Flying(q), q.sent = "published"
          PROVE  LedgerInv'
      <3>1. PICK n \in RequestType : /\ req' = [req EXCEPT ![r] = n]
                                     /\ Due(n) = 0 /\ \A c : DueFor(n, c) = 0
        BY <2>1, <2>5, NothingDue
      <3>. QED
        BY <2>5, <3>1, RecordedIsTold
    <2>6. ASSUME NEW confirmed \in BOOLEAN, Check(r, confirmed) PROVE LedgerInv'
      <3>1. ~Flying(q) /\ UNCHANGED <<jobs, recorded, lost>> /\ \E p \in {q, none} : GoOn(r, p, book, guard)
        BY <2>6 DEF Check, Flying, none
      <3>. QED
        BY <2>3, <2>4, <3>1
    <2>7. ASSUME Settle(r) PROVE LedgerInv'
      <3>. DEFINE b == Record(ReleaseOf(q), Account(q.mode, q.current), Cost(q), q.current)
      <3>1. /\ GoOn(r, q, b, guard) /\ recorded' = RecordedNow(q) /\ UNCHANGED <<jobs, lost>>
            /\ q.pc = "covering"
        BY <2>7 DEF Settle
      <3>2. Flying(q) /\ q.sent = "published"
        BY <2>1, <3>1 DEF Flying, RequestOK
      <3>. HIDE DEF b, q
      <3>. QED
        BY <2>5, <3>1, <3>2
    <2>8. ASSUME SettleAdmin(r) PROVE LedgerInv'
      <3>. DEFINE a == Account(q.mode, q.current)
                  b == Record(Release(Grant(book, a, Raised(q)), a, Cost(q), Scoped(q.mode)), a, Cost(q), q.current)
      <3>1. /\ GoOn(r, q, b, guard) /\ recorded' = RecordedNow(q) /\ UNCHANGED <<jobs, lost>>
            /\ q.pc = "posting" /\ ReadsPublished(q)
        BY <2>8 DEF SettleAdmin
      <3>2. Flying(q) /\ q.sent = "published"
        BY <3>1 DEF Flying, ReadsPublished
      <3>. HIDE DEF b, q
      <3>. QED
        BY <2>5, <3>1, <3>2
    <2>9. ASSUME NotCharged(r) PROVE LedgerInv'
      <3>1. q.sent # "published" /\ UNCHANGED <<jobs, recorded, lost>> /\ GoOn(r, q, ReleaseOf(q), guard)
        BY <2>9 DEF NotCharged
      <3>. HIDE DEF q
      <3>. QED
        BY <2>3, <2>4, <3>1
    <2>10. ASSUME NEW stopped \in BOOLEAN, Fail(r, stopped) PROVE LedgerInv'
      <3>1. /\ q.sent # "published" /\ UNCHANGED <<jobs, recorded, lost>>
            /\ \E p \in {q, none} : GoOn(r, p, ReleaseOf(q), guard)
        BY <2>10 DEF Fail, none
      <3>. HIDE DEF q
      <3>. QED
        BY <2>3, <2>4, <3>1
    <2>11. ASSUME Lose(r), GoOn(r, q, ReleaseOf(q), guard) PROVE LedgerInv'
      <3>1. /\ UNCHANGED <<jobs, recorded>> /\ q.pc = "posting"
            /\ lost' = [answers |-> lost.answers + 1,
                        charges |-> lost.charges + IF q.sent = "published" THEN Cost(q) ELSE 0]
        BY <2>11 DEF Lose
      <3>2. lost'.charges = lost.charges + Due(q)
        BY <3>1 DEF Due, Flying
      <3>. QED
        BY <2>3, <2>11, <3>1, <3>2
    <2>. HIDE DEF q
    <2>. QED
      BY <1>4, <2>6, <2>7, <2>8, <2>9, <2>10, <2>11 DEF WentOn, q
  <1>5. ASSUME NEW r \in Requests, HeardOf(r) PROVE LedgerInv'
    <2>. DEFINE q == req[r]
                retry == [q EXCEPT !.tries = 1]
                again == [retry EXCEPT !.sent = "no"]
                duplicate == [q EXCEPT !.sent = "duplicate"]
                covering == [q EXCEPT !.pc = "covering"]
    <2>1. q \in RequestType /\ q.pc = "posting" /\ r \in DOMAIN req
      BY <1>5 DEF IInv, HeardOf, Accept, Deduplicate, Accepted, Lose
    <2>2. /\ duplicate \in RequestType /\ duplicate.sent = "duplicate"
          /\ retry \in RequestType
          /\ covering \in RequestType /\ covering.pc = "covering" /\ covering.sent = q.sent
          /\ covering.mode = q.mode /\ covering.current = q.current
      BY <2>1 DEF RequestType
    <2>3. again \in RequestType /\ again.sent = "no"
      <3>. HIDE DEF retry
      <3>. QED
        BY <2>2 DEF RequestType
    <2>4. ASSUME Deduplicate(r) PROVE LedgerInv'
      <3>1. req' = [req EXCEPT ![r] = duplicate] /\ UNCHANGED <<jobs, recorded, lost>> /\ q.sent = "no"
        BY <2>1, <2>4 DEF Deduplicate
      <3>. HIDE DEF duplicate
      <3>2. Due(q) = Due(duplicate) /\ \A c : DueFor(q, c) = DueFor(duplicate, c)
        BY <2>2, <3>1 DEF Due, DueFor
      <3>. QED
        BY <2>2, <3>1, <3>2, SameDue
    <2>5. ASSUME Accepted(r) PROVE LedgerInv'
      <3>1. req' = [req EXCEPT ![r] = covering] /\ UNCHANGED <<jobs, recorded, lost>>
        BY <2>1, <2>5 DEF Accepted
      <3>. HIDE DEF covering
      <3>2. Due(q) = Due(covering) /\ \A c : DueFor(q, c) = DueFor(covering, c)
        BY <2>1, <2>2 DEF Due, DueFor, Flying, Cost, Names
      <3>. QED
        BY <2>2, <3>1, <3>2, SameDue
    <2>6. ASSUME Lose(r), req' = [req EXCEPT ![r].tries = 1, ![r].sent = "no"] PROVE LedgerInv'
      <3>1. req' = [req EXCEPT ![r] = again]
        BY <1>0, <2>1, <2>6
      <3>2. /\ UNCHANGED <<jobs, recorded>>
            /\ lost' = [answers |-> lost.answers + 1,
                        charges |-> lost.charges + IF q.sent = "published" THEN Cost(q) ELSE 0]
        BY <2>6 DEF Lose
      <3>. HIDE DEF again
      <3>3. Due(again) = 0 /\ (\A c : DueFor(again, c) = 0) /\ lost'.charges = lost.charges + Due(q)
        BY <2>1, <2>3, <3>2 DEF Due, DueFor, Flying
      <3>. QED
        BY <2>3, <3>1, <3>2, <3>3, TellsNothing
    <2>. QED
      BY <1>5, <2>4, <2>5, <2>6, AcceptKeepsLedger DEF HeardOf
  <1>6. ASSUME NEW a \in Accounts, NEW n \in Amounts, Administer(a, n) PROVE LedgerInv'
    BY <1>1, <1>6 DEF Administer
  <1>7. ASSUME NEW x \in Results(Findings), JobFails(x) PROVE LedgerInv'
    BY <1>1, <1>7 DEF JobFails
  <1>. QED
    BY <1>1, <1>2, <1>3, <1>4, <1>5, <1>6, <1>7, StepShape

(* No result is in the ledger more often than it was charged for. *)
LEMMA RecordedWasCharged ==
  ASSUME IInv, LedgerInv, NEW c \in Charged
  PROVE  recorded[c] \in Nat /\ jobs[c] \in Nat /\ recorded[c] <= jobs[c]
  <1>. DEFINE h == DueForNow(c)
  <1>1. h \in [Requests -> Nat]
    BY DEF DueForNow, DueFor
  <1>2. SumFunction(h) \in Nat
    <2>. HIDE DEF h
    <2>. QED
      BY <1>1, SumNat, SpendAssumption
  <1>3. recorded[c] \in Nat /\ jobs[c] \in Nat /\ recorded[c] + SumFunction(h) <= jobs[c]
    BY DEF LedgerInv
  <1>. HIDE DEF h
  <1>. QED
    BY <1>2, <1>3

(* Nothing is charged or told of at first. *)
LEMMA InitLedger == Init => LedgerInv
  <1>. SUFFICES ASSUME Init PROVE LedgerInv
    OBVIOUS
  <1>1. SumFunction([r \in Requests |-> IF r \in {} THEN 0 ELSE 0]) = 0 * Cardinality({})
    BY SumOver, SpendAssumption
  <1>2. SumFunction([r \in Requests |-> 0]) = 0
    BY <1>1, FS_EmptySet
  <1>3. \A r \in Requests : Due(req[r]) = 0 /\ \A c : DueFor(req[r], c) = 0
    BY DEF Init, Idle, Due, DueFor
  <1>4. DueNow = [r \in Requests |-> 0] /\ \A c : DueForNow(c) = [r \in Requests |-> 0]
    BY <1>3 DEF DueNow, DueForNow
  <1>5. jobs = recorded /\ recorded \in [Charged -> Nat] /\ lost.charges = 0
        /\ \A c \in Charged : recorded[c] = 0
    BY DEF Init
  <1>6. TotalOf(recorded) \in Int
    BY <1>5, TotalType
  <1>. QED
    BY <1>2, <1>4, <1>5, <1>6 DEF LedgerInv

(* The ledger's invariant holds throughout. *)
THEOREM LedgerInductive == Spec => [](IInv /\ LedgerInv)
  BY InitLedger, StepKeepsLedger, Inductive, PTL DEF Spec

(* The ledger counts what Checkmarx One charged for: in credits they       *)
(* differ by what requests in flight were told of and what lost answers    *)
(* told of, and no result is in the ledger more often than it was charged  *)
(* for.                                                                    *)
THEOREM LedgerIsWhatWasCharged == Spec => []LedgerMatchesCharges
  <1>1. IInv /\ LedgerInv => LedgerMatchesCharges
    <2>. SUFFICES ASSUME IInv, LedgerInv PROVE LedgerMatchesCharges
      OBVIOUS
    <2>. DEFINE rs == {r \in InFlight : req[r].sent = "published"}
    <2>1. \A r \in Requests : Due(req[r]) \in Int /\ \A c : DueFor(req[r], c) \in Nat
      BY CostType DEF IInv, Due, DueFor
    <2>2. rs \in SUBSET Requests /\ DueNow \in [Requests -> Int]
      BY <2>1 DEF InFlight, DueNow
    <2>3. /\ \A r \in rs : DueNow[r] = Cost(req[r])
          /\ \A r \in Requests \ rs : DueNow[r] = 0
      BY DEF InFlight, DueNow, Due, Flying
    <2>4. HeldBy(rs) = SumFunction(DueNow)
      <3>. HIDE DEF rs
      <3>. QED
        BY <2>2, <2>3, HeldBySum
    <2>5. TotalOf(jobs) = TotalOf(recorded) + lost.charges + HeldBy(rs)
      BY <2>4 DEF LedgerInv
    <2>6. \A c \in Charged : recorded[c] <= jobs[c]
      BY RecordedWasCharged
    <2>. QED
      BY <2>5, <2>6 DEF LedgerMatchesCharges
  <1>. QED
    BY <1>1, LedgerInductive, PTL

-----------------------------------------------------------------------------
(* The POSTs of a request share no finding, and each is of one project.    *)

OneProject(fs) == \A e, f \in fs : e.project = f.project

ApartOK(q) ==
  /\ q.pc = "asked" /\ q.mode = "relayRemediate" => \E f \in Findings : q.todo = {{f}}
  /\ q.pc = "checking" =>
       q.mode = "relayRemediate" /\ \E f \in Findings : q.claimed = {f} /\ q.todo = {{f}}
  /\ Active(q) =>
       /\ \A g, h \in q.todo : g = h \/ g \cap h = {}
       /\ \A g \in q.todo : OneProject(g)
  /\ Flying(q) =>
       /\ \A g \in q.todo : g \cap q.current = {}
       /\ OneProject(q.current)

ApartInv == \A r \in Requests : ApartOK(req[r])

(* What one request becomes, the others as they were. *)
LEMMA OneKeepsApart ==
  ASSUME req \in [Requests -> RequestType], ApartInv, NEW r \in Requests, NEW q, ApartOK(q),
         req' = [req EXCEPT ![r] = q]
  PROVE  ApartInv'
  <1>1. req'[r] = q /\ \A x \in Requests \ {r} : req'[x] = req[x]
    OBVIOUS
  <1>2. \A x \in Requests : ApartOK(req[x])
    BY DEF ApartInv
  <1>3. \A x \in Requests : ApartOK(req'[x])
    BY <1>1, <1>2
  <1>. QED
    BY <1>3 DEF ApartInv, ApartOK, OneProject, Active, Flying

(* Going on with POSTs that are apart leaves them so. *)
LEMMA GoOnKeepsApart ==
  ASSUME req \in [Requests -> RequestType], NEW r \in Requests, ApartInv,
         NEW q \in RequestType, NEW b, NEW g, GoOn(r, q, b, g),
         \A x, y \in q.todo : x = y \/ x \cap y = {}, \A x \in q.todo : OneProject(x)
  PROVE  ApartInv'
  <1>1. PICK n \in RequestType :
          req' = [req EXCEPT ![r] = n] /\ (Posts(q, n, b, g) \/ Ends(r, n, b, g))
    BY GoOnShape
  <1>2. ApartOK(n)
    <2>1. CASE Posts(q, n, b, g)
      <3>1. /\ n.pc = "posting" /\ n.current \in q.todo /\ n.todo \subseteq q.todo
            /\ n.current \notin n.todo
        BY <2>1 DEF Posts
      <3>. QED
        BY <3>1 DEF ApartOK, Active, Flying
    <2>2. CASE Ends(r, n, b, g)
      BY <2>2 DEF Ends, Idle, ApartOK, Active, Flying
    <2>. QED
      BY <1>1, <2>1, <2>2
  <1>. QED
    BY <1>1, <1>2, OneKeepsApart

(* Every step keeps them apart. *)
LEMMA StepKeepsApart == IInv /\ ApartInv /\ [Next]_vars => ApartInv'
  <1>. SUFFICES ASSUME IInv, ApartInv, [Next]_vars PROVE ApartInv'
    OBVIOUS
  <1>0. req \in [Requests -> RequestType]
    BY DEF IInv
  <1>1. CASE UNCHANGED req
    BY <1>1 DEF ApartInv, ApartOK, OneProject, Active, Flying
  <1>2. ASSUME NEW r \in Requests, NEW mode \in Modes, NEW fs \in SUBSET Findings, Ask(r, mode, fs)
        PROVE  ApartInv'
    <2>. DEFINE q == [Idle EXCEPT !.pc = "asked", !.mode = mode, !.todo = {fs}]
    <2>1. q.pc = "asked" /\ q.mode = mode /\ q.todo = {fs}
      BY DEF Idle
    <2>2. req' = [req EXCEPT ![r] = q] /\ (mode = "relayRemediate" => Cardinality(fs) = 1)
      BY <1>2 DEF Ask
    <2>3. IsFiniteSet(fs)
      BY FS_Subset, SpendAssumption
    <2>4. mode = "relayRemediate" => \E f \in Findings : fs = {f}
      BY <2>2, <2>3, FS_Singleton
    <2>. HIDE DEF q
    <2>5. ApartOK(q)
      BY <2>1, <2>4 DEF ApartOK, Active, Flying
    <2>. QED
      BY <1>0, <2>2, <2>5, OneKeepsApart
  <1>3. ASSUME NEW r \in Requests, NEW open \in SUBSET Findings, Begin(r, open) PROVE ApartInv'
    <2>. DEFINE q == req[r]
                kind == Kind(q.mode)
                wanted == IF kind = "triage" THEN Unsent(kind, open) ELSE open
                mine == {f \in wanted : Claimable(kind, f)}
                fs == Unsent(kind, mine)
                p == [q EXCEPT !.todo = Buckets(fs), !.claimed = mine]
                g == Claimed(r, kind, mine)
    <2>1. q \in RequestType /\ q.pc = "asked" /\ GoOn(r, p, book, g)
      BY <1>3 DEF IInv, Begin
    <2>2. mine \in SUBSET Findings /\ fs \in SUBSET Findings
      BY DEF Unsent
    <2>. HIDE DEF fs, mine, g
    <2>3. /\ Buckets(fs) \in SUBSET Groups
          /\ \A x \in Buckets(fs) : OneProject(x)
          /\ \A x, y \in Buckets(fs) : x = y \/ x \cap y = {}
      BY <2>2, BucketsType, BucketsApart DEF OneProject
    <2>4. p \in RequestType /\ p.todo = Buckets(fs)
      BY <2>1, <2>2, <2>3 DEF RequestType
    <2>. HIDE DEF p
    <2>. QED
      BY <1>0, <2>1, <2>3, <2>4, GoOnKeepsApart
  <1>4. ASSUME NEW r \in Requests, BeginRemediate(r) PROVE ApartInv'
    <2>. DEFINE q == req[r]
                p == [q EXCEPT !.pc = "checking", !.claimed = UNION q.todo]
    <2>1. /\ q \in RequestType /\ q.pc = "asked" /\ q.mode = "relayRemediate"
          /\ req' = [req EXCEPT ![r] = p] \/ req' = [req EXCEPT ![r] = Idle]
      BY <1>4 DEF BeginRemediate, IInv
    <2>2. PICK f \in Findings : q.todo = {{f}}
      BY <2>1 DEF ApartInv, ApartOK
    <2>3. UNION q.todo = {f}
      BY <2>2
    <2>4. p.pc = "checking" /\ p.mode = "relayRemediate" /\ p.claimed = {f} /\ p.todo = {{f}}
      BY <2>1, <2>2, <2>3 DEF RequestType
    <2>. HIDE DEF p
    <2>5. ApartOK(p)
      BY <2>4 DEF ApartOK, Active, Flying, OneProject
    <2>6. ApartOK(Idle)
      BY DEF ApartOK, Idle, Active, Flying
    <2>. QED
      BY <1>0, <2>1, <2>5, <2>6, OneKeepsApart
  <1>5. ASSUME NEW r \in Requests, WentOn(r) PROVE ApartInv'
    <2>1. Active(req[r]) /\ \E q, b : Carries(req[r], q) /\ GoOn(r, q, b, guard)
      BY <1>5, WentOnShape
    <2>2. PICK q, b : Carries(req[r], q) /\ GoOn(r, q, b, guard)
      BY <2>1
    <2>3. /\ q \in RequestType
          /\ \A x, y \in q.todo : x = y \/ x \cap y = {}
          /\ \A x \in q.todo : OneProject(x)
      BY <2>1, <2>2 DEF Carries, ApartInv, ApartOK
    <2>. QED
      BY <1>0, <2>2, <2>3, GoOnKeepsApart
  <1>6. ASSUME NEW r \in Requests, HeardOf(r) PROVE ApartInv'
    <2>1. Flying(req[r]) /\ \E q : SameWork(req[r], q) /\ Flying(q) /\ req' = [req EXCEPT ![r] = q]
      BY <1>6, HeardOfShape
    <2>2. PICK q : SameWork(req[r], q) /\ Flying(q) /\ req' = [req EXCEPT ![r] = q]
      BY <2>1
    <2>3. ApartOK(q)
      BY <2>1, <2>2 DEF SameWork, ApartInv, ApartOK, Active, Flying
    <2>. QED
      BY <1>0, <2>2, <2>3, OneKeepsApart
  <1>7. ASSUME NEW a \in Accounts, NEW n \in Amounts, Administer(a, n) PROVE ApartInv'
    BY <1>1, <1>7 DEF Administer
  <1>8. ASSUME NEW x \in Results(Findings), JobFails(x) PROVE ApartInv'
    BY <1>1, <1>8 DEF JobFails
  <1>. QED
    BY <1>1, <1>2, <1>3, <1>4, <1>5, <1>6, <1>7, <1>8, StepShape

(* At first nobody posts anything. *)
LEMMA InitApart == Init => ApartInv
  BY DEF Init, Idle, ApartInv, ApartOK, Active, Flying

(* And nobody has claimed anything, or nothing would be free. *)
THEOREM ApartInductive == Spec => [](IInv /\ ApartInv)
  BY InitApart, StepKeepsApart, Inductive, PTL DEF Spec

-----------------------------------------------------------------------------
(* A result is recorded once.  What the ledger says of it is in the index  *)
(* that the next request for it reads; what is being sent has not been     *)
(* recorded, or only for jobs that failed.                                 *)

(* The kinds whose index or status is always read before sending. *)
SafeKinds == IF ReadsFail THEN {"triage"} ELSE Kinds

(* With `fails` failed jobs per result, and `rec` entries that name it.    *)
Allowance(fails, k, f) == IF k = "triage" THEN 0 ELSE fails[f.alternateId]
Fresh(rec, fails, k, f) == rec[<<k, f.alternateId>>] <= Allowance(fails, k, f)

Indexed(b, k, f) ==
  IF k = "triage" THEN <<"a", f.alternateId>> \in b.triaged[f.project]
                  ELSE f.riskId \in b.remediated[f.project]

FreshOK(rec, fails, q) ==
  Flying(q) /\ Kind(q.mode) \in SafeKinds =>
    \A f \in Sending(q) : Fresh(rec, fails, Kind(q.mode), f)

RecordedOK(rec, fails, b) ==
  \A k \in SafeKinds, f \in Findings :
    /\ rec[<<k, f.alternateId>>] <= 1 + Allowance(fails, k, f)
    /\ rec[<<k, f.alternateId>>] > 0 => Indexed(b, k, f)

OnceInv ==
  /\ failures \in [Results(Findings) -> Nat]
  /\ ~AllowAgain => /\ RecordedOK(recorded, failures, book)
                    /\ \A r \in Requests : FreshOK(recorded, failures, req[r])

(* Every result has an identity of its own. *)
ResultsDistinct ==
  /\ \A f, g \in Findings : f.alternateId = g.alternateId => f = g
  /\ \A f \in Findings : f.alternateId # ""

SameIndexes(b, c) == c.triaged = b.triaged /\ c.remediated = b.remediated

(* The kinds that are safe are kinds, and what is counted has numbers. *)
LEMMA CountsType ==
  ASSUME LedgerInv, OnceInv, NEW k \in SafeKinds, NEW f \in Findings
  PROVE  /\ k \in Kinds /\ <<k, f.alternateId>> \in Charged /\ f.alternateId \in Results(Findings)
         /\ recorded[<<k, f.alternateId>>] \in Nat
         /\ Allowance(failures, k, f) \in Nat
  BY DEF LedgerInv, OnceInv, SafeKinds, Kinds, Charged, Results, Allowance

(* A reservation indexes nothing. *)
LEMMA GoOnIndexes ==
  ASSUME NEW r \in Requests, NEW q \in RequestType, NEW b \in IntBooks, NEW g, GoOn(r, q, b, g)
  PROVE  SameIndexes(b, book')
  <1>1. PICK n \in RequestType :
          req' = [req EXCEPT ![r] = n] /\ (Posts(q, n, b, g) \/ Ends(r, n, b, g))
    BY GoOnShape
  <1>2. CASE Posts(q, n, b, g)
    <2>. DEFINE a == Account(n.mode, n.current)
                s == Scoped(n.mode)
                c == Reserve(b, a, Cost(n), s)
    <2>1. n.mode \in AllModes /\ n.current \in Groups /\ book' = c
      BY <1>2 DEF Posts, RequestType
    <2>2. a \in Accounts /\ Cost(n) \in Int /\ s \in BOOLEAN
      BY <2>1, AccountType, KindType DEF Cost
    <2>. HIDE DEF a, s
    <2>3. c.triaged = b.triaged /\ c.remediated = b.remediated
      BY <2>2 DEF Reserve, IntBooks
    <2>. QED
      BY <2>1, <2>3 DEF SameIndexes
  <1>3. CASE Ends(r, n, b, g)
    BY <1>3 DEF Ends, SameIndexes
  <1>. QED
    BY <1>1, <1>2, <1>3

(* Going on, a request sends what it had to send. *)
LEMMA GoOnIsFresh ==
  ASSUME req \in [Requests -> RequestType], NEW r \in Requests, NEW q \in RequestType,
         NEW b \in IntBooks, NEW g, GoOn(r, q, b, g), NEW rec, NEW fails,
         \A x \in Requests \ {r} : FreshOK(rec, fails, req[x]),
         Kind(q.mode) \in SafeKinds =>
           \A f \in UNION q.todo : Fresh(rec, fails, Kind(q.mode), f)
  PROVE  \A x \in Requests : FreshOK(rec, fails, req'[x])
  <1>1. PICK n \in RequestType :
          req' = [req EXCEPT ![r] = n] /\ (Posts(q, n, b, g) \/ Ends(r, n, b, g))
    BY GoOnShape
  <1>2. req'[r] = n /\ \A x \in Requests \ {r} : req'[x] = req[x]
    BY <1>1
  <1>3. CASE Posts(q, n, b, g)
    <2>1. /\ n.mode = q.mode /\ n.current \in q.todo /\ n.todo \subseteq q.todo
          /\ n.pc = "posting"
      BY <1>3 DEF Posts, RequestType
    <2>2. Sending(n) \subseteq UNION q.todo
      <3>1. Sending(n) = (UNION n.todo) \cup n.current
        BY <2>1 DEF Sending, Flying
      <3>2. UNION n.todo \subseteq UNION q.todo /\ n.current \subseteq UNION q.todo
        BY <2>1, Zenon
      <3>. QED
        BY <3>1, <3>2
    <2>3. FreshOK(rec, fails, n)
      BY <2>1, <2>2 DEF FreshOK
    <2>. QED
      BY <1>2, <2>3
  <1>4. CASE Ends(r, n, b, g)
    <2>1. ~Flying(n)
      BY <1>4 DEF Ends, Idle, Flying
    <2>2. FreshOK(rec, fails, n)
      BY <2>1 DEF FreshOK
    <2>. QED
      BY <1>2, <2>2
  <1>. QED
    BY <1>1, <1>3, <1>4

(* With the indexes as they were, what is recorded stays so. *)
LEMMA QuietKeepsOnce ==
  ASSUME OnceInv, SameIndexes(book, book'), UNCHANGED <<recorded, failures>>,
         ~AllowAgain => \A x \in Requests : FreshOK(recorded, failures, req'[x])
  PROVE  OnceInv'
  <1>1. \A k \in SafeKinds, f \in Findings : Indexed(book, k, f) => Indexed(book', k, f)
    BY DEF Indexed, SameIndexes
  <1>2. ASSUME ~AllowAgain PROVE RecordedOK(recorded, failures, book')
    <2>1. RecordedOK(recorded, failures, book)
      BY <1>2 DEF OnceInv
    <2>. QED
      BY <1>1, <2>1, Zenon DEF RecordedOK
  <1>. QED
    BY <1>2 DEF OnceInv

(* So it does when a request goes on that records nothing. *)
LEMMA GoOnKeepsOnce ==
  ASSUME IInv, OnceInv, NEW r \in Requests, NEW q \in RequestType,
         NEW b \in IntBooks, SameIndexes(book, b), NEW g, GoOn(r, q, b, g),
         UNCHANGED <<recorded, failures>>,
         ~AllowAgain /\ Kind(q.mode) \in SafeKinds =>
           \A f \in UNION q.todo : Fresh(recorded, failures, Kind(q.mode), f)
  PROVE  OnceInv'
  <1>1. req \in [Requests -> RequestType]
    BY DEF IInv
  <1>2. SameIndexes(b, book')
    BY GoOnIndexes
  <1>3. ASSUME ~AllowAgain PROVE \A x \in Requests : FreshOK(recorded, failures, req'[x])
    <2>1. \A x \in Requests \ {r} : FreshOK(recorded, failures, req[x])
      BY <1>3 DEF OnceInv
    <2>2. Kind(q.mode) \in SafeKinds =>
            \A f \in UNION q.todo : Fresh(recorded, failures, Kind(q.mode), f)
      BY <1>3
    <2>. QED
      BY <1>1, <2>1, <2>2, GoOnIsFresh
  <1>4. SameIndexes(book, book')
    BY <1>2 DEF SameIndexes
  <1>. QED
    BY <1>3, <1>4, QuietKeepsOnce

(* A POST that is settled: nobody else was sending what it names. *)
LEMMA SentByOne ==
  ASSUME IInv, ClaimsInv, ResultsDistinct, NEW r \in Requests, Flying(req[r]),
         NEW x \in Requests \ {r}, Flying(req[x]), Kind(req[x].mode) = Kind(req[r].mode),
         NEW f \in Sending(req[x])
  PROVE  f \notin req[r].current
  <1>. SUFFICES ASSUME f \in req[r].current PROVE FALSE
    OBVIOUS
  <1>. DEFINE k == Kind(req[r].mode)
              key == <<k, f.project, <<"a", f.alternateId>>>>
  <1>1. f \in req[x].claimed /\ f \in req[r].claimed
    BY DEF ClaimsInv, Holds, Active, Sending
  <1>2. f \in Findings /\ <<"a", f.alternateId>> \in Identities(f)
    BY <1>1 DEF IInv, RequestType, ResultsDistinct, Identities
  <1>3. \A fs : f \in fs => key \in ClaimKeys(k, fs)
    BY <1>2 DEF ClaimKeys
  <1>. HIDE DEF key
  <1>4. guard[key] = x /\ guard[key] = r
    BY <1>1, <1>3 DEF ClaimsInv, Holds, Active
  <1>. QED
    BY <1>4

(* What is recorded: its results, once more each, under its own index. *)
LEMMA RecordedMoves ==
  ASSUME IInv, LedgerInv, OnceInv, ResultsDistinct, NEW q \in RequestType,
         recorded' = RecordedNow(q), NEW k \in SafeKinds, NEW f \in Findings
  PROVE  recorded'[<<k, f.alternateId>>]
           = recorded[<<k, f.alternateId>>]
             + IF k = Kind(q.mode) /\ f \in q.current THEN 1 ELSE 0
  <1>1. <<k, f.alternateId>> \in Charged
    BY CountsType
  <1>2. f.alternateId \in Results(q.current) <=> f \in q.current
    BY DEF Results, ResultsDistinct, RequestType
  <1>. QED
    BY <1>1, <1>2 DEF RecordedNow

(* Records are indexed with what they record, under the project they are   *)
(* of, and nothing leaves an index.                                        *)
LEMMA RecordedIsIndexed ==
  ASSUME NEW q \in RequestType, q.current # {}, OneProject(q.current), ResultsDistinct,
         NEW b \in IntBooks, SameIndexes(book, b), book \in IntBooks
  PROVE  LET c == Record(b, Account(q.mode, q.current), Cost(q), q.current)
         IN  /\ \A k \in Kinds, f \in Findings : Indexed(book, k, f) => Indexed(c, k, f)
             /\ \A f \in q.current : Indexed(c, Kind(q.mode), f)
  <1>. DEFINE a == Account(q.mode, q.current)
              c == Record(b, a, Cost(q), q.current)
              p == ProjectOf(q.current)
              k0 == Kind(q.mode)
  <1>1. q.current \in Groups /\ q.mode \in AllModes
    BY DEF RequestType, Groups
  <1>2. a \in Accounts /\ Cost(q) \in Nat /\ k0 \in Kinds /\ a = <<p, k0>>
    BY <1>1, AccountType, KindType DEF Cost, Account
  <1>3. p \in Projects /\ \A f \in q.current : f.project = p
    <2>1. (CHOOSE f \in q.current : TRUE) \in q.current
      OBVIOUS
    <2>. QED
      BY <1>2, <2>1 DEF ProjectOf, OneProject, Accounts
  <1>4. q.current \subseteq Findings
    BY <1>1 DEF Groups
  <1>. HIDE DEF a
  <1>5. /\ c.triaged = IF a[2] = "triage"
             THEN [b.triaged EXCEPT ![a[1]] = @ \cup UNION {Identities(f) : f \in q.current}]
             ELSE b.triaged
        /\ c.remediated = IF a[2] = "triage" THEN b.remediated
             ELSE [b.remediated EXCEPT ![a[1]] = @ \cup RiskIds(q.current)]
    BY <1>2, <1>4 DEF Record, IntBooks
  <1>. HIDE DEF c, p, k0
  <1>6. a[1] = p /\ a[2] = k0
    BY <1>2
  <1>7. b.triaged = book.triaged /\ b.remediated = book.remediated
        /\ DOMAIN b.triaged = Projects /\ DOMAIN b.remediated = Projects
    BY DEF SameIndexes, IntBooks
  <1>8. /\ \A f \in Findings : f.project \in Projects
        /\ \A f \in Findings : <<"a", f.alternateId>> \in Identities(f)
    BY SpendAssumption DEF ResultsDistinct, Identities
  <1>9. CASE k0 = "triage"
    <2>1. /\ c.remediated = book.remediated
          /\ \A s \in Projects : book.triaged[s] \subseteq c.triaged[s]
          /\ \A f \in q.current : Identities(f) \subseteq c.triaged[p]
      BY <1>3, <1>5, <1>6, <1>7, <1>9
    <2>. QED
      BY <1>3, <1>4, <1>8, <1>9, <2>1 DEF Indexed, c, k0, a
  <1>10. CASE k0 # "triage"
    <2>1. /\ c.triaged = book.triaged
          /\ \A s \in Projects : book.remediated[s] \subseteq c.remediated[s]
          /\ \A f \in q.current : f.riskId \in c.remediated[p]
      BY <1>3, <1>5, <1>6, <1>7, <1>10 DEF RiskIds
    <2>. QED
      BY <1>3, <1>4, <1>8, <1>10, <2>1 DEF Indexed, c, k0, a
  <1>. QED
    BY <1>9, <1>10

(* A settled POST is recorded once, or once more for each job that failed. *)
LEMMA SettledIsRecordedOnce ==
  ASSUME IInv, LedgerInv, ClaimsInv, ApartInv, OnceInv, ResultsDistinct,
         NEW r \in Requests, Flying(req[r]),
         NEW b \in IntBooks, SameIndexes(book, b),
         GoOn(r, req[r], Record(b, Account(req[r].mode, req[r].current), Cost(req[r]), req[r].current),
              guard),
         recorded' = RecordedNow(req[r]), UNCHANGED failures
  PROVE  OnceInv'
  <1>. DEFINE q == req[r]
              k0 == Kind(q.mode)
              c == Record(b, Account(q.mode, q.current), Cost(q), q.current)
  <1>1. /\ req \in [Requests -> RequestType] /\ book \in IntBooks
        /\ q \in RequestType /\ q.current # {} /\ q.current \subseteq Findings
    BY DEF IInv, RequestOK, Flying, RequestType
  <1>2. OneProject(q.current) /\ \A g \in q.todo : g \cap q.current = {}
    BY DEF ApartInv, ApartOK
  <1>3. k0 \in Kinds /\ Account(q.mode, q.current) \in Accounts /\ Cost(q) \in Nat
    BY <1>1, KindType, AccountType DEF RequestType, Groups, Cost
  <1>4. c \in IntBooks
    BY <1>1, <1>3, RecordType
  <1>5. /\ \A k \in Kinds, f \in Findings : Indexed(book, k, f) => Indexed(c, k, f)
        /\ \A f \in q.current : Indexed(c, k0, f)
    BY <1>1, <1>2, RecordedIsIndexed
  <1>. HIDE DEF c
  <1>6. GoOn(r, q, c, guard)
    BY DEF c
  <1>7. SameIndexes(c, book')
    BY <1>1, <1>4, <1>6, GoOnIndexes
  <1>8. \A k \in Kinds, f \in Findings : Indexed(c, k, f) => Indexed(book', k, f)
    BY <1>7 DEF Indexed, SameIndexes
  <1>9. SafeKinds \subseteq Kinds
    BY DEF SafeKinds, Kinds
  <1>10. \A k \in SafeKinds, f \in Findings :
           recorded'[<<k, f.alternateId>>]
             = recorded[<<k, f.alternateId>>] + IF k = k0 /\ f \in q.current THEN 1 ELSE 0
    BY <1>1, RecordedMoves
  <1>11. failures' \in [Results(Findings) -> Nat]
    BY DEF OnceInv
  <1>. HIDE DEF k0, q
  <1>12. ASSUME ~AllowAgain
         PROVE  /\ RecordedOK(recorded', failures', book')
                /\ \A x \in Requests : FreshOK(recorded', failures', req'[x])
    <2>1. RecordedOK(recorded, failures, book) /\ \A x \in Requests : FreshOK(recorded, failures, req[x])
      BY <1>12 DEF OnceInv
    <2>2. ASSUME k0 \in SafeKinds, NEW f \in Sending(q) PROVE Fresh(recorded, failures, k0, f)
      BY <2>1, <2>2 DEF FreshOK, k0, q
    <2>3. RecordedOK(recorded', failures', book')
      <3>. SUFFICES ASSUME NEW k \in SafeKinds, NEW f \in Findings
                    PROVE  /\ recorded'[<<k, f.alternateId>>] <= 1 + Allowance(failures, k, f)
                           /\ recorded'[<<k, f.alternateId>>] > 0 => Indexed(book', k, f)
        BY DEF RecordedOK
      <3>. DEFINE n == recorded[<<k, f.alternateId>>]
                  m == recorded'[<<k, f.alternateId>>]
                  allowed == Allowance(failures, k, f)
      <3>1. n \in Nat /\ allowed \in Nat
        BY CountsType
      <3>2. n <= 1 + allowed /\ (n > 0 => Indexed(book, k, f))
        BY <2>1 DEF RecordedOK
      <3>3. m = n + IF k = k0 /\ f \in q.current THEN 1 ELSE 0
        BY <1>10
      <3>. HIDE DEF n, m, allowed
      <3>4. CASE k = k0 /\ f \in q.current
        <4>1. f \in Sending(q)
          BY <3>4 DEF Sending, q
        <4>2. n <= allowed
          BY <2>2, <3>4, <4>1 DEF Fresh, n, allowed
        <4>3. m <= 1 + allowed
          BY <3>1, <3>3, <3>4, <4>2
        <4>4. Indexed(book', k, f)
          BY <1>5, <1>8, <1>9, <3>4
        <4>. QED
          BY <4>3, <4>4 DEF m, allowed
      <3>5. CASE ~(k = k0 /\ f \in q.current)
        <4>1. m = n
          BY <3>1, <3>3, <3>5
        <4>2. m <= 1 + allowed
          BY <3>2, <4>1
        <4>3. m > 0 => Indexed(book', k, f)
          BY <1>5, <1>8, <1>9, <3>2, <4>1
        <4>. QED
          BY <4>2, <4>3 DEF m, allowed
      <3>. QED
        BY <3>4, <3>5
    <2>4. ASSUME NEW k \in SafeKinds, NEW f \in Findings, Fresh(recorded, failures, k, f),
                 ~(k = k0 /\ f \in q.current)
          PROVE  Fresh(recorded', failures', k, f)
      <3>1. recorded[<<k, f.alternateId>>] \in Nat
        BY CountsType
      <3>2. recorded'[<<k, f.alternateId>>] = recorded[<<k, f.alternateId>>]
        BY <1>10, <2>4, <3>1
      <3>. QED
        BY <2>4, <3>2 DEF Fresh
    <2>5. ASSUME NEW x \in Requests \ {r} PROVE FreshOK(recorded', failures', req[x])
      <3>. SUFFICES ASSUME Flying(req[x]), Kind(req[x].mode) \in SafeKinds, NEW f \in Sending(req[x])
                    PROVE  Fresh(recorded', failures', Kind(req[x].mode), f)
        BY DEF FreshOK
      <3>1. f \in Findings /\ Fresh(recorded, failures, Kind(req[x].mode), f)
        <4>1. req[x] \in RequestType
          BY <1>1
        <4>2. f \in Findings
          BY <4>1 DEF RequestType, Groups, Sending
        <4>. QED
          BY <2>1, <4>2 DEF FreshOK
      <3>2. ~(Kind(req[x].mode) = k0 /\ f \in q.current)
        BY SentByOne DEF k0, q
      <3>. QED
        BY <2>4, <3>1, <3>2
    <2>6. ASSUME k0 \in SafeKinds, NEW f \in UNION q.todo PROVE Fresh(recorded', failures', k0, f)
      <3>1. f \in Sending(q) /\ f \in Findings
        BY <1>1 DEF Sending, RequestType, Groups
      <3>2. f \notin q.current
        BY <1>2, <2>6
      <3>. QED
        BY <2>2, <2>4, <2>6, <3>1, <3>2
    <2>. QED
      BY <1>1, <1>4, <1>6, <2>3, <2>5, <2>6, GoOnIsFresh DEF k0
  <1>. QED
    BY <1>11, <1>12 DEF OnceInv

(* What is begun was not sent before: the ledger's index says so. *)
LEMMA BeginKeepsOnce ==
  ASSUME IInv, LedgerInv, OnceInv, ResultsDistinct,
         NEW r \in Requests, NEW open \in SUBSET Findings, Begin(r, open)
  PROVE  OnceInv'
  <1>. DEFINE q == req[r]
              kind == Kind(q.mode)
              wanted == IF kind = "triage" THEN Unsent(kind, open) ELSE open
              mine == {f \in wanted : Claimable(kind, f)}
              fs == Unsent(kind, mine)
              p == [q EXCEPT !.todo = Buckets(fs), !.claimed = mine]
              g == Claimed(r, kind, mine)
  <1>1. /\ q \in RequestType /\ book \in IntBooks /\ GoOn(r, p, book, g)
        /\ UNCHANGED <<recorded, failures>>
    BY DEF IInv, Begin
  <1>2. mine \in SUBSET Findings /\ fs \in SUBSET Findings
    BY DEF Unsent
  <1>3. ASSUME ~AllowAgain, kind \in SafeKinds, NEW f \in fs PROVE Fresh(recorded, failures, kind, f)
    <2>1. f \in Findings /\ recorded[<<kind, f.alternateId>>] \in Nat /\ Allowance(failures, kind, f) \in Nat
      BY <1>2, <1>3, CountsType
    <2>2. ~Indexed(book, kind, f)
      <3>1. CASE kind = "triage"
        <4>1. ~AlreadySent(book, f)
          BY <1>3, <3>1 DEF Unsent
        <4>2. <<"a", f.alternateId>> \in Identities(f)
          BY <2>1 DEF Identities, ResultsDistinct
        <4>. QED
          BY <3>1, <4>1, <4>2 DEF Indexed, AlreadySent
      <3>2. CASE kind # "triage"
        BY <1>3, <3>2 DEF Unsent, Indexed
      <3>. QED
        BY <3>1, <3>2
    <2>3. recorded[<<kind, f.alternateId>>] > 0 => Indexed(book, kind, f)
      BY <1>3, <2>1 DEF OnceInv, RecordedOK
    <2>. QED
      BY <2>1, <2>2, <2>3 DEF Fresh
  <1>. HIDE DEF fs, mine, g
  <1>4. Buckets(fs) \in SUBSET Groups /\ UNION Buckets(fs) \subseteq fs
    <2>1. Buckets(fs) \subseteq Groups /\ \A x \in Buckets(fs) : x \subseteq fs
      BY <1>2, BucketsType, BucketsApart
    <2>. QED
      BY <2>1
  <1>5. p \in RequestType /\ p.todo = Buckets(fs) /\ p.mode = q.mode
    BY <1>1, <1>2, <1>4 DEF RequestType
  <1>. HIDE DEF p, q
  <1>6. ~AllowAgain /\ Kind(p.mode) \in SafeKinds =>
          \A f \in UNION p.todo : Fresh(recorded, failures, Kind(p.mode), f)
    BY <1>3, <1>4, <1>5
  <1>7. SameIndexes(book, book)
    BY DEF SameIndexes
  <1>. QED
    BY <1>1, <1>5, <1>6, <1>7, GoOnKeepsOnce

(* A relay's remediation is sent when the last job failed, or none is      *)
(* known of.                                                               *)
LEMMA CheckKeepsOnce ==
  ASSUME IInv, LedgerInv, ApartInv, OnceInv, ResultsDistinct,
         NEW r \in Requests, NEW confirmed \in BOOLEAN, Check(r, confirmed)
  PROVE  OnceInv'
  <1>. DEFINE q == req[r]
              none == [q EXCEPT !.todo = {}]
  <1>1. /\ q \in RequestType /\ book \in IntBooks /\ q.pc = "checking"
        /\ UNCHANGED <<recorded, failures>>
    BY DEF IInv, Check
  <1>2. PICK f \in q.claimed : \E status \in Statuses(f) :
           GoOn(r, IF confirmed /\ status # "running" /\ (status = "done" => AllowAgain)
                     THEN q ELSE none, book, guard)
    BY DEF Check
  <1>3. PICK status \in Statuses(f) :
           GoOn(r, IF confirmed /\ status # "running" /\ (status = "done" => AllowAgain)
                     THEN q ELSE none, book, guard)
    BY <1>2
  <1>4. q.mode = "relayRemediate" /\ q.claimed = {f} /\ q.todo = {{f}} /\ f \in Findings
    BY <1>1, <1>2 DEF ApartInv, ApartOK, RequestType
  <1>5. Kind(q.mode) = "remediation"
    BY <1>4 DEF Kind
  <1>6. none \in RequestType /\ none.todo = {} /\ none.mode = q.mode
    BY <1>1 DEF RequestType
  <1>7. SameIndexes(book, book)
    BY DEF SameIndexes
  <1>. DEFINE c == <<"remediation", f.alternateId>>
              sends == confirmed /\ status # "running" /\ (status = "done" => AllowAgain)
  <1>8. ASSUME ~AllowAgain, "remediation" \in SafeKinds, sends
        PROVE  Fresh(recorded, failures, "remediation", f)
    <2>1. /\ c \in Charged /\ recorded[c] \in Nat /\ failures[f.alternateId] \in Nat
          /\ Allowance(failures, "remediation", f) = failures[f.alternateId]
      <3>1. f.alternateId \in Results(Findings)
        BY <1>4, <1>8, CountsType
      <3>. QED
        BY <1>4, <1>8, <3>1, CountsType DEF OnceInv, Allowance
    <2>2. jobs[c] \in Nat /\ recorded[c] <= jobs[c]
      BY <2>1, RecordedWasCharged
    <2>3. ~ReadsFail /\ status \notin {"running", "done"}
      BY <1>8, <1>3 DEF SafeKinds
    <2>4. \/ jobs[c] <= failures[f.alternateId]
          \/ f.riskId \notin book.remediated[f.project]
      BY <2>1, <2>2, <2>3 DEF Statuses
    <2>5. recorded[c] > 0 => f.riskId \in book.remediated[f.project]
      BY <1>4, <1>8 DEF OnceInv, RecordedOK, Indexed
    <2>6. recorded[c] <= failures[f.alternateId]
      BY <2>1, <2>2, <2>4, <2>5
    <2>. QED
      BY <2>1, <2>6 DEF Fresh
  <1>. HIDE DEF none, q
  <1>9. CASE sends
    <2>1. GoOn(r, q, book, guard)
      BY <1>3, <1>9
    <2>2. ~AllowAgain /\ Kind(q.mode) \in SafeKinds =>
            \A e \in UNION q.todo : Fresh(recorded, failures, Kind(q.mode), e)
      BY <1>4, <1>5, <1>8, <1>9
    <2>. QED
      BY <1>1, <1>7, <2>1, <2>2, GoOnKeepsOnce
  <1>10. CASE ~sends
    <2>1. GoOn(r, none, book, guard)
      BY <1>3, <1>10
    <2>2. \A e \in UNION none.todo : Fresh(recorded, failures, Kind(none.mode), e)
      BY <1>6
    <2>. QED
      BY <1>1, <1>6, <1>7, <2>1, <2>2, GoOnKeepsOnce
  <1>. QED
    BY <1>9, <1>10

(* However a request goes on, the next for a result knows of it. *)
LEMMA WentOnKeepsOnce ==
  ASSUME IInv, LedgerInv, ClaimsInv, ApartInv, OnceInv, ResultsDistinct,
         NEW r \in Requests, WentOn(r)
  PROVE  OnceInv'
  <1>. DEFINE q == req[r]
              none == [q EXCEPT !.todo = {}]
              a == Account(q.mode, q.current)
  <1>1. q \in RequestType /\ RequestOK(q) /\ book \in IntBooks
    BY DEF IInv
  <1>2. none \in RequestType /\ none.todo = {}
    BY <1>1 DEF RequestType
  <1>3. Flying(q) => a \in Accounts /\ Cost(q) \in Nat /\ Scoped(q.mode) \in BOOLEAN
    BY InFlightType DEF Flying
  <1>. HIDE DEF none, a
  <1>4. ASSUME NEW b \in IntBooks, Flying(q)
        PROVE  /\ Release(b, a, Cost(q), Scoped(q.mode)) \in IntBooks
               /\ SameIndexes(b, Release(b, a, Cost(q), Scoped(q.mode)))
    <2>. DEFINE n == Cost(q)
                s == Scoped(q.mode)
    <2>1. a \in Accounts /\ n \in Nat /\ s \in BOOLEAN
      BY <1>3, <1>4
    <2>. HIDE DEF n, s
    <2>2. Release(b, a, n, s) \in IntBooks
      BY <2>1, ReleaseType
    <2>3. SameIndexes(b, Release(b, a, n, s))
      BY <2>1 DEF Release, IntBooks, SameIndexes
    <2>. QED
      BY <2>2, <2>3 DEF n, s
  <1>5. Flying(q) => ReleaseOf(q) \in IntBooks /\ SameIndexes(book, ReleaseOf(q))
    BY <1>1, <1>4 DEF ReleaseOf, a
  <1>6. ASSUME NEW p \in {q, none}, NEW b \in IntBooks, SameIndexes(book, b), GoOn(r, p, b, guard),
               UNCHANGED <<recorded, failures>>, Flying(q)
        PROVE  OnceInv'
    <2>1. ~AllowAgain /\ Kind(p.mode) \in SafeKinds =>
            \A f \in UNION p.todo : Fresh(recorded, failures, Kind(p.mode), f)
      <3>1. CASE p = q
        <4>1. UNION q.todo \subseteq Sending(q)
          BY DEF Sending
        <4>2. ~AllowAgain => FreshOK(recorded, failures, q)
          BY DEF OnceInv
        <4>. HIDE DEF q
        <4>. QED
          BY <1>6, <3>1, <4>1, <4>2 DEF FreshOK
      <3>2. CASE p = none
        BY <1>2, <3>2
      <3>. QED
        BY <3>1, <3>2
    <2>2. p \in RequestType
      BY <1>1, <1>2
    <2>. QED
      BY <1>6, <2>1, <2>2, GoOnKeepsOnce
  <1>7. ASSUME NEW b \in IntBooks, SameIndexes(book, b), Flying(q),
               GoOn(r, q, Record(b, a, Cost(q), q.current), guard),
               recorded' = RecordedNow(q), UNCHANGED failures
        PROVE  OnceInv'
    BY <1>7, SettledIsRecordedOnce DEF a
  <1>8. ASSUME Settle(r) PROVE OnceInv'
    <2>1. /\ Flying(q) /\ GoOn(r, q, Record(ReleaseOf(q), a, Cost(q), q.current), guard)
          /\ recorded' = RecordedNow(q) /\ UNCHANGED failures
      BY <1>8 DEF Settle, Flying, a
    <2>. HIDE DEF q
    <2>. QED
      BY <1>5, <1>7, <2>1
  <1>9. ASSUME SettleAdmin(r) PROVE OnceInv'
    <2>. DEFINE granted == Grant(book, a, Raised(q))
                b == Release(granted, a, Cost(q), Scoped(q.mode))
    <2>1. /\ Flying(q) /\ GoOn(r, q, Record(b, a, Cost(q), q.current), guard)
          /\ recorded' = RecordedNow(q) /\ UNCHANGED failures
      BY <1>9 DEF SettleAdmin, Flying, a
    <2>2. granted \in IntBooks
      BY <2>1, RaisedCovers DEF a
    <2>3. SameIndexes(book, granted)
      <3>. DEFINE n == Raised(q)
      <3>. HIDE DEF n
      <3>. QED
        BY <1>1, <1>3, <2>1 DEF Grant, IntBooks, SameIndexes, n
    <2>. HIDE DEF granted
    <2>4. b \in IntBooks /\ SameIndexes(granted, b)
      BY <1>4, <2>1, <2>2
    <2>5. SameIndexes(book, b)
      BY <2>3, <2>4 DEF SameIndexes
    <2>. HIDE DEF b, q
    <2>. QED
      BY <1>7, <2>1, <2>4, <2>5
  <1>10. ASSUME \E p \in {q, none} : GoOn(r, p, ReleaseOf(q), guard), Flying(q),
                UNCHANGED <<recorded, failures>>
         PROVE  OnceInv'
    BY <1>5, <1>6, <1>10
  <1>11. ASSUME NotCharged(r) PROVE OnceInv'
    <2>1. Flying(q) /\ GoOn(r, q, ReleaseOf(q), guard) /\ UNCHANGED <<recorded, failures>>
      BY <1>11 DEF NotCharged, Flying
    <2>. HIDE DEF q
    <2>. QED
      BY <1>10, <2>1
  <1>12. ASSUME NEW stopped \in BOOLEAN, Fail(r, stopped) PROVE OnceInv'
    <2>1. /\ Flying(q) /\ UNCHANGED <<recorded, failures>>
          /\ \E p \in {q, none} : GoOn(r, p, ReleaseOf(q), guard)
      BY <1>12 DEF Fail, Flying, none
    <2>. HIDE DEF q
    <2>. QED
      BY <1>10, <2>1
  <1>13. ASSUME Lose(r), GoOn(r, q, ReleaseOf(q), guard) PROVE OnceInv'
    <2>1. Flying(q) /\ UNCHANGED <<recorded, failures>>
      BY <1>13 DEF Lose, Flying
    <2>. HIDE DEF q
    <2>. QED
      BY <1>10, <1>13, <2>1
  <1>14. ASSUME NEW confirmed \in BOOLEAN, Check(r, confirmed) PROVE OnceInv'
    BY <1>14, CheckKeepsOnce
  <1>. QED
    BY <1>8, <1>9, <1>11, <1>12, <1>13, <1>14 DEF WentOn

(* Every step keeps results from being recorded twice. *)
LEMMA StepKeepsOnce ==
  ASSUME ResultsDistinct
  PROVE  IInv /\ LedgerInv /\ ClaimsInv /\ ApartInv /\ OnceInv /\ [Next]_vars => OnceInv'
  <1>. SUFFICES ASSUME IInv, LedgerInv, ClaimsInv, ApartInv, OnceInv, [Next]_vars PROVE OnceInv'
    OBVIOUS
  <1>0. req \in [Requests -> RequestType] /\ book \in IntBooks
    BY DEF IInv
  <1>1. ASSUME NEW r \in Requests, NEW q, ~Flying(q), req' = [req EXCEPT ![r] = q],
               UNCHANGED <<book, recorded, failures>>
        PROVE  OnceInv'
    <2>1. req'[r] = q /\ \A x \in Requests \ {r} : req'[x] = req[x]
      BY <1>0, <1>1
    <2>2. FreshOK(recorded, failures, q)
      BY <1>1 DEF FreshOK
    <2>3. ~AllowAgain => \A x \in Requests : FreshOK(recorded, failures, req'[x])
      BY <2>1, <2>2 DEF OnceInv
    <2>. QED
      BY <1>1, <2>3, QuietKeepsOnce DEF SameIndexes
  <1>2. ASSUME UNCHANGED <<req, recorded, failures>>, SameIndexes(book, book') PROVE OnceInv'
    BY <1>2, QuietKeepsOnce DEF OnceInv
  <1>3. ASSUME NEW r \in Requests, NEW mode \in Modes, NEW fs \in SUBSET Findings, Ask(r, mode, fs)
        PROVE  OnceInv'
    <2>. DEFINE q == [Idle EXCEPT !.pc = "asked", !.mode = mode, !.todo = {fs}]
    <2>1. ~Flying(q)
      BY DEF Idle, Flying
    <2>2. req' = [req EXCEPT ![r] = q] /\ UNCHANGED <<book, recorded, failures>>
      BY <1>3 DEF Ask
    <2>. HIDE DEF q
    <2>. QED
      BY <1>1, <2>1, <2>2
  <1>4. ASSUME NEW r \in Requests, BeginRemediate(r) PROVE OnceInv'
    <2>. DEFINE q == req[r]
                p == [q EXCEPT !.pc = "checking", !.claimed = UNION q.todo]
    <2>1. /\ req' = [req EXCEPT ![r] = p] \/ req' = [req EXCEPT ![r] = Idle]
          /\ UNCHANGED <<book, recorded, failures>> /\ q \in RequestType
      BY <1>0, <1>4 DEF BeginRemediate
    <2>2. ~Flying(p) /\ ~Flying(Idle)
      BY <2>1 DEF Idle, Flying, RequestType
    <2>. HIDE DEF p
    <2>. QED
      BY <1>1, <2>1, <2>2
  <1>5. ASSUME NEW r \in Requests, HeardOf(r) PROVE OnceInv'
    <2>1. /\ Flying(req[r]) /\ book' = book
          /\ \E q : SameWork(req[r], q) /\ Flying(q) /\ req' = [req EXCEPT ![r] = q]
      BY <1>5, HeardOfShape
    <2>2. PICK q : SameWork(req[r], q) /\ Flying(q) /\ req' = [req EXCEPT ![r] = q]
      BY <2>1
    <2>3. UNCHANGED <<recorded, failures>>
      BY <1>5 DEF HeardOf, Accept, Deduplicate, Accepted, Lose
    <2>4. FreshOK(recorded, failures, req[r]) => FreshOK(recorded, failures, q)
      BY <2>1, <2>2 DEF FreshOK, SameWork, Sending
    <2>5. req'[r] = q /\ \A x \in Requests \ {r} : req'[x] = req[x]
      BY <1>0, <2>2
    <2>6. ~AllowAgain => \A x \in Requests : FreshOK(recorded, failures, req'[x])
      BY <2>4, <2>5 DEF OnceInv
    <2>. QED
      BY <2>1, <2>3, <2>6, QuietKeepsOnce DEF SameIndexes
  <1>6. ASSUME NEW a \in Accounts, NEW n \in Amounts, Administer(a, n) PROVE OnceInv'
    <2>1. SameIndexes(book, book')
      BY <1>0, <1>6 DEF Administer, Add, Grant, ClearExtras, ReclaimUnused, SameIndexes, IntBooks
    <2>. QED
      BY <1>2, <1>6, <2>1 DEF Administer
  <1>7. CASE NewMonth
    <2>1. SameIndexes(book, book')
      BY <1>0, <1>7 DEF NewMonth, SameIndexes, IntBooks
    <2>. QED
      BY <1>2, <1>7, <2>1 DEF NewMonth
  <1>8. ASSUME NEW y \in Results(Findings), JobFails(y) PROVE OnceInv'
    <2>1. /\ UNCHANGED <<book, req, recorded>>
          /\ failures' = [failures EXCEPT ![y] = @ + 1] /\ failures[y] \in Nat
      BY <1>8 DEF JobFails, OnceInv
    <2>2. failures' \in [Results(Findings) -> Nat]
      BY <2>1 DEF OnceInv
    <2>3. ASSUME NEW k \in SafeKinds, NEW f \in Findings
          PROVE  /\ Allowance(failures, k, f) <= Allowance(failures', k, f)
                 /\ {Allowance(failures, k, f), Allowance(failures', k, f)} \subseteq Nat
                 /\ recorded[<<k, f.alternateId>>] \in Nat
      <3>1. f.alternateId \in Results(Findings) /\ recorded[<<k, f.alternateId>>] \in Nat
        BY CountsType
      <3>. QED
        BY <2>1, <2>2, <3>1 DEF Allowance, OnceInv
    <2>4. ~AllowAgain => RecordedOK(recorded', failures', book')
      <3>. SUFFICES ASSUME ~AllowAgain, NEW k \in SafeKinds, NEW f \in Findings
                    PROVE  /\ recorded[<<k, f.alternateId>>] <= 1 + Allowance(failures', k, f)
                           /\ recorded[<<k, f.alternateId>>] > 0 => Indexed(book, k, f)
        BY <2>1 DEF RecordedOK
      <3>1. /\ recorded[<<k, f.alternateId>>] <= 1 + Allowance(failures, k, f)
            /\ recorded[<<k, f.alternateId>>] > 0 => Indexed(book, k, f)
        BY DEF OnceInv, RecordedOK
      <3>. QED
        BY <2>3, <3>1
    <2>5. ~AllowAgain => \A x \in Requests : FreshOK(recorded', failures', req'[x])
      <3>. SUFFICES ASSUME ~AllowAgain, NEW x \in Requests, Flying(req[x]),
                           Kind(req[x].mode) \in SafeKinds, NEW f \in Sending(req[x])
                    PROVE  Fresh(recorded, failures', Kind(req[x].mode), f)
        BY <2>1 DEF FreshOK
      <3>1. req[x] \in RequestType
        BY <1>0
      <3>2. f \in Findings
        BY <3>1 DEF RequestType, Groups, Sending
      <3>3. Fresh(recorded, failures, Kind(req[x].mode), f)
        BY DEF OnceInv, FreshOK
      <3>. QED
        BY <2>3, <3>2, <3>3 DEF Fresh
    <2>. QED
      BY <2>2, <2>4, <2>5 DEF OnceInv
  <1>9. ASSUME NEW r \in Requests, NEW open \in SUBSET Findings, Begin(r, open) PROVE OnceInv'
    BY <1>9, BeginKeepsOnce
  <1>10. ASSUME NEW r \in Requests, WentOn(r) PROVE OnceInv'
    BY <1>10, WentOnKeepsOnce
  <1>11. CASE UNCHANGED <<req, guard, jobs, recorded, lost>> /\ (book' = book \/ NewMonth)
                /\ UNCHANGED failures
    BY <1>2, <1>7, <1>11 DEF SameIndexes
  <1>. QED
    BY <1>3, <1>4, <1>5, <1>6, <1>8, <1>9, <1>10, <1>11, StepShape

(* Nothing is recorded at first, and nobody sends. *)
LEMMA InitOnce == Init => LedgerInv /\ ClaimsInv /\ ApartInv /\ OnceInv
  <1>. SUFFICES ASSUME Init PROVE OnceInv
    BY InitLedger, InitClaims, InitApart
  <1>1. failures \in [Results(Findings) -> Nat] /\ \A x \in Results(Findings) : failures[x] = 0
    BY DEF Init
  <1>2. \A r \in Requests : ~Flying(req[r])
    BY DEF Init, Idle, Flying
  <1>3. ASSUME NEW k \in SafeKinds, NEW f \in Findings
        PROVE  recorded[<<k, f.alternateId>>] = 0 /\ Allowance(failures, k, f) = 0
    BY <1>1 DEF Init, SafeKinds, Kinds, Charged, Results, Allowance
  <1>4. RecordedOK(recorded, failures, book)
    <2>. SUFFICES ASSUME NEW k \in SafeKinds, NEW f \in Findings
                  PROVE  /\ recorded[<<k, f.alternateId>>] <= 1 + Allowance(failures, k, f)
                         /\ recorded[<<k, f.alternateId>>] > 0 => Indexed(book, k, f)
      BY DEF RecordedOK
    <2>. QED
      BY <1>3
  <1>. QED
    BY <1>1, <1>2, <1>4 DEF OnceInv, FreshOK

(* Ledger, claims and indexes together keep results from being recorded    *)
(* twice.                                                                  *)
THEOREM OnceInductive ==
  ASSUME ResultsDistinct
  PROVE  Spec => [](IInv /\ LedgerInv /\ OnceInv)
  <1>1. IInv /\ LedgerInv /\ ClaimsInv /\ ApartInv /\ OnceInv /\ [Next]_vars => OnceInv'
    BY StepKeepsOnce
  <1>. QED
    BY <1>1, InitOnce, LedgerInductive, ClaimsInductive, ApartInductive, PTL DEF Spec

(* While triaging again is off no result is recorded as triaged twice,     *)
(* whoever asks for it and through how many identities, if every result    *)
(* has an identity of its own.                                             *)
THEOREM NoResultTriagedTwice ==
  ASSUME ResultsDistinct
  PROVE  Spec => []TriagedOnce
  <1>1. LedgerInv /\ OnceInv => TriagedOnce
    <2>. SUFFICES ASSUME LedgerInv, OnceInv, ~AllowAgain, NEW f \in Findings
                  PROVE  recorded[<<"triage", f.alternateId>>] <= 1
      BY DEF TriagedOnce, Results
    <2>1. "triage" \in SafeKinds
      BY DEF SafeKinds, Kinds
    <2>2. recorded[<<"triage", f.alternateId>>] <= 1 + Allowance(failures, "triage", f)
      BY <2>1 DEF OnceInv, RecordedOK
    <2>. QED
      BY <2>2 DEF Allowance
  <1>. QED
    BY <1>1, OnceInductive, PTL

(* Nor is one remediated again but for a job that failed, as long as what  *)
(* Checkmarx One says of its jobs can be read.                             *)
THEOREM NoResultRemediatedTwice ==
  ASSUME ResultsDistinct, ~ReadsFail
  PROVE  Spec => []RemediatedOnce
  <1>1. LedgerInv /\ OnceInv => RemediatedOnce
    <2>. SUFFICES ASSUME LedgerInv, OnceInv, ~AllowAgain, NEW f \in Findings
                  PROVE  recorded[<<"remediation", f.alternateId>>] <= 1 + failures[f.alternateId]
      BY DEF RemediatedOnce, Results
    <2>1. "remediation" \in SafeKinds
      BY DEF SafeKinds, Kinds
    <2>2. recorded[<<"remediation", f.alternateId>>] <= 1 + Allowance(failures, "remediation", f)
      BY <2>1 DEF OnceInv, RecordedOK
    <2>. QED
      BY <2>2 DEF Allowance
  <1>. QED
    BY <1>1, OnceInductive, PTL

-----------------------------------------------------------------------------
(* Giving credits (CreditGive.tla), by any number of administrators: each  *)
(* plan is checked before the await and carried out after it.  As long as  *)
(* nothing is marked in it, it still fits: what is spent or taken back     *)
(* meanwhile only leaves more to give, and what others give, or reserve    *)
(* for a run, marks it.                                                    *)
GiveConstants ==
  /\ IsFiniteSet(Projects)
  /\ Pool \in Nat /\ Extras \subseteq Nat /\ Needs \subseteq Nat

(* What of an allocation is neither spent nor held. *)
Open(b, a) == b.allocated[a] - b.used[a] - b.reservedBy[a]

(* What the pool has spent, holds and has promised. *)
Taken(b) == b.period + b.reserved + Give!Outstanding(b)

AccountOK(b, a) == b.reservedBy[a] \in Nat /\ Open(b, a) \in Nat

GivePlans == [kind : {"none", "give", "run"}, account : Accounts \cup {Give!NoPlan.account},
              needed : Nat, extra : Nat, stale : SUBSET {"pool", "need"}]

(* A plan to give that nothing has overtaken fits. *)
PlanFits(b, n, p) ==
  /\ p.kind # "none" => p.account \in Accounts
  /\ p.kind = "give" =>
       /\ "pool" \notin p.stale => Taken(b) + p.needed + p.extra <= Pool
       /\ "need" \notin p.stale /\ p.needed > 0 => Open(b, p.account) + p.needed <= n[p.account]

GiveInv ==
  /\ books \in IntBooks
  /\ \A a \in Accounts : AccountOK(books, a)
  /\ need \in [Accounts -> Nat]
  /\ plan \in [Admins -> GivePlans]
  /\ \A d \in Admins : PlanFits(books, need, plan[d])

(* What the property says of one step. *)
GiveStep == ~Give!PoolOvercommits /\ \A d \in Admins : ~Give!GivesTooMuch(d)

(* Nothing is promised beside what is open. *)
LEMMA OutstandingIs ==
  ASSUME NEW b \in IntBooks, \A a \in Accounts : AccountOK(b, a)
  PROVE  Give!Outstanding(b) = SumFunction([a \in Accounts |-> Open(b, a)])
  <1>1. \A a \in Accounts : Give!Remaining(b, a) = Open(b, a)
    BY DEF AccountOK, Give!Remaining, Give!AtLeast0, Open, IntBooks
  <1>2. [a \in Accounts |-> Give!Remaining(b, a)] = [a \in Accounts |-> Open(b, a)]
    BY <1>1
  <1>3. \A f : Give!SumFunction(f) = SumFunction(f)
    BY DEF Give!SumFunction, Give!SumFunctionOnSet, Give!FoldFunctionOnSet, Give!MapThenFoldSet,
           SumFunction, SumFunctionOnSet, FoldFunctionOnSet, MapThenFoldSet
  <1>. QED
    BY <1>2, <1>3 DEF Give!Outstanding, Give!Accounts, Accounts, Give!Kinds, Kinds

(* There are finitely many accounts. *)
LEMMA AccountsFinite ==
  ASSUME GiveConstants
  PROVE  IsFiniteSet(Accounts)
  <1>1. IsFiniteSet(Kinds)
    <2>1. Kinds = {} \cup {"triage"} \cup {"remediation"}
      BY DEF Kinds
    <2>. QED
      BY <2>1, FS_EmptySet, FS_AddElement
  <1>. QED
    BY <1>1, FS_Product DEF GiveConstants, Accounts

(* What is open is a number, in all and of each account. *)
LEMMA OpenType ==
  ASSUME GiveConstants, NEW b \in IntBooks, \A a \in Accounts : AccountOK(b, a)
  PROVE  /\ [a \in Accounts |-> Open(b, a)] \in [Accounts -> Nat]
         /\ Give!Outstanding(b) \in Nat /\ Taken(b) \in Int
  <1>1. [a \in Accounts |-> Open(b, a)] \in [Accounts -> Nat]
    BY DEF AccountOK
  <1>2. Give!Outstanding(b) \in Nat
    BY <1>1, AccountsFinite, OutstandingIs, SumNat
  <1>. QED
    BY <1>1, <1>2 DEF Taken, IntBooks

(* When one account changes, what is promised changes by what is open of it. *)
LEMMA TakenMoves ==
  ASSUME GiveConstants, NEW b \in IntBooks, NEW c \in IntBooks, NEW a \in Accounts,
         \A x \in Accounts : AccountOK(b, x) /\ AccountOK(c, x),
         \A x \in Accounts \ {a} : Open(c, x) = Open(b, x)
  PROVE  Taken(c) = Taken(b) + (c.period - b.period) + (c.reserved - b.reserved)
                    + (Open(c, a) - Open(b, a))
  <1>. DEFINE f == [x \in Accounts |-> Open(b, x)]
              g == [x \in Accounts |-> Open(c, x)]
  <1>1. f \in [Accounts -> Int] /\ g \in [Accounts -> Int]
    BY OpenType
  <1>2. g = [f EXCEPT ![a] = Open(c, a)]
    <2>1. \A x \in Accounts : g[x] = [f EXCEPT ![a] = Open(c, a)][x]
      OBVIOUS
    <2>. QED
      BY <2>1
  <1>3. f[a] = Open(b, a) /\ g[a] = Open(c, a) /\ f[a] \in Int /\ g[a] \in Int
    BY <1>1
  <1>4. Give!Outstanding(b) = SumFunction(f) /\ Give!Outstanding(c) = SumFunction(g)
    BY OutstandingIs
  <1>. HIDE DEF f, g
  <1>5. SumFunction(g) = SumFunction(f) + (Open(c, a) - f[a]) /\ SumFunction(f) \in Int
    <2>1. IsFiniteSet(Accounts)
      BY AccountsFinite
    <2>2. SumFunction(f) \in Int
      BY <1>1, <2>1, SumType
    <2>3. Open(c, a) \in Int
      BY <1>3
    <2>4. SumFunction([f EXCEPT ![a] = Open(c, a)]) = SumFunction(f) + (Open(c, a) - f[a])
      BY <1>1, <2>1, <2>3, SumExcept
    <2>. QED
      BY <1>2, <2>2, <2>4
  <1>. QED
    BY <1>3, <1>4, <1>5 DEF Taken, IntBooks

(* One account's books move: what becomes of it all. *)
LEMMA BooksMove ==
  ASSUME GiveConstants, GiveInv, NEW c \in IntBooks, NEW a \in Accounts,
         \A x \in Accounts \ {a} : /\ c.allocated[x] = books.allocated[x]
                                   /\ c.used[x] = books.used[x]
                                   /\ c.reservedBy[x] = books.reservedBy[x],
         c.reservedBy[a] \in Nat, Open(c, a) >= 0
  PROVE  /\ \A x \in Accounts : AccountOK(c, x)
         /\ \A x \in Accounts \ {a} : Open(c, x) = Open(books, x)
         /\ Taken(c) \in Int /\ Taken(books) \in Int
         /\ Taken(c) = Taken(books) + (c.period - books.period) + (c.reserved - books.reserved)
                       + (Open(c, a) - Open(books, a))
  <1>1. books \in IntBooks /\ \A x \in Accounts : AccountOK(books, x)
    BY DEF GiveInv
  <1>2. \A x \in Accounts \ {a} : Open(c, x) = Open(books, x)
    BY DEF Open
  <1>3. Open(c, a) \in Nat
    BY DEF Open, IntBooks
  <1>4. \A x \in Accounts : AccountOK(c, x)
    <2>1. ASSUME NEW x \in Accounts, x # a PROVE AccountOK(c, x)
      BY <2>1, <1>1, <1>2 DEF AccountOK
    <2>2. AccountOK(c, a)
      BY <1>3 DEF AccountOK
    <2>. QED
      BY <2>1, <2>2
  <1>. QED
    BY <1>1, <1>2, <1>4, OpenType, TakenMoves

(* A plan that is marked for what moved still fits. *)
LEMMA MarkedFits ==
  ASSUME GiveConstants, NEW b \in IntBooks, NEW c \in IntBooks, NEW n \in [Accounts -> Nat],
         NEW m \in [Accounts -> Nat], NEW p \in GivePlans, NEW S \in SUBSET {"pool", "need"},
         PlanFits(b, n, p), Taken(b) \in Int, Taken(c) \in Int,
         "pool" \in S \/ Taken(c) <= Taken(b),
         \/ "need" \in S
         \/ \A a \in Accounts : /\ a = p.account
                                => Open(c, a) \in Int /\ Open(b, a) \in Int
                                   /\ Open(c, a) <= Open(b, a) /\ m[a] = n[a]
  PROVE  /\ Give!Marked(p, S) \in GivePlans /\ PlanFits(c, m, Give!Marked(p, S))
         /\ Give!Marked(p, S).kind = p.kind
  <1>1. CASE p.kind # "give"
    BY <1>1 DEF Give!Marked, PlanFits
  <1>2. CASE p.kind = "give"
    <2>. DEFINE q == [p EXCEPT !.stale = @ \cup S]
    <2>1. Give!Marked(p, S) = q
      BY <1>2 DEF Give!Marked
    <2>2. /\ q \in GivePlans /\ q.kind = p.kind /\ q.account = p.account
          /\ q.needed = p.needed /\ q.extra = p.extra /\ q.stale = p.stale \cup S
      BY DEF GivePlans
    <2>. HIDE DEF q
    <2>3. p.account \in Accounts /\ p.needed \in Nat /\ p.extra \in Nat
      BY <1>2 DEF PlanFits, GivePlans
    <2>4. "pool" \notin q.stale => Taken(c) + q.needed + q.extra <= Pool
      BY <1>2, <2>2, <2>3 DEF PlanFits, GiveConstants
    <2>5. ASSUME "need" \notin q.stale, q.needed > 0
          PROVE  Open(c, q.account) + q.needed <= m[q.account]
      <3>1. "need" \notin S /\ "need" \notin p.stale /\ p.needed > 0
        BY <2>2, <2>5
      <3>2. Open(b, p.account) + p.needed <= n[p.account]
        BY <1>2, <3>1 DEF PlanFits
      <3>3. /\ Open(c, p.account) \in Int /\ Open(b, p.account) \in Int
            /\ Open(c, p.account) <= Open(b, p.account) /\ m[p.account] = n[p.account]
        BY <2>3, <3>1
      <3>4. n[p.account] \in Nat
        BY <2>3
      <3>. QED
        BY <2>2, <2>3, <3>2, <3>3, <3>4
    <2>6. PlanFits(c, m, q)
      BY <2>2, <2>3, <2>4, <2>5 DEF PlanFits
    <2>. QED
      BY <2>1, <2>2, <2>6
  <1>. QED
    BY <1>1, <1>2

(* No credits at first, and no plan. *)
LEMMA GiveInit ==
  ASSUME GiveConstants, Give!Init
  PROVE  GiveInv
  <1>1. books \in IntBooks
    BY DEF Give!Init, Give!EmptyBook, Give!Accounts, Give!Kinds, Accounts, Kinds, IntBooks
  <1>2. \A a \in Accounts : Open(books, a) = 0 /\ books.reservedBy[a] = 0
    BY DEF Give!Init, Give!EmptyBook, Give!Accounts, Give!Kinds, Accounts, Kinds, Open
  <1>3. \A a \in Accounts : AccountOK(books, a)
    BY <1>2 DEF AccountOK
  <1>4. need \in [Accounts -> Nat]
    BY DEF Give!Init, Give!Accounts, Give!Kinds, Accounts, Kinds
  <1>5. Give!NoPlan \in GivePlans /\ Give!NoPlan.kind = "none"
    BY DEF Give!NoPlan, GivePlans
  <1>6. plan \in [Admins -> GivePlans] /\ \A d \in Admins : plan[d].kind = "none"
    BY <1>5 DEF Give!Init
  <1>. QED
    BY <1>1, <1>3, <1>4, <1>6 DEF GiveInv, PlanFits

(* Credits are spent, held or taken back, and a run ends: of no account    *)
(* more is open, no more is taken, and every plan to give still fits.      *)
LEMMA LessKeepsGive ==
  ASSUME GiveConstants, GiveInv, NEW c \in IntBooks, books' = c, need' = need,
         \A x \in Accounts : AccountOK(c, x) /\ Open(c, x) <= Open(books, x),
         Taken(c) <= Taken(books),
         plan' \in [Admins -> GivePlans],
         \A d \in Admins : plan'[d] = plan[d] \/ (plan[d].kind # "give" /\ plan'[d] = Give!NoPlan)
  PROVE  GiveInv' /\ GiveStep
  <1>1. /\ books \in IntBooks /\ need \in [Accounts -> Nat] /\ plan \in [Admins -> GivePlans]
        /\ \A x \in Accounts : AccountOK(books, x)
    BY DEF GiveInv
  <1>2. Taken(c) \in Int /\ Taken(books) \in Int
    BY <1>1, OpenType
  <1>3. \A x \in Accounts : Open(c, x) \in Int /\ Open(books, x) \in Int
    BY <1>1 DEF AccountOK
  <1>4. ASSUME NEW d \in Admins PROVE PlanFits(c, need, plan'[d])
    <2>1. CASE plan'[d] = plan[d]
      <3>. DEFINE p == plan[d]
      <3>1. p \in GivePlans /\ PlanFits(books, need, p)
        BY <1>1 DEF GiveInv
      <3>. HIDE DEF p
      <3>2. p.needed \in Nat /\ p.extra \in Nat
        BY <3>1 DEF GivePlans
      <3>3. ASSUME p.kind = "give", "pool" \notin p.stale PROVE Taken(c) + p.needed + p.extra <= Pool
        BY <3>1, <3>2, <3>3, <1>2 DEF PlanFits, GiveConstants
      <3>4. ASSUME p.kind = "give", "need" \notin p.stale, p.needed > 0
            PROVE  Open(c, p.account) + p.needed <= need[p.account]
        <4>1. p.account \in Accounts /\ Open(books, p.account) + p.needed <= need[p.account]
          BY <3>1, <3>4 DEF PlanFits
        <4>2. need[p.account] \in Nat
          BY <4>1, <1>1
        <4>. QED
          BY <4>1, <4>2, <3>2, <1>3
      <3>5. PlanFits(c, need, p)
        BY <3>1, <3>3, <3>4 DEF PlanFits
      <3>. QED
        BY <2>1, <3>5 DEF p
    <2>2. CASE plan'[d] = Give!NoPlan
      BY <2>2 DEF Give!NoPlan, PlanFits
    <2>. QED
      BY <2>1, <2>2
  <1>5. GiveInv'
    BY <1>1, <1>4 DEF GiveInv
  <1>6. ~Give!PoolOvercommits
    BY <1>2 DEF Give!PoolOvercommits, Give!Taken, Taken
  <1>7. \A d \in Admins : ~Give!Gives(d)
    BY DEF Give!Gives
  <1>. QED
    BY <1>5, <1>6, <1>7 DEF GiveStep, Give!GivesTooMuch

(* The month ends, and nothing of it counts in the pool any more. *)
LEMMA MonthKeepsGive ==
  ASSUME GiveConstants, GiveInv, Give!NewMonth
  PROVE  GiveInv' /\ GiveStep
  <1>1. books' \in IntBooks
    BY DEF Give!NewMonth, GiveInv, IntBooks
  <1>2. books \in IntBooks /\ books' = [books EXCEPT !.period = 0] /\ plan' = plan /\ need' = need
    BY DEF Give!NewMonth, GiveInv
  <1>3. /\ books'.allocated = books.allocated /\ books'.used = books.used
        /\ books'.reservedBy = books.reservedBy
        /\ books'.reserved = books.reserved /\ books'.period = 0 /\ books.period \in Nat
        /\ books.reserved \in Int
    BY <1>2 DEF IntBooks
  <1>. DEFINE c == books'
  <1>4. \A x \in Accounts : Open(c, x) = Open(books, x)
    BY <1>3 DEF Open
  <1>5. \A x \in Accounts : AccountOK(c, x) /\ AccountOK(books, x)
    BY <1>3, <1>4 DEF AccountOK, GiveInv
  <1>6. c \in IntBooks /\ c.reserved = books.reserved /\ c.period = 0
    BY <1>1, <1>3
  <1>. HIDE DEF c
  <1>7. Taken(c) <= Taken(books)
    <2>1. Give!Outstanding(c) = Give!Outstanding(books)
      <3>1. [a \in Accounts |-> Open(c, a)] = [a \in Accounts |-> Open(books, a)]
        BY <1>4
      <3>. QED
        BY <3>1, <1>2, <1>5, <1>6, OutstandingIs
    <2>2. Give!Outstanding(books) \in Nat
      BY <1>2, <1>5, OpenType
    <2>. QED
      BY <2>1, <2>2, <1>3, <1>6 DEF Taken
  <1>8. \A x \in Accounts : Open(c, x) <= Open(books, x)
    BY <1>4, <1>5 DEF AccountOK
  <1>9. books' = c /\ plan \in [Admins -> GivePlans]
    BY DEF c, GiveInv
  <1>. QED
    BY <1>2, <1>5, <1>6, <1>7, <1>8, <1>9, LessKeepsGive

(* As when one account's credits are spent, held or taken back. *)
LEMMA SpendingKeepsGive ==
  ASSUME GiveConstants, GiveInv, NEW c \in IntBooks, NEW a \in Accounts,
         books' = c, need' = need,
         \A x \in Accounts \ {a} : /\ c.allocated[x] = books.allocated[x]
                                   /\ c.used[x] = books.used[x]
                                   /\ c.reservedBy[x] = books.reservedBy[x],
         c.reservedBy[a] \in Nat, Open(c, a) >= 0, Open(c, a) <= Open(books, a),
         c.period + c.reserved + Open(c, a) <= books.period + books.reserved + Open(books, a),
         plan' \in [Admins -> GivePlans],
         \A d \in Admins : plan'[d] = plan[d] \/ (plan[d].kind # "give" /\ plan'[d] = Give!NoPlan)
  PROVE  GiveInv' /\ GiveStep
  <1>1. books \in IntBooks /\ \A x \in Accounts : AccountOK(books, x)
    BY DEF GiveInv
  <1>2. /\ \A x \in Accounts : AccountOK(c, x)
        /\ \A x \in Accounts \ {a} : Open(c, x) = Open(books, x)
        /\ Taken(c) \in Int /\ Taken(books) \in Int
        /\ Taken(c) = Taken(books) + (c.period - books.period) + (c.reserved - books.reserved)
                      + (Open(c, a) - Open(books, a))
    BY BooksMove
  <1>3. \A x \in Accounts : Open(c, x) <= Open(books, x)
    BY <1>1, <1>2 DEF AccountOK
  <1>4. Taken(c) <= Taken(books)
    <2>1. /\ c.period \in Nat /\ books.period \in Nat /\ c.reserved \in Int /\ books.reserved \in Int
          /\ Open(c, a) \in Int /\ Open(books, a) \in Int
      BY <1>1, <1>2 DEF IntBooks, AccountOK
    <2>. QED
      BY <2>1, <1>2
  <1>. QED
    BY <1>2, <1>3, <1>4, LessKeepsGive

(* A report holds a credit of its project's, records one it held, or what   *)
(* is not used is taken back.                                               *)
LEMMA ReportsKeepGive ==
  ASSUME GiveConstants, GiveInv, NEW a \in Accounts, Give!Hold(a) \/ Give!Spend(a) \/ Give!Reclaim(a)
  PROVE  GiveInv' /\ GiveStep
  <1>1. /\ books \in IntBooks /\ Open(books, a) >= 0 /\ books.reservedBy[a] \in Nat
        /\ plan' = plan /\ need' = need /\ plan \in [Admins -> GivePlans]
    <2>1. books \in IntBooks /\ AccountOK(books, a) /\ plan \in [Admins -> GivePlans]
      BY DEF GiveInv
    <2>2. Open(books, a) >= 0 /\ books.reservedBy[a] \in Nat
      BY <2>1 DEF AccountOK
    <2>3. plan' = plan /\ need' = need
      BY DEF Give!Hold, Give!Spend, Give!Reclaim
    <2>. QED
      BY <2>1, <2>2, <2>3
  <1>2. /\ books.allocated[a] \in Int /\ books.used[a] \in Nat
        /\ books.period \in Nat /\ books.reserved \in Int
    BY <1>1 DEF IntBooks
  <1>3. CASE Give!Hold(a)
    <2>. DEFINE c == Reserve(books, a, 1, TRUE)
    <2>1. books' = c /\ 1 <= Open(books, a)
      BY <1>3 DEF Give!Hold, Give!Reserve, Reserve, Give!MayReserve, Open
    <2>2. c \in IntBooks /\ c.period = books.period /\ c.reserved = books.reserved + 1
      <3>1. TRUE \in BOOLEAN /\ 1 \in Int
        OBVIOUS
      <3>. QED
        BY <3>1, <1>1, ReserveType, Zenon
    <2>3. /\ c.used = books.used /\ c.allocated = books.allocated
          /\ c.reservedBy = [books.reservedBy EXCEPT ![a] = @ + 1]
      BY <1>1 DEF Reserve, IntBooks
    <2>. HIDE DEF c
    <2>4. c.reservedBy[a] = books.reservedBy[a] + 1 /\ \A x \in Accounts \ {a} : c.reservedBy[x] = books.reservedBy[x]
      BY <2>3, <1>1 DEF IntBooks
    <2>5. Open(c, a) = Open(books, a) - 1
      BY <2>3, <2>4, <1>1, <1>2 DEF Open
    <2>6. Open(books, a) \in Int
      BY <1>1, <1>2 DEF Open
    <2>7. /\ c.reservedBy[a] \in Nat /\ Open(c, a) >= 0 /\ Open(c, a) <= Open(books, a)
          /\ c.period + c.reserved + Open(c, a) <= books.period + books.reserved + Open(books, a)
      BY <2>1, <2>2, <2>4, <2>5, <2>6, <1>1, <1>2
    <2>. QED
      BY <2>1, <2>2, <2>3, <2>4, <2>7, <1>1, SpendingKeepsGive
  <1>4. CASE Give!Spend(a)
    <2>. DEFINE b == Release(books, a, 1, TRUE)
                c == Record(b, a, 1, {})
    <2>1. books' = c /\ books.reservedBy[a] > 0
      BY <1>4 DEF Give!Spend, Give!Release, Release, Give!Record, Record, Give!Identities, Identities,
                  Give!RiskIds, RiskIds
    <2>2. b \in IntBooks /\ b.period = books.period /\ b.reserved = books.reserved - 1
      <3>1. TRUE \in BOOLEAN /\ 1 \in Int
        OBVIOUS
      <3>. QED
        BY <3>1, <1>1, ReleaseType, Zenon
    <2>3. /\ b.used = books.used /\ b.allocated = books.allocated
          /\ b.reservedBy = [books.reservedBy EXCEPT ![a] = @ - 1]
      BY <1>1 DEF Release, IntBooks
    <2>. HIDE DEF b
    <2>4. c \in IntBooks /\ c.period = b.period + 1 /\ c.reserved = b.reserved
      BY <2>2, RecordType
    <2>5. /\ c.used = [b.used EXCEPT ![a] = @ + 1] /\ c.allocated = b.allocated
          /\ c.reservedBy = b.reservedBy
      BY <2>2, RecordFields
    <2>. HIDE DEF c
    <2>7. /\ c.reservedBy[a] = books.reservedBy[a] - 1 /\ c.used[a] = books.used[a] + 1
          /\ \A x \in Accounts \ {a} : c.reservedBy[x] = books.reservedBy[x] /\ c.used[x] = books.used[x]
      BY <2>3, <2>5, <1>1 DEF IntBooks
    <2>8. Open(c, a) = Open(books, a) /\ Open(books, a) \in Int
      BY <2>3, <2>5, <2>7, <1>1, <1>2 DEF Open
    <2>9. /\ c.reservedBy[a] \in Nat /\ c.allocated = books.allocated
          /\ c.period + c.reserved + Open(c, a) <= books.period + books.reserved + Open(books, a)
      BY <2>1, <2>2, <2>3, <2>4, <2>5, <2>7, <2>8, <1>1, <1>2
    <2>10. Open(c, a) >= 0 /\ Open(c, a) <= Open(books, a)
      BY <2>8, <1>1
    <2>. QED
      BY <2>1, <2>4, <2>7, <2>9, <2>10, <1>1, SpendingKeepsGive
  <1>5. CASE Give!Reclaim(a)
    <2>. DEFINE c == ReclaimUnused(books, a)
                floor == books.used[a] + books.reservedBy[a]
    <2>1. books' = c
      BY <1>5 DEF Give!Reclaim, Give!ReclaimUnused, ReclaimUnused
    <2>2. c \in IntBooks /\ c.period = books.period /\ c.reserved = books.reserved
      BY <1>1, ReclaimUnusedType DEF SamePool
    <2>3. /\ c.used = books.used /\ c.reservedBy = books.reservedBy
          /\ c.allocated = [books.allocated EXCEPT ![a] = IF @ > floor THEN floor ELSE @]
      BY <1>1 DEF ReclaimUnused, IntBooks
    <2>. HIDE DEF c
    <2>4. /\ \A x \in Accounts \ {a} : c.allocated[x] = books.allocated[x]
          /\ c.allocated[a] = IF books.allocated[a] > floor THEN floor ELSE books.allocated[a]
      BY <2>3, <1>1 DEF IntBooks
    <2>5. Open(c, a) = 0 /\ Open(books, a) \in Int
      BY <2>3, <2>4, <1>1, <1>2 DEF Open
    <2>6. /\ c.reservedBy[a] \in Nat /\ Open(c, a) >= 0 /\ Open(c, a) <= Open(books, a)
          /\ c.period + c.reserved + Open(c, a) <= books.period + books.reserved + Open(books, a)
      BY <2>2, <2>3, <2>5, <1>1, <1>2
    <2>. QED
      BY <2>1, <2>2, <2>3, <2>4, <2>6, <1>1, SpendingKeepsGive
  <1>. QED
    BY <1>3, <1>4, <1>5

(* An administrator's run ends: charged, the allocation was raised to what *)
(* it used, so that nothing of it is open that was not open before.        *)
LEMMA RunEndKeepsGive ==
  ASSUME GiveConstants, GiveInv, NEW d \in Admins, Give!Triaged(d) \/ Give!NotTriaged(d)
  PROVE  GiveInv' /\ GiveStep
  <1>. DEFINE p == plan[d]
              a == p.account
              n == p.needed
  <1>1. /\ books \in IntBooks /\ plan \in [Admins -> GivePlans] /\ p \in GivePlans
        /\ PlanFits(books, need, p) /\ p.kind = "run"
        /\ plan' = [plan EXCEPT ![d] = Give!NoPlan] /\ need' = need
    BY DEF GiveInv, Give!Triaged, Give!NotTriaged
  <1>2. a \in Accounts /\ n \in Nat
    BY <1>1 DEF PlanFits, GivePlans
  <1>3. /\ plan' \in [Admins -> GivePlans]
        /\ \A e \in Admins : plan'[e] = plan[e] \/ (plan[e].kind # "give" /\ plan'[e] = Give!NoPlan)
    <2>1. Give!NoPlan \in GivePlans
      BY DEF Give!NoPlan, GivePlans
    <2>. QED
      BY <2>1, <1>1
  <1>4. CASE Give!NotTriaged(d)
    <2>. DEFINE c == Release(books, a, n, FALSE)
    <2>1. books' = c
      BY <1>4 DEF Give!NotTriaged, Give!Release, Release
    <2>. HIDE DEF p, a, n
    <2>2. c \in IntBooks /\ c.period = books.period /\ c.reserved = books.reserved - n
      <3>1. FALSE \in BOOLEAN /\ n \in Int
        BY <1>2
      <3>. QED
        BY <3>1, <1>1, <1>2, ReleaseType, Zenon
    <2>3. /\ c.used = books.used /\ c.allocated = books.allocated
          /\ c.reservedBy = [books.reservedBy EXCEPT ![a] = @ - 0]
      BY <1>1 DEF Release, IntBooks
    <2>. HIDE DEF c
    <2>4. \A x \in Accounts : c.reservedBy[x] = books.reservedBy[x]
      BY <2>3, <1>1, <1>2 DEF IntBooks
    <2>5. Open(c, a) = Open(books, a) /\ Open(books, a) \in Nat /\ c.reservedBy[a] \in Nat
      BY <2>3, <2>4, <1>2 DEF Open, GiveInv, AccountOK
    <2>6. c.period + c.reserved + Open(c, a) <= books.period + books.reserved + Open(books, a)
      BY <2>2, <2>5, <1>1, <1>2 DEF IntBooks
    <2>7. Open(c, a) >= 0 /\ Open(c, a) <= Open(books, a)
      BY <2>5
    <2>. QED
      BY <2>1, <2>2, <2>3, <2>4, <2>5, <2>6, <2>7, <1>1, <1>2, <1>3, SpendingKeepsGive
  <1>5. CASE Give!Triaged(d)
    <2>. DEFINE raised == AtLeast0(n - Give!Remaining(books, a))
                g == Grant(books, a, raised)
                b == Release(g, a, n, FALSE)
                c == Record(b, a, n, {})
    <2>1. books' = c
      BY <1>5 DEF Give!Triaged, Give!Release, Release, Give!Record, Record, Give!Grant, Grant,
                  Give!AtLeast0, AtLeast0, Give!Identities, Identities, Give!RiskIds, RiskIds
    <2>. HIDE DEF p, a, n
    <2>2. /\ books.allocated[a] \in Int /\ books.used[a] \in Nat /\ books.reservedBy[a] \in Nat
          /\ books.period \in Nat /\ books.reserved \in Int /\ Open(books, a) \in Nat
      BY <1>1, <1>2 DEF IntBooks, GiveInv, AccountOK
    <2>3. Give!Remaining(books, a) = Open(books, a)
      BY <2>2 DEF Give!Remaining, Give!AtLeast0, Open
    <2>4. raised \in Nat /\ raised = IF n <= Open(books, a) THEN 0 ELSE n - Open(books, a)
      BY <2>2, <2>3, <1>2 DEF AtLeast0
    <2>. HIDE DEF raised
    <2>5. g \in IntBooks /\ g.period = books.period /\ g.reserved = books.reserved
      BY <1>1, <1>2, <2>4, GrantType DEF SamePool
    <2>6. /\ g.used = books.used /\ g.reservedBy = books.reservedBy
          /\ g.allocated = [books.allocated EXCEPT ![a] = AtLeast0(@ + raised)]
      BY <1>1 DEF Grant, IntBooks
    <2>. HIDE DEF g
    <2>7. b \in IntBooks /\ b.period = g.period /\ b.reserved = g.reserved - n
      <3>1. FALSE \in BOOLEAN /\ n \in Int
        BY <1>2
      <3>. QED
        BY <3>1, <2>5, <1>2, ReleaseType, Zenon
    <2>8. /\ b.used = g.used /\ b.allocated = g.allocated
          /\ b.reservedBy = [g.reservedBy EXCEPT ![a] = @ - 0]
      BY <2>5 DEF Release, IntBooks
    <2>. HIDE DEF b
    <2>9. c \in IntBooks /\ c.period = b.period + n /\ c.reserved = b.reserved
      BY <2>7, <1>2, RecordType
    <2>10. /\ c.used = [b.used EXCEPT ![a] = @ + n] /\ c.allocated = b.allocated
           /\ c.reservedBy = b.reservedBy
      BY <2>7, <1>2, RecordFields
    <2>. HIDE DEF c
    <2>11. \A x \in Accounts : c.reservedBy[x] = books.reservedBy[x]
      BY <2>6, <2>8, <2>10, <1>1, <1>2 DEF IntBooks
    <2>12. \A x \in Accounts \ {a} : c.used[x] = books.used[x] /\ c.allocated[x] = books.allocated[x]
      BY <2>6, <2>8, <2>10, <1>1, <1>2 DEF IntBooks
    <2>13. c.used[a] = books.used[a] + n
      BY <2>6, <2>8, <2>10, <1>1, <1>2 DEF IntBooks
    <2>14. books.allocated[a] + raised \in Nat
      BY <2>2, <2>4 DEF Open
    <2>15. c.allocated[a] = books.allocated[a] + raised
      BY <2>6, <2>8, <2>10, <2>14, <1>1, <1>2 DEF IntBooks, AtLeast0
    <2>16. Open(c, a) = Open(books, a) + raised - n
      BY <2>2, <2>4, <2>11, <2>13, <2>15, <1>2 DEF Open
    <2>17. Open(c, a) >= 0 /\ Open(c, a) <= Open(books, a)
      BY <2>2, <2>4, <2>16, <1>2
    <2>18. c.period + c.reserved = books.period + books.reserved
      BY <2>2, <2>5, <2>7, <2>9, <1>2
    <2>19. c.period + c.reserved + Open(c, a) <= books.period + books.reserved + Open(books, a)
      BY <2>2, <2>16, <2>17, <2>18, <2>4, <1>2
    <2>20. c.reservedBy[a] \in Nat
      BY <2>2, <2>11, <1>2
    <2>. QED
      BY <2>1, <2>9, <2>11, <2>12, <2>17, <2>19, <2>20, <1>1, <1>2, <1>3, SpendingKeepsGive
  <1>. QED
    BY <1>4, <1>5

(* What a project needs, or what a failed request leaves it, has moved: the *)
(* plans to give to it are marked, and nothing more is taken.               *)
LEMMA NeedMovedKeepsGive ==
  ASSUME GiveConstants, GiveInv, NEW a \in Accounts, Give!Fail(a) \/ Give!NeedChanges(a)
  PROVE  GiveInv' /\ GiveStep
  <1>. DEFINE c == books'
              m == need'
              S(d) == IF plan[d].account = a THEN {"need"} ELSE {}
  <1>1. /\ books \in IntBooks /\ need \in [Accounts -> Nat] /\ plan \in [Admins -> GivePlans]
        /\ \A x \in Accounts : AccountOK(books, x)
        /\ \A d \in Admins : PlanFits(books, need, plan[d])
    BY DEF GiveInv
  <1>2. plan' = [d \in Admins |-> Give!Marked(plan[d], S(d))]
    BY DEF Give!Fail, Give!NeedChanges, Give!NeedMoved
  <1>3. /\ c \in IntBooks /\ m \in [Accounts -> Nat] /\ Taken(c) = Taken(books)
        /\ \A x \in Accounts : AccountOK(c, x)
        /\ \A x \in Accounts \ {a} : Open(c, x) = Open(books, x) /\ m[x] = need[x]
    <2>1. CASE Give!NeedChanges(a)
      <3>1. PICK n \in Needs : need' = [need EXCEPT ![a] = n] /\ books' = books
        BY <2>1 DEF Give!NeedChanges
      <3>2. n \in Nat
        BY DEF GiveConstants
      <3>. QED
        BY <1>1, <3>1, <3>2
    <2>2. CASE Give!Fail(a)
      <3>. DEFINE r == Release(books, a, 1, TRUE)
      <3>1. books' = r /\ books.reservedBy[a] > 0 /\ need' = need
        BY <2>2 DEF Give!Fail, Give!Release, Release
      <3>2. r \in IntBooks /\ r.period = books.period /\ r.reserved = books.reserved - 1
        <4>1. TRUE \in BOOLEAN /\ 1 \in Int
          OBVIOUS
        <4>. QED
          BY <4>1, <1>1, ReleaseType, Zenon
      <3>3. /\ r.used = books.used /\ r.allocated = books.allocated
            /\ r.reservedBy = [books.reservedBy EXCEPT ![a] = @ - 1]
        BY <1>1 DEF Release, IntBooks
      <3>. HIDE DEF r
      <3>4. /\ books.reservedBy[a] \in Nat /\ Open(books, a) \in Nat
            /\ books.allocated[a] \in Int /\ books.used[a] \in Nat
            /\ books.period \in Nat /\ books.reserved \in Int
        BY <1>1 DEF IntBooks, AccountOK
      <3>5. /\ r.reservedBy[a] = books.reservedBy[a] - 1
            /\ \A x \in Accounts \ {a} : r.reservedBy[x] = books.reservedBy[x]
        BY <3>3, <1>1 DEF IntBooks
      <3>6. Open(r, a) = Open(books, a) + 1
        BY <3>3, <3>4, <3>5 DEF Open
      <3>7. r.reservedBy[a] \in Nat /\ Open(r, a) >= 0
        BY <3>1, <3>4, <3>5, <3>6
      <3>8. /\ \A x \in Accounts : AccountOK(r, x)
            /\ \A x \in Accounts \ {a} : Open(r, x) = Open(books, x)
            /\ Taken(r) \in Int /\ Taken(books) \in Int
            /\ Taken(r) = Taken(books) + (r.period - books.period) + (r.reserved - books.reserved)
                          + (Open(r, a) - Open(books, a))
        BY <3>2, <3>3, <3>5, <3>7, BooksMove
      <3>9. Taken(r) = Taken(books)
        BY <3>2, <3>4, <3>6, <3>8
      <3>. QED
        BY <1>1, <3>1, <3>2, <3>8, <3>9
    <2>. QED
      BY <2>1, <2>2
  <1>. HIDE DEF c, m
  <1>4. Taken(c) \in Int /\ Taken(books) \in Int
    BY <1>1, <1>3, OpenType
  <1>5. ASSUME NEW d \in Admins
        PROVE  /\ plan'[d] \in GivePlans /\ PlanFits(c, m, plan'[d])
               /\ plan'[d].kind = plan[d].kind
    <2>1. S(d) \in SUBSET {"pool", "need"} /\ Taken(c) <= Taken(books)
      BY <1>3, <1>4
    <2>2. \/ "need" \in S(d)
          \/ \A x \in Accounts : x = plan[d].account
                                 => Open(c, x) \in Int /\ Open(books, x) \in Int
                                    /\ Open(c, x) <= Open(books, x) /\ m[x] = need[x]
      BY <1>1, <1>3 DEF AccountOK
    <2>3. plan'[d] = Give!Marked(plan[d], S(d)) /\ plan[d] \in GivePlans
      BY <1>1, <1>2
    <2>. HIDE DEF S
    <2>4. /\ Give!Marked(plan[d], S(d)) \in GivePlans
          /\ PlanFits(c, m, Give!Marked(plan[d], S(d)))
          /\ Give!Marked(plan[d], S(d)).kind = plan[d].kind
      BY <2>1, <2>2, <2>3, <1>1, <1>3, <1>4, MarkedFits
    <2>. QED
      BY <2>3, <2>4
  <1>6. plan' \in [Admins -> GivePlans]
    BY <1>2, <1>5
  <1>7. GiveInv'
    BY <1>3, <1>5, <1>6 DEF GiveInv, c, m
  <1>8. ~Give!PoolOvercommits
    BY <1>3, <1>4 DEF Give!PoolOvercommits, Give!Taken, Taken, c
  <1>9. \A d \in Admins : ~Give!Gives(d)
    BY <1>5 DEF Give!Gives
  <1>. QED
    BY <1>7, <1>8, <1>9 DEF GiveStep, Give!GivesTooMuch

(* What is planned fits, in the pool and in what is needed. *)
LEMMA PlanKeepsGive ==
  ASSUME GiveConstants, GiveInv, NEW d \in Admins, NEW a \in Accounts,
         Give!GiveExtra(d, a) \/ Give!GiveNeeded(d, a)
  PROVE  GiveInv' /\ GiveStep
  <1>1. /\ books \in IntBooks /\ AccountOK(books, a) /\ need[a] \in Nat
        /\ Open(books, a) \in Nat
    BY DEF GiveInv, AccountOK
  <1>2. PICK n \in Nat, e \in Nat :
          /\ Give!Plan(d, a, n, e)
          /\ n > 0 => Open(books, a) + n <= need[a]
    <2>1. CASE Give!GiveExtra(d, a)
      <3>1. PICK e \in Extras : Give!Plan(d, a, 0, e)
        BY <2>1 DEF Give!GiveExtra
      <3>2. e \in Nat
        BY DEF GiveConstants
      <3>. QED
        BY <3>1, <3>2
    <2>2. CASE Give!GiveNeeded(d, a)
      <3>. DEFINE n == Give!Shortfall(books, a)
      <3>1. n = IF need[a] - Open(books, a) < 0 THEN 0 ELSE need[a] - Open(books, a)
        BY DEF Give!Shortfall, Give!AtLeast0, Open
      <3>2. PICK e \in Extras \cup {0} : Give!Plan(d, a, n, e)
        BY <2>2 DEF Give!GiveNeeded
      <3>. HIDE DEF n
      <3>3. n \in Nat /\ (n > 0 => Open(books, a) + n <= need[a])
        BY <3>1, <1>1
      <3>4. e \in Nat
        BY DEF GiveConstants
      <3>. QED
        BY <3>2, <3>3, <3>4
    <2>. QED
      BY <2>1, <2>2
  <1>. DEFINE p == [kind |-> "give", account |-> a, needed |-> n, extra |-> e, stale |-> {}]
  <1>3. /\ plan' = [plan EXCEPT ![d] = p] /\ books' = books /\ need' = need
        /\ plan \in [Admins -> GivePlans] /\ plan[d].kind = "none"
        /\ n + e > 0 /\ n + e <= Give!Unallocated(books)
    BY <1>2 DEF Give!Plan, GiveInv
  <1>4. Taken(books) + n + e <= Pool
    <2>. DEFINE o == Give!Outstanding(books)
    <2>1. Taken(books) = books.period + books.reserved + o /\ o \in Nat
      <3>1. \A x \in Accounts : AccountOK(books, x)
        BY DEF GiveInv
      <3>. QED
        BY <3>1, <1>1, OpenType DEF Taken
    <2>2. Give!Unallocated(books) =
            LET free == Pool - books.period - books.reserved
            IN  Give!AtLeast0(Give!AtLeast0(free) - o)
      BY DEF Give!Unallocated
    <2>3. books.period \in Nat /\ books.reserved \in Int /\ Pool \in Nat
      BY <1>1 DEF IntBooks, GiveConstants
    <2>. HIDE DEF o
    <2>. QED
      BY <1>3, <2>1, <2>2, <2>3 DEF Give!AtLeast0
  <1>5. p \in GivePlans /\ PlanFits(books, need, p) /\ p.kind = "give"
    BY <1>1, <1>2, <1>4 DEF GivePlans, PlanFits
  <1>. HIDE DEF p
  <1>6. GiveInv'
    BY <1>3, <1>5 DEF GiveInv, PlanFits, AccountOK, Open, Taken
  <1>7. ~Give!PoolOvercommits /\ \A x \in Admins : ~Give!Gives(x)
    BY <1>3 DEF Give!PoolOvercommits, Give!Gives
  <1>. QED
    BY <1>6, <1>7 DEF GiveStep, Give!GivesTooMuch

(* The plan is carried out.  As nothing overtook it, it fits; whoever else *)
(* is about to give is marked.                                             *)
LEMMA GiveKeepsGive ==
  ASSUME GiveConstants, GiveInv, NEW d \in Admins, Give!Give(d)
  PROVE  GiveInv' /\ GiveStep
  <1>. DEFINE p == plan[d]
              a == p.account
              b == Grant(books, a, p.needed)
              c == Add(b, a, p.extra)
              S(e) == {"pool"} \cup (IF plan[e].account = a THEN {"need"} ELSE {})
  <1>1. /\ books \in IntBooks /\ p \in GivePlans /\ PlanFits(books, need, p) /\ p.kind = "give"
        /\ plan' = [e \in Admins |-> IF e = d THEN Give!NoPlan ELSE Give!Marked(plan[e], S(e))]
        /\ plan \in [Admins -> GivePlans] /\ \A e \in Admins : PlanFits(books, need, plan[e])
        /\ need' = need /\ need \in [Accounts -> Nat]
        /\ books' = c
    BY DEF GiveInv, Give!Give, Give!Add, Add, Give!Grant, Grant, Give!AtLeast0, AtLeast0
  <1>2. /\ a \in Accounts /\ p.needed \in Nat /\ p.extra \in Nat
        /\ "pool" \notin p.stale => Taken(books) + p.needed + p.extra <= Pool
        /\ "need" \notin p.stale /\ p.needed > 0 => Open(books, a) + p.needed <= need[a]
    BY <1>1 DEF PlanFits, GivePlans
  <1>p. p = plan[d] /\ a = plan[d].account
    OBVIOUS
  <1>. HIDE DEF p, a
  <1>3. /\ AccountOK(books, a) /\ books.allocated[a] \in Int /\ books.used[a] \in Nat
        /\ books.extra[a] \in Nat /\ need[a] \in Nat
    BY <1>1, <1>2 DEF GiveInv, IntBooks
  <1>4. books.reservedBy[a] \in Nat /\ Open(books, a) \in Nat /\ books.allocated[a] \in Nat
    BY <1>3 DEF AccountOK, Open
  <1>5. b \in IntBooks /\ b.period = books.period /\ b.reserved = books.reserved
    BY <1>1, <1>2, GrantType DEF SamePool
  <1>6. /\ b.used = books.used /\ b.reservedBy = books.reservedBy
        /\ b.allocated = [books.allocated EXCEPT ![a] = AtLeast0(@ + p.needed)]
    BY <1>1 DEF Grant, IntBooks
  <1>. HIDE DEF b
  <1>7. c \in IntBooks /\ c.period = b.period /\ c.reserved = b.reserved
    BY <1>2, <1>5, AddType DEF SamePool
  <1>8. /\ c.used = b.used /\ c.reservedBy = b.reservedBy
        /\ c.allocated = [b.allocated EXCEPT ![a] = AtLeast0(@ + p.extra)]
    BY <1>5 DEF Add, Grant, IntBooks
  <1>. HIDE DEF c
  <1>9. /\ b.allocated[a] = books.allocated[a] + p.needed
        /\ \A x \in Accounts \ {a} : b.allocated[x] = books.allocated[x]
    BY <1>1, <1>2, <1>4, <1>6 DEF AtLeast0, IntBooks
  <1>10. /\ c.allocated[a] = books.allocated[a] + p.needed + p.extra
         /\ \A x \in Accounts \ {a} : c.allocated[x] = books.allocated[x]
    BY <1>1, <1>2, <1>3, <1>4, <1>5, <1>6, <1>8, <1>9 DEF AtLeast0, IntBooks
  <1>11. Open(c, a) = Open(books, a) + p.needed + p.extra
    BY <1>2, <1>3, <1>4, <1>6, <1>8, <1>10 DEF Open
  <1>12. /\ \A x \in Accounts \ {a} : c.used[x] = books.used[x] /\ c.reservedBy[x] = books.reservedBy[x]
         /\ c.reservedBy[a] \in Nat /\ Open(c, a) >= 0
    BY <1>2, <1>4, <1>6, <1>8, <1>11
  <1>13. /\ \A x \in Accounts : AccountOK(c, x)
         /\ \A x \in Accounts \ {a} : Open(c, x) = Open(books, x)
         /\ Taken(c) \in Int /\ Taken(books) \in Int
         /\ Taken(c) = Taken(books) + (c.period - books.period) + (c.reserved - books.reserved)
                       + (Open(c, a) - Open(books, a))
    BY <1>2, <1>7, <1>10, <1>12, BooksMove
  <1>14. Taken(c) = Taken(books) + p.needed + p.extra
    <2>1. c.period - books.period = 0 /\ c.reserved - books.reserved = 0
      BY <1>1, <1>5, <1>7 DEF IntBooks
    <2>. QED
      BY <2>1, <1>2, <1>4, <1>11, <1>13
  <1>15. ASSUME NEW e \in Admins, e # d
         PROVE  /\ plan'[e] \in GivePlans /\ PlanFits(c, need, plan'[e])
                /\ plan'[e].kind = plan[e].kind
    <2>1. S(e) \in SUBSET {"pool", "need"} /\ "pool" \in S(e)
      OBVIOUS
    <2>2. \/ "need" \in S(e)
          \/ \A x \in Accounts : x = plan[e].account
                                 => Open(c, x) \in Int /\ Open(books, x) \in Int
                                    /\ Open(c, x) <= Open(books, x) /\ need[x] = need[x]
      BY <1>13 DEF GiveInv, AccountOK
    <2>3. plan'[e] = Give!Marked(plan[e], S(e)) /\ plan[e] \in GivePlans
      BY <1>1, <1>15
    <2>. HIDE DEF S
    <2>4. /\ Give!Marked(plan[e], S(e)) \in GivePlans
          /\ PlanFits(c, need, Give!Marked(plan[e], S(e)))
          /\ Give!Marked(plan[e], S(e)).kind = plan[e].kind
      BY <2>1, <2>2, <2>3, <1>1, <1>7, <1>13, MarkedFits
    <2>. QED
      BY <2>3, <2>4
  <1>16. /\ plan'[d] = Give!NoPlan /\ Give!NoPlan \in GivePlans
         /\ Give!NoPlan.kind = "none" /\ PlanFits(c, need, Give!NoPlan)
    BY <1>1 DEF Give!NoPlan, GivePlans, PlanFits
  <1>. HIDE DEF S
  <1>17. GiveInv'
    <2>1. \A e \in Admins : plan'[e] \in GivePlans /\ PlanFits(c, need, plan'[e])
      BY <1>15, <1>16
    <2>2. plan' \in [Admins -> GivePlans]
      BY <2>1, <1>1
    <2>. QED
      BY <2>1, <2>2, <1>1, <1>7, <1>13 DEF GiveInv
  <1>18. ~Give!PoolOvercommits
    <2>. SUFFICES ASSUME Give!PoolOvercommits PROVE FALSE
      OBVIOUS
    <2>1. books' # books /\ Taken(c) > Pool /\ ~(Give!Gives(d) /\ "pool" \in p.stale)
      BY <1>1, <1>p DEF Give!PoolOvercommits, Give!Taken, Taken
    <2>2. Give!Gives(d)
      BY <2>1, <1>1, <1>16, <1>p DEF Give!Gives
    <2>. QED
      BY <2>1, <2>2, <1>2, <1>13, <1>14 DEF GiveConstants
  <1>19. ASSUME NEW e \in Admins, Give!GivesTooMuch(e) PROVE FALSE
    <2>1. e = d
      BY <1>15, <1>19 DEF Give!GivesTooMuch, Give!Gives
    <2>2. /\ p.needed > 0 /\ "need" \notin p.stale
          /\ Give!Remaining(c, a) > need[a] + p.extra
      BY <2>1, <1>19, <1>1, <1>p DEF Give!GivesTooMuch
    <2>3. Give!Remaining(c, a) = Open(c, a)
      BY <1>2, <1>13 DEF AccountOK, Give!Remaining, Give!AtLeast0, Open
    <2>. QED
      BY <2>2, <2>3, <1>2, <1>3, <1>4, <1>11
  <1>. QED
    BY <1>17, <1>18, <1>19 DEF GiveStep

(* A plan that the tenant's credits refuse is dropped. *)
LEMMA RefuseKeepsGive ==
  ASSUME GiveInv, NEW d \in Admins, Give!Refuse(d)
  PROVE  GiveInv' /\ GiveStep
  <1>1. Give!NoPlan \in GivePlans /\ PlanFits(books, need, Give!NoPlan)
    BY DEF Give!NoPlan, GivePlans, PlanFits
  <1>2. /\ books' = books /\ need' = need
        /\ plan' = [plan EXCEPT ![d] = Give!NoPlan] /\ plan \in [Admins -> GivePlans]
    BY DEF Give!Refuse, GiveInv
  <1>3. plan' \in [Admins -> GivePlans] /\ \A x \in Admins : plan'[x] \in {plan[x], Give!NoPlan}
    BY <1>1, <1>2
  <1>4. \A x \in Admins : PlanFits(books, need, plan'[x])
    BY <1>1, <1>3 DEF GiveInv
  <1>5. GiveInv'
    BY <1>2, <1>3, <1>4 DEF GiveInv, PlanFits, AccountOK, Open, Taken
  <1>6. ~Give!PoolOvercommits /\ \A x \in Admins : ~Give!Gives(x)
    BY <1>2 DEF Give!PoolOvercommits, Give!Gives
  <1>. QED
    BY <1>5, <1>6 DEF GiveStep, Give!GivesTooMuch

(* An administrator's run reserves in the pool: whoever is about to give   *)
(* is marked.                                                              *)
LEMMA RunKeepsGive ==
  ASSUME GiveConstants, GiveInv, NEW d \in Admins, NEW a \in Accounts, NEW n \in Extras,
         Give!AdminTriage(d, a, n)
  PROVE  GiveInv' /\ GiveStep
  <1>. DEFINE c == Reserve(books, a, n, FALSE)
              p == [kind |-> "run", account |-> a, needed |-> n, extra |-> 0, stale |-> {}]
              S == {"pool"}
  <1>1. /\ books \in IntBooks /\ need \in [Accounts -> Nat] /\ plan \in [Admins -> GivePlans]
        /\ \A x \in Accounts : AccountOK(books, x)
        /\ \A e \in Admins : PlanFits(books, need, plan[e])
        /\ n \in Nat
    BY DEF GiveInv, GiveConstants
  <1>2. /\ books' = c /\ need' = need /\ plan[d].kind = "none"
        /\ plan' = [e \in Admins |-> IF e = d THEN p ELSE Give!Marked(plan[e], S)]
    BY DEF Give!AdminTriage, Give!Reserve, Reserve
  <1>3. p \in GivePlans /\ p.kind = "run" /\ PlanFits(c, need, p)
    BY <1>1 DEF GivePlans, PlanFits
  <1>4. c \in IntBooks
    <2>1. FALSE \in BOOLEAN /\ n \in Int
      BY <1>1
    <2>. QED
      BY <2>1, <1>1, ReserveType, Zenon
  <1>5. /\ c.used = books.used /\ c.allocated = books.allocated
        /\ c.reservedBy = [books.reservedBy EXCEPT ![a] = @ + 0]
    BY <1>1 DEF Reserve, IntBooks
  <1>. HIDE DEF c, p, S
  <1>6. \A x \in Accounts : c.reservedBy[x] = books.reservedBy[x]
    BY <1>5, <1>1 DEF IntBooks
  <1>7. \A x \in Accounts : Open(c, x) = Open(books, x) /\ AccountOK(c, x)
    BY <1>1, <1>5, <1>6 DEF Open, AccountOK
  <1>8. Taken(c) \in Int /\ Taken(books) \in Int
    BY <1>1, <1>4, <1>7, OpenType
  <1>9. ASSUME NEW e \in Admins, e # d
        PROVE  /\ plan'[e] \in GivePlans /\ PlanFits(c, need, plan'[e])
               /\ plan'[e].kind = plan[e].kind
    <2>1. S \in SUBSET {"pool", "need"} /\ "pool" \in S
      BY DEF S
    <2>2. \A x \in Accounts : x = plan[e].account
                              => Open(c, x) \in Int /\ Open(books, x) \in Int
                                 /\ Open(c, x) <= Open(books, x) /\ need[x] = need[x]
      BY <1>1, <1>7 DEF AccountOK
    <2>3. plan'[e] = Give!Marked(plan[e], S) /\ plan[e] \in GivePlans
      BY <1>1, <1>2, <1>9
    <2>4. /\ Give!Marked(plan[e], S) \in GivePlans
          /\ PlanFits(c, need, Give!Marked(plan[e], S))
          /\ Give!Marked(plan[e], S).kind = plan[e].kind
      BY <2>1, <2>2, <2>3, <1>1, <1>4, <1>8, MarkedFits
    <2>. QED
      BY <2>3, <2>4
  <1>10. plan'[d] = p
    BY <1>2
  <1>11. GiveInv'
    <2>1. \A e \in Admins : plan'[e] \in GivePlans /\ PlanFits(c, need, plan'[e])
      BY <1>3, <1>9, <1>10
    <2>2. plan' \in [Admins -> GivePlans]
      BY <2>1, <1>2
    <2>. QED
      BY <2>1, <2>2, <1>1, <1>2, <1>4, <1>7 DEF GiveInv
  <1>12. Give!Runs(d)
    BY <1>2, <1>3, <1>10 DEF Give!Runs
  <1>13. ~Give!PoolOvercommits
    BY <1>12 DEF Give!PoolOvercommits
  <1>14. \A e \in Admins : ~Give!Gives(e)
    BY <1>2, <1>9, <1>12 DEF Give!Gives, Give!Runs
  <1>. QED
    BY <1>11, <1>13, <1>14 DEF GiveStep, Give!GivesTooMuch

(* Every step keeps the invariant, and is as the property has it. *)
LEMMA NextKeepsGive ==
  ASSUME GiveConstants, GiveInv, [Give!Next]_(Give!vars)
  PROVE  GiveInv' /\ (GiveStep \/ UNCHANGED giveVars)
  <1>1. CASE \E d \in Admins : \E a \in Give!Accounts : Give!GiveExtra(d, a) \/ Give!GiveNeeded(d, a)
    BY <1>1, PlanKeepsGive DEF Give!Accounts, Accounts, Give!Kinds, Kinds
  <1>2. CASE \E d \in Admins : \E a \in Give!Accounts, n \in Extras : Give!AdminTriage(d, a, n)
    BY <1>2, RunKeepsGive DEF Give!Accounts, Accounts, Give!Kinds, Kinds
  <1>3. CASE \E d \in Admins : Give!Give(d)
    BY <1>3, GiveKeepsGive
  <1>4. CASE \E d \in Admins : Give!Refuse(d)
    BY <1>4, RefuseKeepsGive
  <1>5. CASE \E d \in Admins : Give!Triaged(d) \/ Give!NotTriaged(d)
    BY <1>5, RunEndKeepsGive
  <1>6. CASE \E a \in Give!Accounts : Give!Hold(a) \/ Give!Spend(a) \/ Give!Reclaim(a)
    BY <1>6, ReportsKeepGive DEF Give!Accounts, Accounts, Give!Kinds, Kinds
  <1>7. CASE \E a \in Give!Accounts : Give!Fail(a) \/ Give!NeedChanges(a)
    BY <1>7, NeedMovedKeepsGive DEF Give!Accounts, Accounts, Give!Kinds, Kinds
  <1>8. CASE Give!NewMonth
    BY <1>8, MonthKeepsGive
  <1>9. CASE UNCHANGED Give!vars
    BY <1>9 DEF Give!vars, giveVars, GiveInv, AccountOK, PlanFits, Open, Taken
  <1>. QED
    BY <1>1, <1>2, <1>3, <1>4, <1>5, <1>6, <1>7, <1>8, <1>9 DEF Give!Next

(* "Everything given comes out of the credit pool, and never more than it   *)
(* has free", and a project gets no more than its findings need            *)
(* (server.js, credit-usage.js): for any projects, needs, amounts and       *)
(* administrators, whatever is spent, taken back and refused while a plan   *)
(* awaits the tenant's credits.  What goes beyond is an administrator's     *)
(* triage, or was decided before others gave, triaged or failed.            *)
THEOREM GivenIsFreeAndNeeded ==
  ASSUME GiveConstants
  PROVE  Give!Spec => GivesWhatItMay
  <1>1. Give!Init => GiveInv
    BY GiveInit
  <1>2. GiveInv /\ [Give!Next]_(Give!vars) => GiveInv'
    BY NextKeepsGive
  <1>3. GiveInv /\ [Give!Next]_(Give!vars)
        => [~Give!PoolOvercommits /\ \A d \in Admins : ~Give!GivesTooMuch(d)]_giveVars
    BY NextKeepsGive DEF GiveStep
  <1>. QED
    BY <1>1, <1>2, <1>3, PTL DEF Give!Spec, GivesWhatItMay

-----------------------------------------------------------------------------
(* The audit log and the ledger beside it (AuditTrail.tla).  That the chain *)
(* holds is not inductive.  flushSync() writes its entries one after the    *)
(* other, each where the one before it left the chain, so what it starts    *)
(* from has to be such that all of them can be written (Ready) and every    *)
(* write has to leave such a disk (Loop): some land behind half a line and  *)
(* are lost, the next then follow an entry that is not there, and which     *)
(* those are is what the history variables tell.  Between two calls the     *)
(* server knows the log by the size of its last file alone: that this and   *)
(* nothing else is enough to know where the chain ends, and whether it ends *)
(* in half a line, is what TrailInv adds (Remembers).                       *)
(*                                                                          *)
(* What is written is a recursive function, of which no instance of an      *)
(* induction theorem can be had here: that each of its values is what it    *)
(* says is proved by the least number for which it is not.                  *)

TrailConstants == Months \in Nat \ {0}

(* A set of numbers has a least one... *)
LEMMA LeastOf ==
  ASSUME NEW S \in SUBSET Nat, S # {}
  PROVE  \E x \in S : \A y \in S : x <= y
  <1>1. PICK x \in S : \A y \in S : ~(<<y, x>> \in OpToRel(<, Nat))
    BY NatLessThanWellFounded, WFMin
  <1>2. \A y \in S : ~(y < x)
    BY <1>1 DEF OpToRel
  <1>. QED
    BY <1>2

(* ...and a greatest one, when there is a limit. *)
LEMMA GreatestOf ==
  ASSUME NEW n \in Nat, NEW S \in SUBSET (0..n), S # {}
  PROVE  \E x \in S : \A y \in S : y <= x
  <1>. DEFINE T == {n - x : x \in S}
  <1>1. T \in SUBSET Nat /\ T # {}
    <2>1. \A x \in S : n - x \in Nat
      OBVIOUS
    <2>. QED
      BY <2>1
  <1>2. PICK t \in T : \A u \in T : t <= u
    <2>. HIDE DEF T
    <2>. QED
      BY <1>1, LeastOf
  <1>3. PICK x \in S : t = n - x
    OBVIOUS
  <1>4. \A y \in S : n - y \in T
    OBVIOUS
  <1>5. \A y \in S : n - x <= n - y
    BY <1>2, <1>3, <1>4
  <1>. QED
    BY <1>5

(* What is written, one entry after the other. *)
LEMMA WrittenIs ==
  ASSUME NEW d, NEW es, Len(es) \in Nat
  PROVE  /\ Trail!Written(d, es, 0) = d
         /\ \A k \in 0..Len(es) - 1 :
              Trail!Written(d, es, k + 1) = Trail!Put(Trail!Written(d, es, k), es[k + 1])
  <1>. DEFINE n == Len(es)
              Step(f, i) == IF i = 0 THEN d ELSE Trail!Put(f[i - 1], es[i])
              After(f, m) == f = [i \in 0..m |-> Step(f, i)]
              B == {m \in 0..n : ~\E f : After(f, m)}
  <1>1. B = {}
    <2>. SUFFICES ASSUME B # {} PROVE FALSE
      OBVIOUS
    <2>1. PICK m \in B : \A o \in B : m <= o
      <3>1. B \in SUBSET Nat
        OBVIOUS
      <3>. HIDE DEF B
      <3>. QED
        BY <3>1, LeastOf
    <2>2. m # 0
      <3>. DEFINE f == [i \in 0..0 |-> d]
      <3>1. f = [i \in 0..0 |-> Step(f, i)]
        OBVIOUS
      <3>. QED
        BY <3>1
    <2>3. PICK f : After(f, m - 1)
      BY <2>1, <2>2
    <2>. DEFINE g == [i \in 0..m |-> IF i = m THEN Trail!Put(f[m - 1], es[m]) ELSE f[i]]
    <2>4. After(g, m)
      <3>1. \A i \in 0..m - 1 : f[i] = Step(f, i)
        BY <2>3
      <3>2. ASSUME NEW i \in 0..m PROVE g[i] = Step(g, i)
        <4>1. CASE i = m
          BY <4>1, <2>2, <2>1
        <4>2. CASE i # m
          <5>1. g[i] = Step(f, i)
            BY <4>2, <3>1, <2>1
          <5>2. i # 0 => g[i - 1] = f[i - 1]
            BY <4>2, <2>1
          <5>. QED
            BY <5>1, <5>2
        <4>. QED
          BY <4>1, <4>2
      <3>. QED
        BY <3>2
    <2>. QED
      BY <2>1, <2>4
  <1>2. \E f : After(f, n)
    BY <1>1
  <1>. DEFINE w == CHOOSE f : After(f, n)
  <1>3. After(w, n)
    BY <1>2
  <1>4. \A k : Trail!Written(d, es, k) = w[k]
    BY DEF Trail!Written
  <1>. HIDE DEF w
  <1>5. \A i \in 0..n : w[i] = Step(w, i)
    BY <1>3
  <1>6. w[0] = d
    BY <1>5
  <1>7. \A k \in 0..n - 1 : w[k + 1] = Trail!Put(w[k], es[k + 1])
    <2>. TAKE k \in 0..n - 1
    <2>1. k + 1 \in 0..n /\ k + 1 # 0 /\ (k + 1) - 1 = k
      OBVIOUS
    <2>. QED
      BY <1>5, <2>1
  <1>. HIDE DEF Step
  <1>. QED
    BY <1>4, <1>6, <1>7

-----------------------------------------------------------------------------
(* Month files, with entries where they belong.                            *)
Entry == [id : Nat \ {0}, seq : Nat, prev : Nat, at : 1..Months, charge : BOOLEAN]
Line == Entry \cup {Trail!Unreadable}
File == [lines : Seq(Line), torn : BOOLEAN]

Disk(d) ==
  /\ d \in [1..Months -> File]
  /\ \A m \in 1..Months : \A i \in DOMAIN d[m].lines :
       d[m].lines[i] \in Entry => d[m].lines[i].at = m

(* The place of an entry, spelled out. *)
LEMMA PlaceIs ==
  ASSUME NEW d, Disk(d), NEW p
  PROVE  p \in Trail!Entries(d) <=>
           /\ p = <<p[1], p[2]>> /\ p[1] \in 1..Months /\ p[2] \in 1..Len(d[p[1]].lines)
           /\ d[p[1]].lines[p[2]] \in Entry
  <1>1. ASSUME NEW m \in 1..Months, NEW i \in DOMAIN d[m].lines
        PROVE  Trail!IsEntry(d[m].lines[i]) <=> d[m].lines[i] \in Entry
    <2>1. d[m].lines[i] \in Line
      BY DEF Disk, File
    <2>. QED
      BY <2>1 DEF Line, Entry, Trail!Unreadable, Trail!IsEntry
  <1>2. \A m \in 1..Months : DOMAIN d[m].lines = 1..Len(d[m].lines)
    BY DEF Disk, File
  <1>3. p \in Trail!Entries(d) <=>
          \E m \in 1..Months : p \in {m} \X {i \in DOMAIN d[m].lines : Trail!IsEntry(d[m].lines[i])}
    BY DEF Trail!Entries
  <1>. QED
    BY <1>1, <1>2, <1>3

(* What a place is, and its entry. *)
LEMMA EntryAt ==
  ASSUME TrailConstants, NEW d, Disk(d), NEW p \in Trail!Entries(d)
  PROVE  /\ p[1] \in 1..Months /\ p[2] \in Nat \ {0} /\ p = <<p[1], p[2]>> /\ p # Trail!Origin
         /\ Trail!LineAt(d, p) = d[p[1]].lines[p[2]]
         /\ Trail!LineAt(d, p) \in Entry /\ Trail!LineAt(d, p).at = p[1]
  <1>1. /\ p = <<p[1], p[2]>> /\ p[1] \in 1..Months /\ p[2] \in 1..Len(d[p[1]].lines)
        /\ d[p[1]].lines[p[2]] \in Entry
    BY PlaceIs
  <1>2. Len(d[p[1]].lines) \in Nat /\ DOMAIN d[p[1]].lines = 1..Len(d[p[1]].lines)
    BY <1>1 DEF Disk, File
  <1>3. p # Trail!Origin
    BY <1>1 DEF Trail!Origin
  <1>. QED
    BY <1>1, <1>2, <1>3 DEF Trail!LineAt, Disk

(* Places are in a line, the origin before all. *)
LEMMA PlacesOrdered ==
  ASSUME TrailConstants, NEW d, Disk(d), NEW p \in Trail!Places(d), NEW q \in Trail!Places(d)
  PROVE  /\ p[1] \in Nat /\ p[2] \in Nat
         /\ p = q \/ Trail!Comes(p, q) \/ Trail!Comes(q, p)
         /\ ~(Trail!Comes(p, q) /\ Trail!Comes(q, p)) /\ ~Trail!Comes(p, p)
         /\ p # Trail!Origin => Trail!Comes(Trail!Origin, p)
  <1>1. ASSUME NEW r \in Trail!Places(d)
        PROVE  r[1] \in Nat /\ r[2] \in Nat /\ r = <<r[1], r[2]>> /\ (r # Trail!Origin => r[1] > 0)
    BY EntryAt DEF Trail!Places, Trail!Origin, TrailConstants
  <1>. QED
    BY <1>1 DEF Trail!Comes, Trail!Origin

(* The chain ends at the one place that is behind all others. *)
EndPlace(d, p) ==
  /\ p \in Trail!Places(d)
  /\ \A q \in Trail!Places(d) : q = p \/ Trail!Comes(q, p)

(* There is such a place... *)
LEMMA HasEnd ==
  ASSUME TrailConstants, NEW d, Disk(d)
  PROVE  \E p : EndPlace(d, p)
  <1>1. CASE Trail!Entries(d) = {}
    BY <1>1 DEF EndPlace, Trail!Places
  <1>2. CASE Trail!Entries(d) # {}
    <2>. DEFINE M == {p[1] : p \in Trail!Entries(d)}
    <2>1. M \in SUBSET (0..Months) /\ M # {}
      BY <1>2, EntryAt DEF TrailConstants
    <2>2. PICK m \in M : \A n \in M : n <= m
      <3>. HIDE DEF M
      <3>. QED
        BY <2>1, GreatestOf DEF TrailConstants
    <2>. DEFINE l == Len(d[m].lines)
                I == {i \in 0..l : <<m, i>> \in Trail!Entries(d)}
    <2>3. m \in 1..Months /\ l \in Nat
      <3>1. m \in 1..Months
        BY <2>2, EntryAt
      <3>2. d[m] \in File
        BY <3>1 DEF Disk
      <3>. QED
        BY <3>1, <3>2 DEF File
    <2>4. I # {}
      <3>1. PICK p \in Trail!Entries(d) : p[1] = m
        BY <2>2
      <3>2. p = <<m, p[2]>> /\ p[2] \in 0..l
        BY <3>1, <2>3, PlaceIs
      <3>. QED
        BY <3>1, <3>2
    <2>5. PICK i \in I : \A j \in I : j <= i
      <3>1. I \in SUBSET (0..l)
        OBVIOUS
      <3>. HIDE DEF I, l
      <3>. QED
        BY <2>3, <2>4, <3>1, GreatestOf
    <2>6. EndPlace(d, <<m, i>>)
      <3>1. <<m, i>> \in Trail!Places(d)
        BY <2>5 DEF Trail!Places
      <3>. SUFFICES ASSUME NEW q \in Trail!Entries(d) PROVE q = <<m, i>> \/ Trail!Comes(q, <<m, i>>)
        BY <3>1, PlacesOrdered DEF EndPlace, Trail!Places
      <3>2. q[1] \in Nat /\ q[2] \in Nat /\ q = <<q[1], q[2]>> /\ q[1] <= m
        BY <2>2, EntryAt
      <3>3. q[1] = m => q[2] \in I
        BY <3>2, PlaceIs, <2>3
      <3>4. q[1] = m => q[2] <= i
        BY <3>3, <2>5
      <3>. QED
        BY <3>2, <3>4, <2>3, <2>5 DEF Trail!Comes
    <2>. QED
      BY <2>6
  <1>. QED
    BY <1>1, <1>2

(* ...and the chain ends with its entry. *)
LEMMA ChainEndIs ==
  ASSUME TrailConstants, NEW d, Disk(d), NEW p, EndPlace(d, p)
  PROVE  Trail!ChainEnd(d) = Trail!LineAt(d, p)
  <1>. DEFINE e == CHOOSE r \in Trail!Places(d) : \A q \in Trail!Places(d) : q = r \/ Trail!Comes(q, r)
  <1>1. e \in Trail!Places(d) /\ \A q \in Trail!Places(d) : q = e \/ Trail!Comes(q, e)
    BY DEF EndPlace
  <1>2. e = p
    BY <1>1, PlacesOrdered DEF EndPlace
  <1>. QED
    BY <1>2 DEF Trail!ChainEnd

-----------------------------------------------------------------------------
(* What is read of two disks is the same...                                *)
SameLog(d, w) ==
  /\ Disk(w)
  /\ Trail!Entries(w) = Trail!Entries(d)
  /\ \A p \in Trail!Entries(d) : Trail!LineAt(w, p) = Trail!LineAt(d, p)

(* ...or one has an entry more, the last of its month.                     *)
Added(d, w, e) ==
  /\ Disk(w)
  /\ \E n : /\ n \notin Trail!Entries(d) /\ n[1] = e.at /\ Trail!LineAt(w, n) = e
            /\ Trail!Entries(w) = Trail!Entries(d) \cup {n}
            /\ \A p \in Trail!Entries(d) :
                 /\ Trail!LineAt(w, p) = Trail!LineAt(d, p)
                 /\ p[1] <= e.at => Trail!Comes(p, n)

NotShorter(d, w) == \A m \in 1..Months : Trail!Size(d[m]) <= Trail!Size(w[m])

(* Only the empty file has no size. *)
LEMMA SizeIs ==
  ASSUME NEW f \in File
  PROVE  /\ Trail!Size(f) \in Nat /\ Trail!Size(Trail!Empty) = 0
         /\ Trail!Size(f) = 0 <=> f = Trail!Empty
  BY DEF File, Trail!Size, Trail!Empty

(* One line more. *)
LEMMA OneMore ==
  ASSUME NEW s \in Seq(Line), NEW x \in Line
  PROVE  /\ Append(s, x) \in Seq(Line) /\ Len(s) \in Nat /\ Len(Append(s, x)) = Len(s) + 1
         /\ DOMAIN s = 1..Len(s) /\ DOMAIN Append(s, x) = 1..(Len(s) + 1)
         /\ \A i \in 1..Len(s) : Append(s, x)[i] = s[i]
         /\ Append(s, x)[Len(s) + 1] = x
  OBVIOUS

(* A line that nobody can read is no entry. *)
LEMMA AlikeSameLog ==
  ASSUME TrailConstants, NEW d, Disk(d), NEW w \in [1..Months -> File],
         \A m \in 1..Months : \/ w[m].lines = d[m].lines
                              \/ w[m].lines = Append(d[m].lines, Trail!Unreadable)
  PROVE  SameLog(d, w)
  <1>1. Trail!Unreadable \notin Entry /\ Trail!Unreadable \in Line
    BY DEF Trail!Unreadable, Entry, Line
  <1>2. \A m \in 1..Months : d[m].lines \in Seq(Line) /\ w[m].lines \in Seq(Line)
    BY DEF Disk, File
  <1>3. ASSUME NEW m \in 1..Months
        PROVE  /\ \A i \in DOMAIN d[m].lines : i \in DOMAIN w[m].lines /\ w[m].lines[i] = d[m].lines[i]
               /\ \A i \in DOMAIN w[m].lines : w[m].lines[i] \in Entry => i \in DOMAIN d[m].lines
    <2>1. CASE w[m].lines = d[m].lines
      BY <2>1
    <2>2. CASE w[m].lines = Append(d[m].lines, Trail!Unreadable)
      <3>. DEFINE s == d[m].lines
      <3>1. s \in Seq(Line)
        BY <1>2
      <3>. HIDE DEF s
      <3>2. /\ DOMAIN s = 1..Len(s) /\ DOMAIN w[m].lines = 1..(Len(s) + 1) /\ Len(s) \in Nat
            /\ \A i \in 1..Len(s) : w[m].lines[i] = s[i]
            /\ w[m].lines[Len(s) + 1] = Trail!Unreadable
        BY <1>1, <2>2, <3>1, OneMore DEF s
      <3>3. \A i \in 1..(Len(s) + 1) : i \in 1..Len(s) \/ i = Len(s) + 1
        BY <3>2
      <3>. QED
        BY <1>1, <3>2, <3>3 DEF s
    <2>. QED
      BY <2>1, <2>2
  <1>4. Disk(w)
    BY <1>3 DEF Disk
  <1>5. \A m \in 1..Months : DOMAIN d[m].lines = 1..Len(d[m].lines) /\ DOMAIN w[m].lines = 1..Len(w[m].lines)
    BY <1>2
  <1>6. \A p : p \in Trail!Entries(w) <=> p \in Trail!Entries(d)
    <2>. TAKE p
    <2>1. p \in Trail!Entries(d) <=>
            /\ p = <<p[1], p[2]>> /\ p[1] \in 1..Months /\ p[2] \in 1..Len(d[p[1]].lines)
            /\ d[p[1]].lines[p[2]] \in Entry
      BY PlaceIs
    <2>2. p \in Trail!Entries(w) <=>
            /\ p = <<p[1], p[2]>> /\ p[1] \in 1..Months /\ p[2] \in 1..Len(w[p[1]].lines)
            /\ w[p[1]].lines[p[2]] \in Entry
      BY <1>4, PlaceIs
    <2>. QED
      BY <1>3, <1>5, <2>1, <2>2
  <1>7. ASSUME NEW p \in Trail!Entries(d) PROVE Trail!LineAt(w, p) = Trail!LineAt(d, p)
    <2>1. p[1] \in 1..Months /\ p[2] \in DOMAIN d[p[1]].lines /\ p \in Trail!Entries(w)
      BY <1>5, <1>6, PlaceIs
    <2>2. w[p[1]].lines[p[2]] = d[p[1]].lines[p[2]]
      BY <1>3, <2>1
    <2>3. Trail!LineAt(d, p) = d[p[1]].lines[p[2]]
      BY EntryAt
    <2>4. Trail!LineAt(w, p) = w[p[1]].lines[p[2]]
      BY <1>4, <2>1, EntryAt
    <2>. QED
      BY <2>2, <2>3, <2>4
  <1>. QED
    BY <1>4, <1>6, <1>7 DEF SameLog

(* Ending half a line makes the file grow, and spoils no entry. *)
LEMMA WholeIs ==
  ASSUME NEW f \in File
  PROVE  /\ Trail!Whole(f) \in File /\ ~Trail!Whole(f).torn
         /\ Trail!Size(f) <= Trail!Size(Trail!Whole(f)) /\ (f.torn => Trail!Size(f) < Trail!Size(Trail!Whole(f)))
         /\ Trail!Whole(f).lines = f.lines \/ Trail!Whole(f).lines = Append(f.lines, Trail!Unreadable)
         /\ f = Trail!Empty => Trail!Whole(f) = f
  <1>1. Trail!Unreadable \in Line
    BY DEF Line
  <1>2. f.lines \in Seq(Line) /\ f.torn \in BOOLEAN
    BY DEF File
  <1>3. CASE f.torn
    <2>. DEFINE s == Append(f.lines, Trail!Unreadable)
    <2>1. Trail!Whole(f) = [lines |-> s, torn |-> FALSE]
      BY <1>3 DEF Trail!Whole
    <2>2. s \in Seq(Line) /\ Len(s) = Len(f.lines) + 1 /\ Len(f.lines) \in Nat
      BY <1>1, <1>2, OneMore
    <2>. HIDE DEF s
    <2>3. Trail!Whole(f) \in File /\ ~Trail!Whole(f).torn /\ Trail!Whole(f).lines = s
      BY <2>1, <2>2 DEF File
    <2>4. Trail!Size(f) < Trail!Size(Trail!Whole(f)) /\ Trail!Size(f) \in Nat /\ Trail!Size(Trail!Whole(f)) \in Nat
      BY <1>3, <2>2, <2>3 DEF Trail!Size
    <2>. QED
      BY <1>3, <2>3, <2>4 DEF s, Trail!Empty
  <1>4. CASE ~f.torn
    BY <1>2, <1>4, SizeIs DEF Trail!Whole
  <1>. QED
    BY <1>2, <1>3, <1>4

(* An entry is written to a file that ends in a whole line, and is lost    *)
(* behind half a line.                                                     *)
LEMMA PutIs ==
  ASSUME TrailConstants, NEW d, Disk(d), NEW e \in Entry
  PROVE  /\ IF d[e.at].torn THEN SameLog(d, Trail!Put(d, e)) ELSE Added(d, Trail!Put(d, e), e)
         /\ NotShorter(d, Trail!Put(d, e)) /\ Trail!Size(d[e.at]) < Trail!Size(Trail!Put(d, e)[e.at])
         /\ ~Trail!Put(d, e)[e.at].torn
         /\ \A m \in 1..Months \ {e.at} : Trail!Put(d, e)[m] = d[m]
  <1>. DEFINE w == Trail!Put(d, e)
              a == e.at
  <1>1. a \in 1..Months /\ d[a] \in File /\ \A m \in 1..Months : d[m] \in File
    BY DEF Entry, Disk
  <1>2. /\ w[a] = IF d[a].torn THEN Trail!Whole(d[a]) ELSE [lines |-> Append(d[a].lines, e), torn |-> FALSE]
        /\ DOMAIN w = 1..Months /\ \A m \in 1..Months \ {a} : w[m] = d[m]
    <2>. DEFINE x == IF d[a].torn THEN Trail!Whole(d[a]) ELSE [lines |-> Append(d[a].lines, e), torn |-> FALSE]
    <2>1. d \in [1..Months -> File]
      BY DEF Disk
    <2>2. w = [d EXCEPT ![a] = x]
      BY DEF Trail!Put
    <2>. HIDE DEF x, w
    <2>3. w[a] = x /\ DOMAIN w = 1..Months /\ \A m \in 1..Months \ {a} : w[m] = d[m]
      BY <1>1, <2>1, <2>2
    <2>. QED
      BY <2>3 DEF x
  <1>3. w[a] \in File => w \in [1..Months -> File]
    <2>1. w = [m \in 1..Months |-> w[m]]
      BY DEF Trail!Put, Disk
    <2>. QED
      BY <1>1, <1>2, <2>1
  <1>. HIDE DEF w
  <1>4. CASE d[a].torn
    <2>1. /\ w[a] = Trail!Whole(d[a]) /\ w[a] \in File /\ ~w[a].torn
          /\ Trail!Size(d[a]) < Trail!Size(w[a])
          /\ w[a].lines = d[a].lines \/ w[a].lines = Append(d[a].lines, Trail!Unreadable)
      BY <1>1, <1>2, <1>4, WholeIs
    <2>2. SameLog(d, w)
      <3>1. \A m \in 1..Months : \/ w[m].lines = d[m].lines
                                 \/ w[m].lines = Append(d[m].lines, Trail!Unreadable)
        BY <1>2, <2>1
      <3>. QED
        BY <1>3, <2>1, <3>1, AlikeSameLog
    <2>3. NotShorter(d, w)
      BY <1>1, <1>2, <2>1, SizeIs DEF NotShorter
    <2>. QED
      BY <1>2, <1>4, <2>1, <2>2, <2>3 DEF w
  <1>5. CASE ~d[a].torn
    <2>. DEFINE l == Len(d[a].lines)
                n == <<a, l + 1>>
    <2>1. w[a] = [lines |-> Append(d[a].lines, e), torn |-> FALSE]
      BY <1>2, <1>5
    <2>2. d[a].lines \in Seq(Line) /\ e \in Line
      BY <1>1 DEF File, Line
    <2>3. /\ l \in Nat /\ Append(d[a].lines, e) \in Seq(Line) /\ Len(Append(d[a].lines, e)) = l + 1
          /\ DOMAIN Append(d[a].lines, e) = 1..(l + 1) /\ DOMAIN d[a].lines = 1..l
          /\ Append(d[a].lines, e)[l + 1] = e
          /\ \A i \in 1..l : Append(d[a].lines, e)[i] = d[a].lines[i]
      BY <2>2, OneMore
    <2>4. w[a].lines = Append(d[a].lines, e) /\ ~w[a].torn /\ w[a] \in File
      BY <1>1, <1>5, <2>1, <2>3 DEF File
    <2>. HIDE DEF l
    <2>5. /\ DOMAIN w[a].lines = 1..(l + 1) /\ DOMAIN d[a].lines = 1..l /\ w[a].lines[l + 1] = e
          /\ \A i \in 1..l : w[a].lines[i] = d[a].lines[i]
          /\ Len(w[a].lines) = l + 1 /\ Len(d[a].lines) = l
      BY <2>3, <2>4 DEF l
    <2>6. Trail!Size(d[a]) < Trail!Size(w[a])
      BY <1>5, <2>3, <2>4, <2>5 DEF Trail!Size
    <2>7. NotShorter(d, w)
      BY <1>1, <1>2, <2>4, <2>6, SizeIs DEF NotShorter
    <2>8. Disk(w)
      <3>1. \A i \in 1..(l + 1) : i \in 1..l \/ i = l + 1
        BY <2>3
      <3>2. \A i \in DOMAIN w[a].lines : w[a].lines[i] \in Entry => w[a].lines[i].at = a
        BY <1>1, <2>5, <3>1 DEF Disk
      <3>. QED
        BY <1>1, <1>2, <1>3, <2>4, <3>2 DEF Disk
    <2>9. \A p : p \in Trail!Entries(w) <=> p \in Trail!Entries(d) \cup {n}
      <3>. TAKE p
      <3>1. p \in Trail!Entries(d) <=>
              /\ p = <<p[1], p[2]>> /\ p[1] \in 1..Months /\ p[2] \in 1..Len(d[p[1]].lines)
              /\ d[p[1]].lines[p[2]] \in Entry
        BY PlaceIs
      <3>2. p \in Trail!Entries(w) <=>
              /\ p = <<p[1], p[2]>> /\ p[1] \in 1..Months /\ p[2] \in 1..Len(w[p[1]].lines)
              /\ w[p[1]].lines[p[2]] \in Entry
        BY <2>8, PlaceIs
      <3>3. CASE p[1] # a
        BY <1>2, <3>1, <3>2, <3>3
      <3>4. CASE p[1] = a
        <4>1. \A i : i \in 1..(l + 1) <=> i \in 1..l \/ i = l + 1
          BY <2>3
        <4>2. p \in Trail!Entries(w) <=>
                p = <<a, p[2]>> /\ (p[2] \in 1..l \/ p[2] = l + 1) /\ w[a].lines[p[2]] \in Entry
          BY <1>1, <2>5, <3>2, <3>4, <4>1
        <4>3. p \in Trail!Entries(d) <=> p = <<a, p[2]>> /\ p[2] \in 1..l /\ d[a].lines[p[2]] \in Entry
          BY <1>1, <2>5, <3>1, <3>4
        <4>. QED
          BY <2>5, <3>4, <4>2, <4>3
      <3>. QED
        BY <3>3, <3>4
    <2>10. n \notin Trail!Entries(d)
      <3>1. n[2] \notin 1..l /\ n[1] = a
        BY <2>3
      <3>2. n \in Trail!Entries(d) => n[2] \in 1..Len(d[n[1]].lines)
        BY PlaceIs
      <3>. QED
        BY <2>5, <3>1, <3>2
    <2>11. Trail!LineAt(w, n) = e
      <3>1. Trail!LineAt(w, n) = w[n[1]].lines[n[2]]
        BY <2>8, <2>9, EntryAt
      <3>. QED
        BY <2>5, <3>1
    <2>12. ASSUME NEW p \in Trail!Entries(d)
           PROVE  Trail!LineAt(w, p) = Trail!LineAt(d, p) /\ (p[1] <= a => Trail!Comes(p, n))
      <3>1. p[1] \in 1..Months /\ p[2] \in 1..Len(d[p[1]].lines) /\ p \in Trail!Entries(w)
        BY <2>9, PlaceIs
      <3>2. Trail!LineAt(d, p) = d[p[1]].lines[p[2]]
        BY EntryAt
      <3>3. Trail!LineAt(w, p) = w[p[1]].lines[p[2]]
        BY <2>8, <3>1, EntryAt
      <3>4. d[p[1]].lines[p[2]] = w[p[1]].lines[p[2]]
        <4>1. CASE p[1] = a
          <5>1. p[2] \in 1..l /\ w[p[1]] = w[a] /\ d[p[1]] = d[a]
            BY <2>5, <3>1, <4>1
          <5>. HIDE DEF a
          <5>. QED
            BY <2>5, <5>1
        <4>2. CASE p[1] # a
          BY <1>2, <3>1, <4>2
        <4>. QED
          BY <4>1, <4>2
      <3>5. p[1] <= a => p[1] < a \/ (p[1] = a /\ p[2] < l + 1)
        BY <1>1, <2>3, <2>5, <3>1 DEF TrailConstants
      <3>. QED
        BY <3>2, <3>3, <3>4, <3>5 DEF Trail!Comes
    <2>13. Added(d, w, e)
      <3>1. n[1] = e.at
        OBVIOUS
      <3>2. Trail!Entries(w) = Trail!Entries(d) \cup {n}
        BY <2>9
      <3>. HIDE DEF n
      <3>. QED
        BY <2>8, <2>10, <2>11, <2>12, <3>1, <3>2 DEF Added
    <2>. QED
      BY <1>2, <1>5, <2>4, <2>6, <2>7, <2>13 DEF w
  <1>. QED
    BY <1>4, <1>5

(* Half a line is no entry. *)
LEMMA HalfIs ==
  ASSUME TrailConstants, NEW d, Disk(d), NEW e \in Entry, NEW w \in Trail!Failed(d, e)
  PROVE  /\ SameLog(d, w) /\ NotShorter(d, w)
         /\ \A m \in 1..Months \ {e.at} : w[m] = d[m]
         /\ w # d /\ ~d[e.at].torn => Trail!Size(d[e.at]) < Trail!Size(w[e.at])
  <1>. DEFINE a == e.at
              h == [d EXCEPT ![a] = [lines |-> @.lines, torn |-> TRUE]]
  <1>1. a \in 1..Months /\ \A m \in 1..Months : d[m] \in File
    BY DEF Entry, Disk
  <1>2. w = d \/ w = h
    BY DEF Trail!Failed
  <1>3. /\ h \in [1..Months -> File] /\ h[a].lines = d[a].lines /\ h[a].torn
        /\ \A m \in 1..Months \ {a} : h[m] = d[m]
    <2>1. d \in [1..Months -> File]
      BY DEF Disk
    <2>2. h = [d EXCEPT ![a] = [lines |-> d[a].lines, torn |-> TRUE]]
      OBVIOUS
    <2>3. [lines |-> d[a].lines, torn |-> TRUE] \in File
      BY <1>1 DEF File
    <2>. HIDE DEF h
    <2>. QED
      BY <1>1, <2>1, <2>2, <2>3
  <1>. HIDE DEF h
  <1>4. SameLog(d, d) /\ SameLog(d, h)
    <2>1. d \in [1..Months -> File]
      BY DEF Disk
    <2>. QED
      BY <1>1, <1>3, <2>1, AlikeSameLog
  <1>5. Trail!Size(d[a]) <= Trail!Size(h[a]) /\ (~d[a].torn => Trail!Size(d[a]) < Trail!Size(h[a]))
    <2>1. Len(d[a].lines) \in Nat /\ d[a].torn \in BOOLEAN
      BY <1>1 DEF File
    <2>2. Trail!Size(h[a]) = 2 * Len(d[a].lines) + 1
      BY <1>3 DEF Trail!Size
    <2>3. Trail!Size(d[a]) = 2 * Len(d[a].lines) + (IF d[a].torn THEN 1 ELSE 0)
      BY DEF Trail!Size
    <2>4. CASE d[a].torn
      BY <2>1, <2>2, <2>3, <2>4
    <2>5. CASE ~d[a].torn
      BY <2>1, <2>2, <2>3, <2>5
    <2>. QED
      BY <2>4, <2>5
  <1>6. NotShorter(d, d) /\ NotShorter(d, h)
    BY <1>1, <1>3, <1>5, SizeIs DEF NotShorter
  <1>. QED
    BY <1>2, <1>3, <1>4, <1>5, <1>6

(* Reading on, a command or the server ends half a line behind the last    *)
(* entry.                                                                  *)
LEMMA ResumedIs ==
  ASSUME TrailConstants, NEW d, Disk(d)
  PROVE  /\ SameLog(d, Trail!Resumed(d)) /\ NotShorter(d, Trail!Resumed(d))
         /\ \A m \in 1..Months :
              /\ (\A p \in Trail!Entries(d) : p[1] <= m) => ~Trail!Resumed(d)[m].torn
              /\ d[m] = Trail!Empty => Trail!Resumed(d)[m] = Trail!Empty
  <1>. DEFINE w == Trail!Resumed(d)
  <1>1. \A m \in 1..Months : d[m] \in File
    BY DEF Disk
  <1>2. \A m \in 1..Months :
          w[m] = IF \A p \in Trail!Entries(d) : p[1] <= m THEN Trail!Whole(d[m]) ELSE d[m]
    BY DEF Trail!Resumed
  <1>3. w \in [1..Months -> File]
    <2>1. w = [m \in 1..Months |-> w[m]]
      BY DEF Trail!Resumed
    <2>2. \A m \in 1..Months : w[m] \in File
      BY <1>1, <1>2, WholeIs
    <2>. HIDE DEF w
    <2>. QED
      BY <2>1, <2>2
  <1>. HIDE DEF w
  <1>4. \A m \in 1..Months : \/ w[m].lines = d[m].lines
                             \/ w[m].lines = Append(d[m].lines, Trail!Unreadable)
    BY <1>1, <1>2, WholeIs
  <1>5. SameLog(d, w)
    BY <1>3, <1>4, AlikeSameLog
  <1>6. NotShorter(d, w)
    BY <1>1, <1>2, WholeIs, SizeIs DEF NotShorter
  <1>7. \A m \in 1..Months :
          /\ (\A p \in Trail!Entries(d) : p[1] <= m) => ~w[m].torn
          /\ d[m] = Trail!Empty => w[m] = Trail!Empty
    BY <1>1, <1>2, WholeIs
  <1>. QED
    BY <1>5, <1>6, <1>7 DEF w

-----------------------------------------------------------------------------
(* The chain, but for what is excused: the entries of f, and those that    *)
(* follow one of f or c.                                                   *)
Excused(e, f, c) == e.id \in f \/ e.prev \in f \cup c

NextTo(d, p, q) ==
  /\ Trail!Comes(p, q)
  /\ \A r \in Trail!Places(d) : ~(Trail!Comes(p, r) /\ Trail!Comes(r, q))

InOrder(d, f, c) ==
  \A p, q \in Trail!Places(d) : NextTo(d, p, q) =>
    \/ Trail!Follows(Trail!LineAt(d, q), Trail!LineAt(d, p))
    \/ Excused(Trail!LineAt(d, q), f, c)

(* An entry that may come next. *)
Linked(d, e, f, c) == Trail!Follows(e, Trail!ChainEnd(d)) \/ Excused(e, f, c)

(* This is what verify() finds (AuditTrail.tla). *)
LEMMA InOrderIsChainHolds == Trail!ChainHolds <=> InOrder(disk, forked, cut)
  BY DEF Trail!ChainHolds, InOrder, NextTo, Excused

(* Two disks that read the same end alike, and one is in order if the other is. *)
LEMMA SameLogSame ==
  ASSUME TrailConstants, NEW d, NEW w, Disk(d), SameLog(d, w)
  PROVE  /\ Trail!ChainEnd(w) = Trail!ChainEnd(d) /\ Trail!Logged(w) = Trail!Logged(d)
         /\ \A f, c : InOrder(d, f, c) => InOrder(w, f, c)
         /\ \A e, f, c : Linked(d, e, f, c) => Linked(w, e, f, c)
  <1>1. Trail!Places(w) = Trail!Places(d) /\ \A p \in Trail!Places(d) : Trail!LineAt(w, p) = Trail!LineAt(d, p)
    BY DEF SameLog, Trail!Places, Trail!LineAt
  <1>2. Trail!ChainEnd(w) = Trail!ChainEnd(d)
    <2>1. PICK p : EndPlace(d, p)
      BY HasEnd
    <2>2. EndPlace(w, p) /\ p \in Trail!Places(d)
      BY <1>1, <2>1 DEF EndPlace
    <2>3. Trail!ChainEnd(d) = Trail!LineAt(d, p)
      BY <2>1, ChainEndIs
    <2>4. Trail!ChainEnd(w) = Trail!LineAt(w, p)
      BY <2>2, ChainEndIs DEF SameLog
    <2>. QED
      BY <1>1, <2>2, <2>3, <2>4
  <1>3. Trail!Logged(w) = Trail!Logged(d)
    BY DEF SameLog, Trail!Logged
  <1>4. \A f, c : InOrder(d, f, c) => InOrder(w, f, c)
    BY <1>1 DEF InOrder, NextTo
  <1>. QED
    BY <1>2, <1>3, <1>4 DEF Linked

(* More may be excused. *)
LEMMA ExcusedMore ==
  ASSUME NEW f, NEW g, NEW c, NEW b, f \subseteq g, c \subseteq b
  PROVE  /\ \A d : InOrder(d, f, c) => InOrder(d, g, b)
         /\ \A d, e : Linked(d, e, f, c) => Linked(d, e, g, b)
  <1>1. \A e : Excused(e, f, c) => Excused(e, g, b)
    BY DEF Excused
  <1>. QED
    BY <1>1 DEF InOrder, Linked

(* An entry that may come next comes next, unless there are entries of     *)
(* later months: then it and they are excused.                             *)
LEMMA AddedKeeps ==
  ASSUME TrailConstants, NEW d, NEW w, NEW e \in Entry, NEW f, NEW c,
         Disk(d), Added(d, w, e), InOrder(d, f, c), Linked(d, e, f, c),
         \A x \in Trail!Logged(d) : x.at > e.at => {x.id, e.id} \subseteq f
  PROVE  /\ InOrder(w, f, c) /\ Trail!Logged(w) = Trail!Logged(d) \cup {e}
         /\ Trail!ChainEnd(w) = e \/ e.id \in f
  <1>1. PICK n : /\ n \notin Trail!Entries(d) /\ n[1] = e.at /\ Trail!LineAt(w, n) = e
                 /\ Trail!Entries(w) = Trail!Entries(d) \cup {n}
                 /\ \A p \in Trail!Entries(d) :
                      /\ Trail!LineAt(w, p) = Trail!LineAt(d, p)
                      /\ p[1] <= e.at => Trail!Comes(p, n)
    BY DEF Added
  <1>2. Disk(w) /\ n \in Trail!Entries(w) /\ n # Trail!Origin
    BY <1>1, EntryAt DEF Added
  <1>3. /\ Trail!Places(w) = Trail!Places(d) \cup {n} /\ n \notin Trail!Places(d)
        /\ \A p \in Trail!Places(d) : Trail!LineAt(w, p) = Trail!LineAt(d, p)
    BY <1>1, <1>2 DEF Trail!Places, Trail!LineAt
  <1>4. Trail!Logged(w) = Trail!Logged(d) \cup {e}
    BY <1>1 DEF Trail!Logged
  <1>5. \A p \in Trail!Entries(d) : p[1] > e.at => Trail!LineAt(d, p).id \in f /\ e.id \in f
    BY EntryAt DEF Trail!Logged
  <1>6. \A p \in Trail!Places(d) : Trail!Comes(p, n) \/ (p \in Trail!Entries(d) /\ p[1] > e.at)
    <2>1. Trail!Comes(Trail!Origin, n)
      BY <1>2, PlacesOrdered DEF Trail!Places
    <2>2. \A p \in Trail!Entries(d) : p[1] <= e.at \/ p[1] > e.at
      BY EntryAt DEF Entry, TrailConstants
    <2>. QED
      BY <1>1, <2>1, <2>2 DEF Trail!Places
  <1>7. ASSUME e.id \notin f
        PROVE  /\ EndPlace(w, n) /\ \A p \in Trail!Places(d) : NextTo(w, p, n) => EndPlace(d, p)
    <2>1. \A p \in Trail!Places(d) : Trail!Comes(p, n)
      BY <1>5, <1>6, <1>7
    <2>2. EndPlace(w, n)
      BY <1>3, <2>1 DEF EndPlace
    <2>3. ASSUME NEW p \in Trail!Places(d), NextTo(w, p, n) PROVE EndPlace(d, p)
      BY <1>3, <2>1, <2>3, PlacesOrdered DEF EndPlace, NextTo
    <2>. QED
      BY <2>2, <2>3
  <1>8. Trail!ChainEnd(w) = e \/ e.id \in f
    BY <1>1, <1>2, <1>7, ChainEndIs
  <1>9. InOrder(w, f, c)
    <2>. SUFFICES ASSUME NEW p \in Trail!Places(w), NEW q \in Trail!Places(w), NextTo(w, p, q)
                  PROVE  \/ Trail!Follows(Trail!LineAt(w, q), Trail!LineAt(w, p))
                         \/ Excused(Trail!LineAt(w, q), f, c)
      BY DEF InOrder
    <2>1. CASE p \in Trail!Places(d) /\ q \in Trail!Places(d)
      <3>1. NextTo(d, p, q)
        BY <1>3 DEF NextTo
      <3>. QED
        BY <1>3, <2>1, <3>1 DEF InOrder
    <2>2. CASE q = n
      <3>1. p \in Trail!Places(d)
        BY <1>2, <1>3, <2>2, PlacesOrdered DEF NextTo
      <3>2. CASE e.id \in f
        BY <1>1, <2>2, <3>2 DEF Excused
      <3>3. CASE e.id \notin f
        <4>1. Trail!ChainEnd(d) = Trail!LineAt(d, p)
          BY <1>7, <2>2, <3>1, <3>3, ChainEndIs
        <4>. QED
          BY <1>1, <1>3, <2>2, <3>1, <4>1 DEF Linked
      <3>. QED
        BY <3>2, <3>3
    <2>3. CASE p = n /\ q # n
      <3>1. q \in Trail!Places(d) /\ ~Trail!Comes(q, n)
        BY <1>2, <1>3, <2>3, PlacesOrdered DEF NextTo
      <3>2. q \in Trail!Entries(d) /\ q[1] > e.at
        BY <1>6, <3>1
      <3>. QED
        BY <1>3, <1>5, <3>1, <3>2 DEF Excused
    <2>. QED
      BY <1>3, <2>1, <2>2, <2>3
  <1>. QED
    BY <1>4, <1>8, <1>9

-----------------------------------------------------------------------------
(* What the server remembers of the disk: the disk has grown to that, or   *)
(* further.                                                                *)
AtLeast(d, s) ==
  /\ s \in Nat \X Nat
  /\ \/ s = <<0, 0>>
     \/ \E m \in Trail!Files(d) : m > s[1] \/ (m = s[1] /\ Trail!Size(d[m]) >= s[2])

(* Nothing is remembered of an empty disk, else its last file and the size of it. *)
LEMMA SeenIs ==
  ASSUME TrailConstants, NEW d, Disk(d)
  PROVE  \/ Trail!Files(d) = {} /\ Trail!Seen(d) = <<0, 0>>
         \/ \E m \in Trail!Files(d) :
              Trail!Seen(d) = <<m, Trail!Size(d[m])>> /\ \A n \in Trail!Files(d) : n <= m
  <1>1. CASE Trail!Files(d) = {}
    BY <1>1 DEF Trail!Seen
  <1>2. CASE Trail!Files(d) # {}
    <2>1. Trail!Files(d) \in SUBSET (0..Months)
      BY DEF Trail!Files
    <2>2. PICK m \in Trail!Files(d) : \A n \in Trail!Files(d) : n <= m
      BY <1>2, <2>1, GreatestOf DEF TrailConstants
    <2>3. \A n \in Trail!Files(d) : n \in Nat
      BY <2>1 DEF TrailConstants
    <2>4. Trail!Max(Trail!Files(d)) \in Trail!Files(d) /\ \A n \in Trail!Files(d) : n <= Trail!Max(Trail!Files(d))
      BY <2>2, <2>3 DEF Trail!Max
    <2>. QED
      BY <1>2, <2>4 DEF Trail!Seen
  <1>. QED
    BY <1>1, <1>2

(* A disk has grown to what is remembered of it, and stays so when it grows on; *)
(* if it then looks as remembered, it did before.                              *)
LEMMA SeenAtLeast ==
  ASSUME TrailConstants, NEW d, NEW w, Disk(d), Disk(w), NotShorter(d, w), NEW s
  PROVE  /\ AtLeast(d, Trail!Seen(d))
         /\ AtLeast(d, s) => AtLeast(w, s)
         /\ AtLeast(d, s) /\ Trail!Seen(w) = s => Trail!Seen(d) = s
  <1>1. \A m \in 1..Months : m \in Nat /\ Trail!Size(d[m]) \in Nat /\ Trail!Size(w[m]) \in Nat
    BY SizeIs DEF Disk
  <1>2. \A m \in Trail!Files(d) : m \in Trail!Files(w) /\ Trail!Size(d[m]) <= Trail!Size(w[m])
    BY <1>1 DEF NotShorter, Trail!Files
  <1>3. AtLeast(d, Trail!Seen(d))
    BY <1>1, SeenIs DEF AtLeast, Trail!Files
  <1>4. AtLeast(d, s) => AtLeast(w, s)
    <2>. SUFFICES ASSUME s \in Nat \X Nat, NEW m \in Trail!Files(d),
                         m > s[1] \/ (m = s[1] /\ Trail!Size(d[m]) >= s[2])
                  PROVE  AtLeast(w, s)
      BY DEF AtLeast
    <2>1. m \in 1..Months
      BY DEF Trail!Files
    <2>2. m > s[1] \/ (m = s[1] /\ Trail!Size(w[m]) >= s[2])
      BY <1>1, <1>2, <2>1
    <2>. QED
      BY <1>2, <2>2 DEF AtLeast
  <1>5. ASSUME AtLeast(d, s), Trail!Seen(w) = s PROVE Trail!Seen(d) = s
    <2>1. CASE Trail!Files(w) = {}
      BY <1>2, <1>5, <2>1, SeenIs
    <2>2. CASE Trail!Files(w) # {}
      <3>1. PICK m \in Trail!Files(w) : s = <<m, Trail!Size(w[m])>> /\ \A n \in Trail!Files(w) : n <= m
        BY <1>5, <2>2, SeenIs
      <3>2. m \in 1..Months /\ s[1] = m /\ s[2] = Trail!Size(w[m]) /\ s # <<0, 0>>
        BY <3>1 DEF Trail!Files
      <3>3. PICK n \in Trail!Files(d) : n > s[1] \/ (n = s[1] /\ Trail!Size(d[n]) >= s[2])
        BY <1>5, <3>2 DEF AtLeast
      <3>4. n \in 1..Months /\ n <= m
        BY <1>2, <3>1, <3>3 DEF Trail!Files
      <3>5. n = m /\ Trail!Size(d[m]) = Trail!Size(w[m])
        BY <1>1, <1>2, <3>2, <3>3, <3>4
      <3>6. \A o \in Trail!Files(d) : o <= m
        BY <1>2, <3>1
      <3>7. PICK o \in Trail!Files(d) : Trail!Seen(d) = <<o, Trail!Size(d[o])>> /\ \A x \in Trail!Files(d) : x <= o
        BY <3>3, SeenIs
      <3>8. o = m
        BY <1>1, <3>3, <3>5, <3>6, <3>7 DEF Trail!Files
      <3>. QED
        BY <3>1, <3>5, <3>7, <3>8
    <2>. QED
      BY <2>1, <2>2
  <1>. QED
    BY <1>3, <1>4, <1>5

(* When the last file grows, the disk is not what is remembered of it. *)
LEMMA GrownIsSeen ==
  ASSUME TrailConstants, NEW d, NEW w, Disk(d), Disk(w), NotShorter(d, w),
         NEW mo \in 1..Months, Trail!Size(d[mo]) < Trail!Size(w[mo]),
         \A m \in 1..Months : m > mo => w[m] = Trail!Empty,
         NEW s, AtLeast(d, s)
  PROVE  Trail!Seen(w) # s
  <1>. SUFFICES ASSUME Trail!Seen(w) = s PROVE FALSE
    OBVIOUS
  <1>1. \A m \in 1..Months : m \in Nat /\ Trail!Size(d[m]) \in Nat /\ Trail!Size(w[m]) \in Nat
    BY SizeIs DEF Disk
  <1>2. mo \in Trail!Files(w) /\ \A m \in Trail!Files(w) : m <= mo
    BY <1>1, SizeIs DEF Trail!Files, TrailConstants, Disk
  <1>3. PICK m \in Trail!Files(w) : s = <<m, Trail!Size(w[m])>> /\ \A n \in Trail!Files(w) : n <= m
    BY <1>2, SeenIs
  <1>4. m = mo
    BY <1>1, <1>2, <1>3 DEF Trail!Files
  <1>5. s[1] = mo /\ s[2] = Trail!Size(w[mo]) /\ s # <<0, 0>>
    BY <1>1, <1>3, <1>4
  <1>6. PICK n \in Trail!Files(d) : n > s[1] \/ (n = s[1] /\ Trail!Size(d[n]) >= s[2])
    BY <1>5 DEF AtLeast
  <1>7. n \in Trail!Files(w) /\ n \in 1..Months
    BY <1>1 DEF NotShorter, Trail!Files
  <1>. QED
    BY <1>1, <1>2, <1>5, <1>6, <1>7

-----------------------------------------------------------------------------
(* Entries that can be written to a disk, in order.                        *)
Ready(d, es, f, c, mo) ==
  /\ Disk(d) /\ es \in Seq(Entry) /\ InOrder(d, f, c)
  /\ \A m \in 1..Months : m > mo => d[m] = Trail!Empty
  /\ \A i, j \in DOMAIN es : /\ es[i].at <= mo
                             /\ i <= j => es[i].at <= es[j].at
                             /\ es[i].id = es[j].id => i = j
  /\ \A i \in DOMAIN es : i < Len(es) => Trail!Follows(es[i + 1], es[i])
  /\ es # <<>> => Linked(d, es[1], f, c)
  /\ \A i \in DOMAIN es : \A x \in Trail!Logged(d) :
       x.id # es[i].id /\ (x.at > es[i].at => {x.id, es[i].id} \subseteq f)

(* Those of the first k that are not on the disk. *)
Gone(es, k, w) == {es[i].id : i \in 1..k} \ Trail!Ids(Trail!Logged(w))

(* The disk when the first k are written. *)
Loop(d, es, f, c, mo, w, k) ==
  /\ Disk(w) /\ NotShorter(d, w) /\ InOrder(w, f, c \cup Gone(es, k, w))
  /\ \A m \in 1..Months : (m > mo => w[m] = Trail!Empty) /\ (w[m].torn => d[m].torn)
  /\ Trail!Logged(d) \subseteq Trail!Logged(w)
  /\ Trail!Logged(w) \subseteq Trail!Logged(d) \cup {es[i] : i \in 1..k}
  /\ \A i \in 1..k : ~d[es[i].at].torn => es[i] \in Trail!Logged(w)
  /\ k = 0 => w = d
  /\ k > 0 => /\ Trail!ChainEnd(w) = es[k] \/ es[k].id \in f \cup Gone(es, k, w)
              /\ ~w[es[k].at].torn

(* The next entry may come next. *)
LEMMA LoopNext ==
  ASSUME TrailConstants, NEW d, NEW es, NEW f, NEW c, NEW mo \in Nat, NEW w, NEW k \in Nat,
         Ready(d, es, f, c, mo), Loop(d, es, f, c, mo, w, k), k < Len(es)
  PROVE  Linked(w, es[k + 1], f, c \cup Gone(es, k, w))
  <1>1. es \in Seq(Entry) /\ k + 1 \in DOMAIN es
    BY DEF Ready
  <1>2. CASE k = 0
    <2>1. w = d /\ es # <<>> /\ Gone(es, k, w) = {}
      BY <1>1, <1>2 DEF Loop, Gone
    <2>2. Linked(d, es[1], f, c) /\ c \cup {} = c /\ k + 1 = 1
      BY <1>2, <2>1 DEF Ready
    <2>. QED
      BY <2>1, <2>2
  <1>3. CASE k > 0
    <2>1. Trail!Follows(es[k + 1], es[k]) /\ k \in DOMAIN es
      BY <1>1, <1>3 DEF Ready
    <2>2. Trail!ChainEnd(w) = es[k] \/ es[k].id \in f \cup Gone(es, k, w)
      BY <1>3 DEF Loop
    <2>. QED
      BY <2>1, <2>2 DEF Linked, Excused, Trail!Follows
  <1>. QED
    BY <1>2, <1>3

(* One entry more is written. *)
LEMMA LoopStep ==
  ASSUME TrailConstants, NEW d, NEW es, NEW f, NEW c, NEW mo \in Nat, NEW w, NEW k \in Nat,
         Ready(d, es, f, c, mo), Loop(d, es, f, c, mo, w, k), k < Len(es)
  PROVE  Loop(d, es, f, c, mo, Trail!Put(w, es[k + 1]), k + 1)
  <1>. DEFINE e == es[k + 1]
              v == Trail!Put(w, e)
              g == Gone(es, k, w)
              h == Gone(es, k + 1, v)
  <1>1. /\ es \in Seq(Entry) /\ k + 1 \in DOMAIN es /\ e \in Entry /\ Disk(w) /\ Disk(d)
        /\ \A i \in 1..k : i \in DOMAIN es /\ i < k + 1
        /\ \A i \in 1..(k + 1) : i \in 1..k \/ i = k + 1
    BY DEF Ready, Loop
  <1>2. Linked(w, e, f, c \cup g)
    BY LoopNext
  <1>3. \A x \in Trail!Logged(w) : x.id # e.id /\ (x.at > e.at => {x.id, e.id} \subseteq f)
    <2>. TAKE x \in Trail!Logged(w)
    <2>1. CASE x \in Trail!Logged(d)
      BY <1>1, <2>1 DEF Ready
    <2>2. CASE \E i \in 1..k : x = es[i]
      <3>1. PICK i \in 1..k : x = es[i]
        BY <2>2
      <3>2. x.id # e.id /\ x.at <= e.at
        BY <1>1, <3>1 DEF Ready
      <3>3. x \in Entry /\ e \in Entry
        BY <1>1, <3>1
      <3>4. x.at \in Nat /\ e.at \in Nat
        BY <3>3 DEF Entry, TrailConstants
      <3>. QED
        BY <3>2, <3>4
    <2>. QED
      BY <2>1, <2>2 DEF Loop
  <1>. HIDE DEF e
  <1>4. /\ IF w[e.at].torn THEN SameLog(w, v) ELSE Added(w, v, e)
        /\ NotShorter(w, v) /\ ~v[e.at].torn
        /\ \A m \in 1..Months \ {e.at} : v[m] = w[m]
    BY <1>1, PutIs
  <1>. HIDE DEF v
  <1>5. e.at \in 1..Months /\ e.at \in Nat /\ e.at <= mo /\ w[e.at].torn \in BOOLEAN
    <2>1. e.at \in 1..Months /\ e.at \in Nat
      BY <1>1 DEF Entry, TrailConstants
    <2>2. e.at <= mo
      BY <1>1 DEF Ready, e
    <2>3. w[e.at] \in File
      BY <1>1, <2>1 DEF Disk
    <2>. QED
      BY <2>1, <2>2, <2>3 DEF File
  <1>6. /\ Disk(v)
        /\ w[e.at].torn => Trail!Logged(v) = Trail!Logged(w) /\ Trail!ChainEnd(v) = Trail!ChainEnd(w)
                           /\ InOrder(v, f, c \cup g)
        /\ ~w[e.at].torn => Trail!Logged(v) = Trail!Logged(w) \cup {e} /\ InOrder(v, f, c \cup g)
                            /\ (Trail!ChainEnd(v) = e \/ e.id \in f)
    <2>1. InOrder(w, f, c \cup g)
      BY DEF Loop
    <2>. HIDE DEF g
    <2>2. CASE w[e.at].torn
      BY <1>1, <1>4, <2>1, <2>2, SameLogSame DEF SameLog
    <2>3. CASE ~w[e.at].torn
      BY <1>1, <1>2, <1>3, <1>4, <2>1, <2>3, AddedKeeps DEF Added
    <2>. QED
      BY <2>2, <2>3
  <1>7. g \subseteq h /\ (w[e.at].torn => e.id \in h)
    <2>1. \A x \in g : x # e.id
      BY <1>1 DEF Gone, Ready, e
    <2>2. {es[i].id : i \in 1..k} \subseteq {es[i].id : i \in 1..(k + 1)}
          /\ e.id \in {es[i].id : i \in 1..(k + 1)}
      BY <1>1 DEF e
    <2>3. Trail!Ids(Trail!Logged(v)) \subseteq Trail!Ids(Trail!Logged(w)) \cup {e.id}
      BY <1>5, <1>6 DEF Trail!Ids
    <2>4. e.id \notin Trail!Ids(Trail!Logged(w))
      BY <1>3 DEF Trail!Ids
    <2>. QED
      BY <1>6, <2>1, <2>2, <2>3, <2>4 DEF Gone
  <1>8. InOrder(v, f, c \cup h)
    <2>1. InOrder(v, f, c \cup g)
      BY <1>5, <1>6
    <2>2. c \cup g \subseteq c \cup h
      BY <1>7
    <2>. HIDE DEF g, h
    <2>. QED
      BY <2>1, <2>2, ExcusedMore
  <1>9. NotShorter(d, v)
    <2>1. \A m \in 1..Months : Trail!Size(d[m]) \in Nat /\ Trail!Size(w[m]) \in Nat /\ Trail!Size(v[m]) \in Nat
      BY <1>1, <1>6, SizeIs DEF Disk
    <2>. QED
      BY <1>4, <2>1 DEF NotShorter, Loop
  <1>10. \A m \in 1..Months : (m > mo => v[m] = Trail!Empty) /\ (v[m].torn => d[m].torn)
    BY <1>4, <1>5 DEF Loop
  <1>11. /\ Trail!Logged(d) \subseteq Trail!Logged(v) /\ Trail!Logged(w) \subseteq Trail!Logged(v)
         /\ Trail!Logged(v) \subseteq Trail!Logged(d) \cup {es[i] : i \in 1..(k + 1)}
    BY <1>1, <1>5, <1>6 DEF Loop, e
  <1>12. \A i \in 1..(k + 1) : ~d[es[i].at].torn => es[i] \in Trail!Logged(v)
    <2>1. ~d[e.at].torn => e \in Trail!Logged(v)
      BY <1>5, <1>6 DEF Loop
    <2>. QED
      BY <1>1, <1>11, <2>1 DEF Loop, e
  <1>13. Trail!ChainEnd(v) = e \/ e.id \in f \cup h
    BY <1>5, <1>6, <1>7
  <1>. HIDE DEF h
  <1>14. Loop(d, es, f, c, mo, v, k + 1)
    BY <1>4, <1>6, <1>8, <1>9, <1>10, <1>11, <1>12, <1>13 DEF Loop, h, e
  <1>. QED
    BY <1>14 DEF v, e

(* Whatever number is written. *)
LEMMA WrittenLoop ==
  ASSUME TrailConstants, NEW d, NEW es, NEW f, NEW c, NEW mo \in Nat, Ready(d, es, f, c, mo),
         NEW k \in 0..Len(es)
  PROVE  Loop(d, es, f, c, mo, Trail!Written(d, es, k), k)
  <1>. DEFINE W(j) == Trail!Written(d, es, j)
              B == {j \in 0..Len(es) : ~Loop(d, es, f, c, mo, W(j), j)}
  <1>1. Len(es) \in Nat /\ B \in SUBSET Nat
    BY DEF Ready
  <1>2. Loop(d, es, f, c, mo, d, 0)
    <2>1. Gone(es, 0, d) = {} /\ c \cup {} = c
      BY DEF Gone
    <2>2. Disk(d) /\ NotShorter(d, d)
      BY SizeIs DEF Ready, Disk, NotShorter
    <2>3. 1..0 = {}
      OBVIOUS
    <2>4. InOrder(d, f, c \cup Gone(es, 0, d))
      <3>1. InOrder(d, f, c) /\ c \cup Gone(es, 0, d) = c
        BY <2>1 DEF Ready
      <3>. QED
        BY <3>1, Zenon
    <2>. QED
      BY <2>2, <2>3, <2>4 DEF Ready, Loop
  <1>3. B = {}
    <2>. SUFFICES ASSUME B # {} PROVE FALSE
      OBVIOUS
    <2>1. PICK j \in B : \A i \in B : j <= i
      <3>. HIDE DEF B
      <3>. QED
        BY <1>1, LeastOf
    <2>2. j # 0
      BY <1>1, <1>2, WrittenIs
    <2>3. j - 1 \in 0..Len(es) - 1 /\ j - 1 \notin B /\ j - 1 \in Nat /\ j - 1 < Len(es) /\ (j - 1) + 1 = j
      BY <1>1, <2>1, <2>2
    <2>4. Loop(d, es, f, c, mo, W(j - 1), j - 1)
      BY <1>1, <2>3
    <2>5. W(j) = Trail!Put(W(j - 1), es[j])
      <3>. DEFINE i == j - 1
      <3>1. i \in 0..Len(es) - 1 /\ j = i + 1
        BY <2>3
      <3>. HIDE DEF i
      <3>2. W(i + 1) = Trail!Put(W(i), es[i + 1])
        BY <1>1, <3>1, WrittenIs
      <3>3. W(j) = Trail!Put(W(i), es[j])
        BY <3>1, <3>2
      <3>. QED
        BY <3>3 DEF i
    <2>. HIDE DEF W
    <2>6. Loop(d, es, f, c, mo, W(j), j)
      BY <2>3, <2>4, <2>5, LoopStep
    <2>. QED
      BY <2>1, <2>6
  <1>. QED
    BY <1>3

(* The first k, and the others. *)
LEMMA Split ==
  ASSUME NEW es \in Seq(Entry), NEW k \in 0..Len(es)
  PROVE  /\ Trail!Elems(SubSeq(es, 1, k)) = {es[i] : i \in 1..k}
         /\ SubSeq(es, k + 1, Len(es)) \in Seq(Entry)
         /\ Len(SubSeq(es, k + 1, Len(es))) = Len(es) - k
         /\ \A i \in 1..(Len(es) - k) : SubSeq(es, k + 1, Len(es))[i] = es[k + i] /\ k + i \in DOMAIN es
         /\ k = Len(es) => SubSeq(es, 1, k) = es /\ SubSeq(es, k + 1, Len(es)) = <<>>
         /\ k < Len(es) => SubSeq(es, k + 1, Len(es)) # <<>>
  <1>1. /\ SubSeq(es, 1, k) \in Seq(Entry) /\ Len(SubSeq(es, 1, k)) = k
        /\ \A i \in 1..k : SubSeq(es, 1, k)[i] = es[i]
    OBVIOUS
  <1>2. DOMAIN SubSeq(es, 1, k) = 1..k
    BY <1>1
  <1>3. Trail!Elems(SubSeq(es, 1, k)) = {es[i] : i \in 1..k}
    BY <1>1, <1>2 DEF Trail!Elems
  <1>4. /\ SubSeq(es, k + 1, Len(es)) \in Seq(Entry) /\ Len(SubSeq(es, k + 1, Len(es))) = Len(es) - k
        /\ \A i \in 1..(Len(es) - k) : SubSeq(es, k + 1, Len(es))[i] = es[k + i] /\ k + i \in DOMAIN es
    OBVIOUS
  <1>5. k = Len(es) => SubSeq(es, 1, k) = es /\ SubSeq(es, k + 1, Len(es)) = <<>>
    OBVIOUS
  <1>6. k < Len(es) => SubSeq(es, k + 1, Len(es)) # <<>>
    <2>. SUFFICES ASSUME k < Len(es), SubSeq(es, k + 1, Len(es)) = <<>> PROVE FALSE
      OBVIOUS
    <2>1. Len(SubSeq(es, k + 1, Len(es))) = Len(es) - k /\ Len(es) - k > 0 /\ Len(<<>>) = 0
      BY <1>4
    <2>. QED
      BY <2>1
  <1>. HIDE DEF Trail!Elems
  <1>. QED
    BY <1>3, <1>4, <1>5, <1>6

(* What is left can be written later. *)
LEMMA RestReady ==
  ASSUME TrailConstants, NEW d, NEW es, NEW f, NEW c, NEW b, NEW mo \in Nat, NEW w, NEW x,
         NEW k \in 0..Len(es),
         Ready(d, es, f, c, mo), Loop(d, es, f, c, mo, w, k), SameLog(w, x),
         \A m \in 1..Months : m > mo => x[m] = Trail!Empty,
         c \cup Gone(es, k, w) \subseteq b
  PROVE  Ready(x, SubSeq(es, k + 1, Len(es)), f, b, mo)
  <1>. DEFINE r == SubSeq(es, k + 1, Len(es))
  <1>1. /\ es \in Seq(Entry) /\ Len(es) \in Nat /\ k \in Nat /\ Disk(w) /\ Disk(x)
        /\ DOMAIN es = 1..Len(es)
    BY DEF Ready, Loop, SameLog
  <1>2. /\ r \in Seq(Entry) /\ Len(r) = Len(es) - k
        /\ \A i \in 1..(Len(es) - k) : r[i] = es[k + i] /\ k + i \in DOMAIN es
    BY <1>1, Split
  <1>. HIDE DEF r
  <1>3. DOMAIN r = 1..(Len(es) - k)
    BY <1>2
  <1>4. Trail!Logged(x) = Trail!Logged(w) /\ InOrder(x, f, b)
    BY <1>1, SameLogSame, ExcusedMore DEF Loop
  <1>5. r # <<>> => Linked(x, r[1], f, b)
    <2>. SUFFICES ASSUME r # <<>> PROVE Linked(x, r[1], f, b)
      OBVIOUS
    <2>1. k < Len(es) /\ r[1] = es[k + 1]
      BY <1>1, <1>2
    <2>2. Linked(w, es[k + 1], f, c \cup Gone(es, k, w))
      BY <1>1, <2>1, LoopNext
    <2>. QED
      BY <1>1, <2>1, <2>2, SameLogSame, ExcusedMore
  <1>6. ASSUME NEW i \in DOMAIN r, NEW j \in DOMAIN r
        PROVE  r[i].at <= mo /\ (i <= j => r[i].at <= r[j].at) /\ (r[i].id = r[j].id => i = j)
    <2>1. k + i \in DOMAIN es /\ k + j \in DOMAIN es /\ r[i] = es[k + i] /\ r[j] = es[k + j]
          /\ i \in Nat /\ j \in Nat
      BY <1>1, <1>2, <1>3
    <2>2. (i <= j => k + i <= k + j) /\ (k + i = k + j => i = j)
      BY <1>1, <2>1
    <2>. QED
      BY <2>1, <2>2 DEF Ready
  <1>7. \A i \in DOMAIN r : i < Len(r) => Trail!Follows(r[i + 1], r[i])
    <2>. SUFFICES ASSUME NEW i \in DOMAIN r, i < Len(r) PROVE Trail!Follows(r[i + 1], r[i])
      OBVIOUS
    <2>1. i \in 1..(Len(es) - k) /\ i + 1 \in 1..(Len(es) - k) /\ k + i < Len(es) /\ (k + i) + 1 = k + (i + 1)
      BY <1>1, <1>2, <1>3
    <2>2. k + i \in DOMAIN es /\ r[i] = es[k + i] /\ r[i + 1] = es[(k + i) + 1]
      BY <1>2, <2>1
    <2>. QED
      BY <2>1, <2>2 DEF Ready
  <1>8. ASSUME NEW i \in DOMAIN r, NEW y \in Trail!Logged(x)
        PROVE  y.id # r[i].id /\ (y.at > r[i].at => {y.id, r[i].id} \subseteq f)
    <2>1. k + i \in DOMAIN es /\ r[i] = es[k + i] /\ i \in Nat \ {0}
      BY <1>1, <1>2, <1>3
    <2>2. CASE y \in Trail!Logged(d)
      BY <2>1, <2>2 DEF Ready
    <2>3. CASE \E j \in 1..k : y = es[j]
      <3>1. PICK j \in 1..k : y = es[j]
        BY <2>3
      <3>2. j \in DOMAIN es /\ j <= k + i /\ j # k + i
        BY <1>1, <2>1
      <3>3. y.id # r[i].id /\ y.at <= r[i].at
        BY <2>1, <3>1, <3>2 DEF Ready
      <3>4. y \in Entry /\ r[i] \in Entry
        BY <1>1, <2>1, <3>1, <3>2
      <3>5. y.at \in Nat /\ r[i].at \in Nat
        BY <3>4 DEF Entry, TrailConstants
      <3>. QED
        BY <3>3, <3>5
    <2>. QED
      BY <1>4, <2>2, <2>3 DEF Loop
  <1>9. Ready(x, r, f, b, mo)
    BY <1>1, <1>2, <1>4, <1>5, <1>6, <1>7, <1>8 DEF Ready
  <1>. QED
    BY <1>9 DEF r

(* What was written is on the disk, or gone. *)
LEMMA WrittenOrGone ==
  ASSUME NEW d, NEW es, NEW f, NEW c, NEW mo, NEW w, NEW k \in 0..Len(es),
         Ready(d, es, f, c, mo), Loop(d, es, f, c, mo, w, k), NEW i \in 1..k
  PROVE  es[i] \in Trail!Logged(w) \/ es[i].id \in Gone(es, k, w)
  <1>. SUFFICES ASSUME NEW x \in Trail!Logged(w), x.id = es[i].id PROVE x = es[i]
    BY DEF Gone, Trail!Ids
  <1>1. es \in Seq(Entry) /\ \A j \in 1..k : j \in DOMAIN es
    BY DEF Ready
  <1>2. x \notin Trail!Logged(d)
    BY <1>1 DEF Ready
  <1>3. PICK j \in 1..k : x = es[j]
    BY <1>2 DEF Loop
  <1>. QED
    BY <1>1, <1>3 DEF Ready

(* flushSync(): the entries are on the disk, held, or lost behind half a   *)
(* line, and the chain is as it was.                                       *)
LEMMA FlushDoes ==
  ASSUME TrailConstants, month \in 1..Months, NEW d, NEW es, NEW known,
         Ready(d, es, forked, cut, month), AtLeast(d, known), Trail!Flush(d, es, known),
         held = <<>> /\ ~blind => \A i \in DOMAIN es : ~d[es[i].at].torn
  PROVE  /\ Ready(disk', held', forked, cut', month)
         /\ AtLeast(disk', seen')
         /\ cut \subseteq cut'
         /\ Trail!Logged(d) \subseteq Trail!Logged(disk')
         /\ Trail!Logged(disk') \subseteq Trail!Logged(d) \cup Trail!Elems(es)
         /\ Trail!Elems(held') \subseteq Trail!Elems(es)
         /\ \A e \in Trail!Elems(es) :
              e \in Trail!Logged(disk') \/ e \in Trail!Elems(held') \/ e.id \in cut'
         /\ \A m \in 1..Months : disk'[m].torn => d[m].torn \/ (held' # <<>> /\ held'[1].at = m)
         /\ held' # <<>> => es # <<>> /\ held'[Len(held')] = es[Len(es)]
         /\ held' = <<>> /\ es # <<>> =>
              /\ Trail!ChainEnd(disk') = es[Len(es)] \/ es[Len(es)].id \in forked \cup cut'
              /\ ~disk'[es[Len(es)].at].torn
         /\ es = <<>> => disk' = d
  <1>1. es \in Seq(Entry) /\ Len(es) \in Nat /\ Disk(d) /\ month \in Nat /\ DOMAIN es = 1..Len(es)
    BY DEF Ready, TrailConstants
  <1>. DEFINE Bad(s) == IF held = <<>> /\ ~blind THEN {} ELSE Trail!Ids(Trail!Elems(s)) \ Trail!Ids(Trail!Logged(disk'))
  <1>2. PICK k \in 0..Len(es) :
          /\ held' = SubSeq(es, k + 1, Len(es))
          /\ cut' = cut \cup Bad(SubSeq(es, 1, k))
          /\ \/ k = Len(es) /\ disk' = Trail!Written(d, es, k) /\ seen' = Trail!Seen(disk')
             \/ k < Len(es) /\ disk' \in Trail!Failed(Trail!Written(d, es, k), es[k + 1]) /\ seen' = known
    <2>1. CASE /\ disk' = Trail!Written(d, es, Len(es)) /\ held' = <<>> /\ seen' = Trail!Seen(disk')
               /\ cut' = cut \cup Trail!Lost(es)
      <3>1. SubSeq(es, 1, Len(es)) = es /\ SubSeq(es, Len(es) + 1, Len(es)) = <<>>
        BY <1>1, Split
      <3>2. cut' = cut \cup Bad(es)
        BY <2>1 DEF Trail!Lost
      <3>3. Len(es) \in 0..Len(es)
        BY <1>1
      <3>. HIDE DEF Bad
      <3>. QED
        BY <2>1, <3>1, <3>2, <3>3
    <2>2. CASE \E k \in 0..Len(es) - 1 :
                 /\ disk' \in Trail!Failed(Trail!Written(d, es, k), es[k + 1])
                 /\ held' = SubSeq(es, k + 1, Len(es)) /\ seen' = known
                 /\ cut' = cut \cup Trail!Lost(SubSeq(es, 1, k))
      <3>1. \A k \in 0..Len(es) - 1 : k \in 0..Len(es) /\ k < Len(es)
        BY <1>1
      <3>. QED
        BY <2>2, <3>1 DEF Trail!Lost
    <2>. QED
      BY <2>1, <2>2 DEF Trail!Flush
  <1>20. k \in Nat /\ k <= Len(es) /\ (k = Len(es) \/ k < Len(es))
    <2>1. \A n \in Nat : \A j \in 0..n : j \in Nat /\ j <= n /\ (j = n \/ j < n)
      OBVIOUS
    <2>2. Len(es) \in Nat /\ k \in 0..Len(es)
      BY <1>1
    <2>. QED
      BY <2>1, <2>2, Zenon
  <1>. DEFINE w == Trail!Written(d, es, k)
              g == Gone(es, k, w)
  <1>3. Loop(d, es, forked, cut, month, w, k)
    BY <1>1, WrittenLoop
  <1>. HIDE DEF w
  <1>4. Disk(w) /\ NotShorter(d, w) /\ \A m \in 1..Months : w[m] \in File
    BY <1>3 DEF Loop, Disk
  <1>5. /\ SameLog(w, disk') /\ NotShorter(w, disk')
        /\ \A m \in 1..Months : disk'[m] = w[m] \/ (k < Len(es) /\ m = es[k + 1].at)
        /\ k = Len(es) => disk' = w
    <2>1. CASE k = Len(es)
      <3>1. SameLog(w, w) /\ NotShorter(w, w)
        BY <1>4, SizeIs DEF SameLog, NotShorter
      <3>. QED
        BY <1>1, <1>2, <2>1, <3>1 DEF w
    <2>2. CASE k < Len(es)
      <3>1. es[k + 1] \in Entry /\ disk' \in Trail!Failed(w, es[k + 1])
        <4>1. k # Len(es)
          BY <1>20, <2>2
        <4>2. disk' \in Trail!Failed(w, es[k + 1])
          BY <1>2, <4>1 DEF w
        <4>3. k + 1 \in DOMAIN es
          <5>1. \A n, j \in Nat : j < n => j + 1 \in 1..n
            OBVIOUS
          <5>2. k \in Nat /\ Len(es) \in Nat /\ k < Len(es) /\ DOMAIN es = 1..Len(es)
            BY <1>1, <1>20, <2>2
          <5>. QED
            BY <5>1, <5>2, Zenon
        <4>4. \A i \in DOMAIN es : es[i] \in Entry
          BY <1>1
        <4>. QED
          BY <4>2, <4>3, <4>4, Zenon
      <3>2. /\ SameLog(w, disk') /\ NotShorter(w, disk')
            /\ \A m \in 1..Months \ {es[k + 1].at} : disk'[m] = w[m]
        BY <1>4, <3>1, HalfIs
      <3>3. k # Len(es)
        BY <1>20, <2>2
      <3>. QED
        BY <2>2, <3>2, <3>3
    <2>. QED
      BY <1>20, <2>1, <2>2
  <1>6. Disk(disk') /\ Trail!Logged(disk') = Trail!Logged(w) /\ Trail!ChainEnd(disk') = Trail!ChainEnd(w)
    BY <1>4, <1>5, SameLogSame DEF SameLog
  <1>7. cut \subseteq cut' /\ cut \cup g \subseteq cut'
    <2>1. Trail!Ids(Trail!Elems(SubSeq(es, 1, k))) = {es[i].id : i \in 1..k}
      BY <1>1, Split DEF Trail!Ids
    <2>2. CASE held = <<>> /\ ~blind
      <3>1. \A i \in 1..k : es[i] \in Trail!Logged(w)
        BY <1>1, <1>3, <2>2 DEF Loop
      <3>. QED
        BY <1>2, <3>1 DEF Gone, Trail!Ids
    <2>3. CASE ~(held = <<>> /\ ~blind)
      BY <1>2, <1>6, <2>1, <2>3 DEF Gone
    <2>. QED
      BY <2>2, <2>3
  <1>. HIDE DEF g
  <1>8. \A m \in 1..Months : m > month => disk'[m] = Trail!Empty
    <2>1. k < Len(es) => es[k + 1].at <= month /\ es[k + 1].at \in Nat
      <3>. SUFFICES ASSUME k < Len(es) PROVE es[k + 1].at <= month /\ es[k + 1].at \in Nat
        OBVIOUS
      <3>1. k + 1 \in DOMAIN es /\ es[k + 1] \in Entry
        BY <1>1
      <3>. QED
        BY <3>1 DEF Ready, Entry, TrailConstants
    <2>2. \A m \in 1..Months : (m > month => w[m] = Trail!Empty) /\ m \in Nat
      BY <1>3 DEF Loop, TrailConstants
    <2>3. \A m \in 1..Months : m > month => disk'[m] = w[m]
      BY <1>1, <1>5, <2>1, <2>2
    <2>. QED
      BY <2>2, <2>3
  <1>9. Ready(disk', held', forked, cut', month)
    BY <1>1, <1>2, <1>3, <1>5, <1>7, <1>8, RestReady DEF g
  <1>10. AtLeast(disk', seen')
    <2>1. NotShorter(d, disk')
      <3>1. \A m \in 1..Months : Trail!Size(d[m]) \in Nat /\ Trail!Size(w[m]) \in Nat /\ Trail!Size(disk'[m]) \in Nat
        BY <1>1, <1>4, <1>6, SizeIs DEF Disk
      <3>. QED
        BY <1>4, <1>5, <3>1 DEF NotShorter
    <2>2. AtLeast(disk', known)
      BY <1>1, <1>6, <2>1, SeenAtLeast
    <2>3. AtLeast(disk', Trail!Seen(disk'))
      <3>1. NotShorter(disk', disk')
        BY <1>6, SizeIs DEF NotShorter, Disk
      <3>. QED
        BY <1>6, <3>1, SeenAtLeast
    <2>. QED
      BY <1>2, <2>2, <2>3
  <1>11. /\ Trail!Logged(d) \subseteq Trail!Logged(disk')
         /\ Trail!Logged(disk') \subseteq Trail!Logged(d) \cup Trail!Elems(es)
    BY <1>1, <1>3, <1>6 DEF Loop, Trail!Elems
  <1>12. /\ \A i \in 1..(Len(es) - k) : held'[i] = es[k + i] /\ k + i \in DOMAIN es
         /\ held' \in Seq(Entry) /\ Len(held') = Len(es) - k
         /\ k = Len(es) => held' = <<>> 
         /\ k < Len(es) => held' # <<>>
    BY <1>1, <1>2, Split
  <1>13. Trail!Elems(held') \subseteq Trail!Elems(es) /\ \A i \in (k + 1)..Len(es) : es[i] \in Trail!Elems(held')
    <2>1. DOMAIN held' = 1..(Len(es) - k)
      BY <1>12
    <2>2. \A i \in (k + 1)..Len(es) : i - k \in 1..(Len(es) - k) /\ k + (i - k) = i
      BY <1>1
    <2>3. \A i \in (k + 1)..Len(es) : es[i] = held'[i - k] /\ i - k \in DOMAIN held'
      BY <1>12, <2>1, <2>2
    <2>4. ASSUME NEW i \in DOMAIN held' PROVE held'[i] \in Trail!Elems(es)
      <3>1. held'[i] = es[k + i] /\ k + i \in DOMAIN es
        BY <1>12, <2>1
      <3>. QED
        BY <3>1 DEF Trail!Elems
    <2>5. Trail!Elems(held') = {held'[i] : i \in DOMAIN held'}
      BY DEF Trail!Elems
    <2>. QED
      BY <2>3, <2>4, <2>5
  <1>14. ASSUME NEW e \in Trail!Elems(es)
         PROVE  e \in Trail!Logged(disk') \/ e \in Trail!Elems(held') \/ e.id \in cut'
    <2>1. PICK i \in DOMAIN es : e = es[i]
      BY DEF Trail!Elems
    <2>2. i \in 1..k \/ i \in (k + 1)..Len(es)
      BY <1>1, <2>1
    <2>. QED
      BY <1>3, <1>6, <1>7, <1>13, <2>1, <2>2, WrittenOrGone DEF g
  <1>15. ASSUME NEW m \in 1..Months, disk'[m].torn
         PROVE  d[m].torn \/ (held' # <<>> /\ held'[1].at = m)
    <2>1. CASE disk'[m] = w[m]
      BY <1>3, <1>15, <2>1 DEF Loop
    <2>2. CASE k < Len(es) /\ m = es[k + 1].at
      <3>1. held'[1] = es[k + 1]
        <4>1. 1 \in 1..(Len(es) - k)
          <5>1. \A n, j \in Nat : j < n => 1 \in 1..(n - j)
            OBVIOUS
          <5>2. Len(es) \in Nat /\ k \in Nat /\ k < Len(es)
            BY <1>1, <1>20, <2>2
          <5>. QED
            BY <5>1, <5>2, Zenon
        <4>. QED
          BY <1>12, <4>1
      <3>. QED
        BY <1>12, <2>2, <3>1
    <2>. QED
      BY <1>5, <2>1, <2>2
  <1>16. held' # <<>> => es # <<>> /\ held'[Len(held')] = es[Len(es)]
    <2>. SUFFICES ASSUME held' # <<>> PROVE es # <<>> /\ held'[Len(held')] = es[Len(es)]
      OBVIOUS
    <2>1. k < Len(es)
      BY <1>12, <1>20
    <2>2. Len(es) - k \in 1..(Len(es) - k) /\ k + (Len(es) - k) = Len(es) /\ es # <<>>
      BY <1>1, <2>1
    <2>. QED
      BY <1>12, <2>2
  <1>17. ASSUME held' = <<>>, es # <<>>
         PROVE  /\ Trail!ChainEnd(disk') = es[Len(es)] \/ es[Len(es)].id \in forked \cup cut'
                /\ ~disk'[es[Len(es)].at].torn
    <2>1. k = Len(es)
      BY <1>12, <1>17, <1>20
    <2>2. k > 0
      BY <1>1, <1>17, <1>20, <2>1
    <2>. QED
      BY <1>3, <1>5, <1>6, <1>7, <2>1, <2>2 DEF Loop, g
  <1>18. es = <<>> => disk' = d
    <2>. SUFFICES ASSUME es = <<>> PROVE disk' = d
      OBVIOUS
    <2>1. k = 0 /\ k = Len(es)
      BY <1>1
    <2>. QED
      BY <1>3, <1>5, <2>1 DEF Loop
  <1>. QED
    BY <1>7, <1>9, <1>10, <1>11, <1>13, <1>14, <1>15, <1>16, <1>17, <1>18

-----------------------------------------------------------------------------
(* What is logged is of a month that has begun. *)
LEMMA LoggedAt ==
  ASSUME TrailConstants, NEW d, Disk(d), NEW mo \in Nat, \A m \in 1..Months : m > mo => d[m] = Trail!Empty
  PROVE  /\ \A p \in Trail!Entries(d) : p[1] \in 1..Months /\ p[1] <= mo
         /\ \A x \in Trail!Logged(d) : x \in Entry /\ x.at \in 1..Months /\ x.at <= mo
  <1>1. \A p \in Trail!Entries(d) : p[1] \in 1..Months /\ p[1] <= mo
    <2>. SUFFICES ASSUME NEW p \in Trail!Entries(d), ~(p[1] \in 1..Months /\ p[1] <= mo) PROVE FALSE
      OBVIOUS
    <2>1. p[1] \in 1..Months /\ p[2] \in 1..Len(d[p[1]].lines)
      BY PlaceIs
    <2>2. d[p[1]] = Trail!Empty
      BY <2>1 DEF TrailConstants
    <2>. QED
      BY <2>1, <2>2 DEF Trail!Empty
  <1>2. ASSUME NEW x \in Trail!Logged(d) PROVE x \in Entry /\ x.at \in 1..Months /\ x.at <= mo
    <2>1. PICK p \in Trail!Entries(d) : x = Trail!LineAt(d, p)
      BY DEF Trail!Logged
    <2>2. x \in Entry /\ x.at = p[1]
      BY <2>1, EntryAt
    <2>. QED
      BY <1>1, <2>2
  <1>. QED
    BY <1>1, <1>2

(* The entry that the chain ends with. *)
LEMMA EndIs ==
  ASSUME TrailConstants, NEW d, Disk(d)
  PROVE  /\ Trail!ChainEnd(d).seq \in Nat /\ Trail!ChainEnd(d).id \in Nat
         /\ Trail!Entries(d) = {} => Trail!ChainEnd(d) = [seq |-> 0, id |-> 0]
  <1>1. PICK p : EndPlace(d, p)
    BY HasEnd
  <1>2. Trail!ChainEnd(d) = Trail!LineAt(d, p)
    BY <1>1, ChainEndIs
  <1>3. CASE p = Trail!Origin
    <2>1. Trail!LineAt(d, p) = [seq |-> 0, id |-> 0]
      BY <1>3 DEF Trail!LineAt, Trail!Genesis
    <2>. QED
      BY <1>2, <2>1
  <1>4. CASE p \in Trail!Entries(d)
    <2>1. Trail!LineAt(d, p) \in Entry
      BY <1>4, EntryAt
    <2>. QED
      BY <1>2, <1>4, <2>1 DEF Entry
  <1>. QED
    BY <1>1, <1>3, <1>4 DEF EndPlace, Trail!Places

(* A disk is ready for nothing when its chain is in order. *)
LEMMA NothingReady ==
  ASSUME NEW d, NEW es, NEW f, NEW c, NEW mo, Ready(d, es, f, c, mo),
         NEW w, Disk(w), InOrder(w, f, c), \A m \in 1..Months : m > mo => w[m] = Trail!Empty
  PROVE  Ready(w, <<>>, f, c, mo)
  <1>1. <<>> \in Seq(Entry) /\ DOMAIN <<>> = {} /\ Len(<<>>) = 0
    OBVIOUS
  <1>. QED
    BY <1>1 DEF Ready

(* More may be excused, of a disk and of what is to be written. *)
LEMMA ReadyMore ==
  ASSUME NEW d, NEW es, NEW f, NEW g, NEW c, NEW b, NEW mo, Ready(d, es, f, c, mo),
         f \subseteq g, c \subseteq b
  PROVE  Ready(d, es, g, b, mo)
  <1>1. InOrder(d, g, b) /\ (es # <<>> => Linked(d, es[1], g, b))
    BY ExcusedMore DEF Ready
  <1>2. \A i \in DOMAIN es : \A x \in Trail!Logged(d) :
          x.id # es[i].id /\ (x.at > es[i].at => {x.id, es[i].id} \subseteq g)
    BY DEF Ready
  <1>. QED
    BY <1>1, <1>2 DEF Ready

(* A disk that reads the same is ready for the same. *)
LEMMA ReadySame ==
  ASSUME TrailConstants, NEW d, NEW es, NEW f, NEW c, NEW mo, Ready(d, es, f, c, mo),
         NEW w, SameLog(d, w), \A m \in 1..Months : m > mo => w[m] = Trail!Empty
  PROVE  Ready(w, es, f, c, mo)
  <1>1. /\ Disk(w) /\ Trail!Logged(w) = Trail!Logged(d) /\ InOrder(w, f, c)
        /\ es # <<>> => Linked(w, es[1], f, c)
    BY SameLogSame DEF Ready, SameLog
  <1>. QED
    BY <1>1 DEF Ready

(* One entry more, of this month and with a new id. *)
LEMMA AppendReady ==
  ASSUME TrailConstants, NEW d, NEW es, NEW f, NEW c, NEW mo \in Nat, Ready(d, es, f, c, mo),
         NEW e \in Entry, e.at = mo,
         \A x \in Trail!Logged(d) \cup Trail!Elems(es) : x.id # e.id,
         es # <<>> => Trail!Follows(e, es[Len(es)]),
         es = <<>> => Linked(d, e, f, c)
  PROVE  Ready(d, Append(es, e), f, c, mo)
  <1>. DEFINE h == Append(es, e)
  <1>1. es \in Seq(Entry) /\ Len(es) \in Nat /\ DOMAIN es = 1..Len(es) /\ Disk(d)
    BY DEF Ready
  <1>2. /\ h \in Seq(Entry) /\ Len(h) = Len(es) + 1 /\ DOMAIN h = 1..(Len(es) + 1)
        /\ \A i \in 1..Len(es) : h[i] = es[i]
        /\ h[Len(es) + 1] = e
    BY <1>1
  <1>. HIDE DEF h
  <1>3. \A i \in DOMAIN h : (i \in DOMAIN es /\ h[i] = es[i]) \/ (i = Len(es) + 1 /\ h[i] = e)
    <2>1. \A n \in Nat : \A i \in 1..(n + 1) : i \in 1..n \/ i = n + 1
      OBVIOUS
    <2>. QED
      BY <1>1, <1>2, <2>1
  <1>4. \A i \in DOMAIN es : es[i] \in Trail!Elems(es) /\ es[i].at <= mo /\ es[i].at \in Nat
    <2>1. \A i \in DOMAIN es : es[i] \in Entry /\ es[i].at <= mo
      BY <1>1 DEF Ready
    <2>2. \A i \in DOMAIN es : es[i].at \in Nat
      BY <2>1 DEF Entry, TrailConstants
    <2>3. \A i \in DOMAIN es : es[i] \in Trail!Elems(es)
      BY DEF Trail!Elems
    <2>. QED
      BY <2>1, <2>2, <2>3
  <1>5. ASSUME NEW i \in DOMAIN h, NEW j \in DOMAIN h
        PROVE  h[i].at <= mo /\ (i <= j => h[i].at <= h[j].at) /\ (h[i].id = h[j].id => i = j)
    <2>1. CASE i \in DOMAIN es /\ h[i] = es[i] /\ j \in DOMAIN es /\ h[j] = es[j]
      BY <2>1 DEF Ready
    <2>2. CASE i \in DOMAIN es /\ h[i] = es[i] /\ j = Len(es) + 1 /\ h[j] = e
      BY <1>4, <2>2
    <2>3. CASE i = Len(es) + 1 /\ h[i] = e /\ j \in DOMAIN es /\ h[j] = es[j]
      <3>1. ~(i <= j)
        BY <1>1, <2>3
      <3>. QED
        BY <1>4, <2>3, <3>1
    <2>4. CASE i = Len(es) + 1 /\ h[i] = e /\ j = Len(es) + 1 /\ h[j] = e
      BY <2>4
    <2>. QED
      BY <1>3, <2>1, <2>2, <2>3, <2>4
  <1>6. ASSUME NEW i \in DOMAIN h, i < Len(h) PROVE Trail!Follows(h[i + 1], h[i])
    <2>1. i \in DOMAIN es /\ h[i] = es[i] /\ i + 1 \in DOMAIN h
      BY <1>1, <1>2, <1>6
    <2>2. CASE i + 1 \in DOMAIN es
      <3>1. h[i + 1] = es[i + 1] /\ i < Len(es)
        BY <1>1, <1>2, <2>1, <2>2
      <3>. QED
        BY <2>1, <3>1 DEF Ready
    <2>3. CASE i + 1 \notin DOMAIN es
      <3>1. i = Len(es) /\ h[i + 1] = e /\ es # <<>>
        BY <1>1, <1>2, <2>1, <2>3
      <3>. QED
        BY <2>1, <3>1
    <2>. QED
      BY <2>2, <2>3
  <1>7. Linked(d, h[1], f, c)
    <2>1. CASE es = <<>>
      <3>1. h[1] = e
        BY <1>2, <2>1
      <3>. QED
        BY <2>1, <3>1
    <2>2. CASE es # <<>>
      <3>1. 1 \in 1..Len(es)
        BY <1>1, <2>2
      <3>2. h[1] = es[1]
        BY <1>2, <3>1
      <3>. QED
        BY <2>2, <3>2 DEF Ready
    <2>. QED
      BY <2>1, <2>2
  <1>8. ASSUME NEW i \in DOMAIN h, NEW x \in Trail!Logged(d)
        PROVE  x.id # h[i].id /\ (x.at > h[i].at => {x.id, h[i].id} \subseteq f)
    <2>1. CASE i \in DOMAIN es /\ h[i] = es[i]
      BY <2>1 DEF Ready
    <2>2. CASE h[i] = e
      <3>1. x.at \in 1..Months /\ x.at <= mo
        BY <1>1, LoggedAt DEF Ready
      <3>. QED
        BY <2>2, <3>1 DEF TrailConstants
    <2>. QED
      BY <1>3, <2>1, <2>2
  <1>9. Ready(d, h, f, c, mo)
    BY <1>1, <1>2, <1>5, <1>6, <1>7, <1>8 DEF Ready
  <1>. QED
    BY <1>9 DEF h

(* Half a line that nobody missed is one of a held entry. *)
LEMMA HalfIsMissed ==
  ASSUME TrailConstants, month \in 1..Months, NEW d, NEW es, NEW f, NEW c, NEW w, NEW h,
         Ready(d, es, f, c, month), es # <<>>, d[month].torn => es[1].at = month,
         h \in Seq(Entry), Trail!Elems(h) \subseteq Trail!Elems(es),
         w[month].torn => d[month].torn \/ (h # <<>> /\ h[1].at = month),
         h = <<>> => ~w[es[Len(es)].at].torn, w[month].torn
  PROVE  h # <<>> /\ h[1].at = month
  <1>. SUFFICES ASSUME d[month].torn PROVE h # <<>> /\ h[1].at = month
    OBVIOUS
  <1>1. es \in Seq(Entry) /\ Len(es) \in Nat \ {0} /\ 1 \in DOMAIN es /\ Len(es) \in DOMAIN es
    BY DEF Ready
  <1>2. \A i \in DOMAIN es : es[i].at = month
    <2>1. \A i \in DOMAIN es : es[i] \in Entry /\ es[i].at <= month /\ es[1].at <= es[i].at
      BY <1>1 DEF Ready
    <2>2. \A i \in DOMAIN es : es[i].at \in Nat
      BY <2>1 DEF Entry, TrailConstants
    <2>. QED
      BY <2>1, <2>2 DEF TrailConstants
  <1>3. h # <<>>
    BY <1>1, <1>2
  <1>4. h[1] \in Trail!Elems(h)
    BY <1>3 DEF Trail!Elems
  <1>5. PICK i \in DOMAIN es : h[1] = es[i]
    BY <1>4 DEF Trail!Elems
  <1>. QED
    BY <1>2, <1>3, <1>5

-----------------------------------------------------------------------------
(* What the server remembers is of this disk; when it notices no change it *)
(* goes on from the end of the chain; and half a line of this month that   *)
(* it would not end is known to it.                                        *)
Remembers ==
  /\ AtLeast(disk, seen)
  /\ held = <<>> /\ (Trail!Seen(disk) = seen \/ Trail!Entries(disk) = {}) =>
       Trail!InStep \/ mac \in forked \cup cut
  /\ ~blind /\ disk[month].torn /\ (held = <<>> => Trail!Seen(disk) = seen) =>
       held # <<>> /\ held[1].at = month

LogInv ==
  /\ month \in 1..Months /\ server \in {"up", "stopping", "down"}
  /\ seq \in Nat /\ mac \in Nat /\ made \in Nat /\ blind \in BOOLEAN
  /\ Ready(disk, held, forked, cut, month)
  /\ \A e \in Trail!Logged(disk) \cup Trail!Elems(held) : e.id <= made
  /\ held # <<>> => held[Len(held)].seq = seq /\ held[Len(held)].id = mac
  /\ Trail!Serving => Remembers
  /\ server = "down" => held = <<>>

(* Where entries go: to the disk, among the held, or they are lost. *)
Moved(new) ==
  /\ cut \subseteq cut'
  /\ Trail!Logged(disk') \cup Trail!Elems(held') \subseteq
       Trail!Logged(disk) \cup Trail!Elems(held) \cup new
  /\ \A e \in Trail!Logged(disk) \cup Trail!Elems(held) \cup new :
       e \in Trail!Logged(disk') \cup Trail!Elems(held') \/ e.id \in cut'

(* record() *)
LEMMA RecordKeeps ==
  ASSUME TrailConstants, LogInv, Trail!Serving, NEW charge \in BOOLEAN, Trail!Record(charge),
         UNCHANGED <<month, server, forked, blind>>
  PROVE  /\ LogInv' /\ made' = made + 1
         /\ \E e : e.id = made' /\ e.charge = charge /\ Moved({e})
  <1>. DEFINE again == held = <<>> /\ Trail!Seen(disk) # seen
              d == IF again THEN Trail!Resumed(disk) ELSE disk
              after == IF again /\ Trail!Entries(d) # {} THEN Trail!ChainEnd(d) ELSE [seq |-> seq, id |-> mac]
              e == Trail!NewEntry(after, charge)
              es == Append(held, e)
              known == IF again THEN Trail!Seen(d) ELSE seen
  <1>1. made' = made + 1 /\ seq' = e.seq /\ mac' = e.id /\ Trail!Flush(d, es, known)
    BY DEF Trail!Record
  <1>2. /\ Disk(disk) /\ month \in 1..Months /\ month \in Nat /\ held \in Seq(Entry) /\ Len(held) \in Nat
        /\ \A m \in 1..Months : m > month => disk[m] = Trail!Empty
    BY DEF LogInv, Ready, TrailConstants
  <1>3. SameLog(disk, Trail!Resumed(disk)) /\ Disk(Trail!Resumed(disk))
        /\ (\A m \in 1..Months : m > month => Trail!Resumed(disk)[m] = Trail!Empty)
        /\ ~Trail!Resumed(disk)[month].torn
    <2>1. \A p \in Trail!Entries(disk) : p[1] <= month
      BY <1>2, LoggedAt
    <2>. QED
      BY <1>2, <2>1, ResumedIs DEF SameLog
  <1>4. /\ Disk(d) /\ Trail!ChainEnd(d) = Trail!ChainEnd(disk) /\ Trail!Logged(d) = Trail!Logged(disk)
        /\ Trail!Entries(d) = Trail!Entries(disk)
        /\ Ready(d, held, forked, cut, month) /\ (again => ~d[month].torn) /\ (~again => d = disk)
    <2>1. CASE again
      BY <1>2, <1>3, <2>1, SameLogSame, ReadySame DEF LogInv, SameLog
    <2>2. CASE ~again
      BY <1>2, <2>2 DEF LogInv
    <2>. QED
      BY <2>1, <2>2
  <1>5. /\ e.id = made + 1 /\ e.seq = after.seq + 1 /\ e.prev = after.id /\ e.at = month /\ e.charge = charge
        /\ e \in Entry
    <2>1. after.seq \in Nat /\ after.id \in Nat
      BY <1>2, <1>4, EndIs DEF LogInv
    <2>. HIDE DEF after
    <2>. QED
      BY <1>2, <2>1 DEF LogInv, Trail!NewEntry, Entry
  <1>6. Remembers
    BY DEF LogInv
  <1>7. held = <<>> => Linked(d, e, forked, cut)
    <2>. SUFFICES ASSUME held = <<>> PROVE Linked(d, e, forked, cut)
      OBVIOUS
    <2>1. CASE again /\ Trail!Entries(d) # {}
      BY <1>5, <2>1 DEF Linked, Trail!Follows
    <2>2. CASE ~(again /\ Trail!Entries(d) # {})
      <3>1. Trail!InStep \/ mac \in forked \cup cut
        BY <1>4, <1>6, <2>2 DEF Remembers
      <3>2. after = [seq |-> seq, id |-> mac]
        BY <2>2
      <3>. HIDE DEF after
      <3>3. e.seq = seq + 1 /\ e.prev = mac
        BY <1>5, <3>2
      <3>. HIDE DEF e
      <3>. QED
        BY <1>4, <3>1, <3>3 DEF Linked, Trail!Follows, Trail!InStep, Excused
    <2>. QED
      BY <2>1, <2>2
  <1>8. held # <<>> => Trail!Follows(e, held[Len(held)]) /\ ~again /\ d = disk
    <2>. SUFFICES ASSUME held # <<>> PROVE Trail!Follows(e, held[Len(held)]) /\ ~again /\ d = disk
      OBVIOUS
    <2>1. after = [seq |-> seq, id |-> mac]
      OBVIOUS
    <2>. HIDE DEF after
    <2>2. e.seq = seq + 1 /\ e.prev = mac
      BY <1>5, <2>1
    <2>. HIDE DEF e
    <2>. QED
      BY <1>4, <2>2 DEF LogInv, Trail!Follows
  <1>. HIDE DEF e, d, after, again
  <1>9. Ready(d, es, forked, cut, month)
    <2>1. \A x \in Trail!Logged(d) \cup Trail!Elems(held) : x.id # e.id
      <3>1. \A x \in Trail!Logged(disk) \cup Trail!Elems(held) : x \in Entry /\ x.id <= made
        <4>1. \A x \in Trail!Logged(disk) : x \in Entry
          BY <1>2, LoggedAt
        <4>2. \A x \in Trail!Elems(held) : x \in Entry
          BY <1>2 DEF Trail!Elems
        <4>. QED
          BY <4>1, <4>2 DEF LogInv
      <3>2. \A x \in Entry : x.id <= made => x.id # made + 1
        BY DEF LogInv, Entry
      <3>. QED
        BY <1>4, <1>5, <3>1, <3>2
    <2>. QED
      BY <1>2, <1>4, <1>5, <1>7, <1>8, <2>1, AppendReady
  <1>10. AtLeast(d, known)
    <2>1. NotShorter(d, d)
      BY <1>4, SizeIs DEF NotShorter, Disk
    <2>2. CASE again
      BY <1>4, <2>1, <2>2, SeenAtLeast
    <2>3. CASE ~again
      BY <1>4, <1>6, <2>3 DEF Remembers
    <2>. QED
      BY <2>2, <2>3
  <1>11. /\ es \in Seq(Entry) /\ es # <<>> /\ Len(es) = Len(held) + 1 /\ es[Len(es)] = e
         /\ (held = <<>> => es = <<e>>) /\ (held # <<>> => es[1] = held[1])
         /\ Trail!Elems(es) = Trail!Elems(held) \cup {e}
    <2>1. /\ es \in Seq(Entry) /\ Len(es) = Len(held) + 1 /\ es[Len(es)] = e /\ DOMAIN es = 1..(Len(held) + 1)
          /\ (\A i \in 1..Len(held) : es[i] = held[i]) /\ DOMAIN held = 1..Len(held)
          /\ es[Len(held) + 1] = e
      BY <1>2, <1>5
    <2>2. es # <<>> /\ (held = <<>> => es = <<e>>)
      <3>1. Len(es) # 0
        BY <1>2, <2>1
      <3>2. Append(<<>>, e) = <<e>>
        OBVIOUS
      <3>3. held = <<>> => es = <<e>>
        BY <3>2
      <3>. HIDE DEF es
      <3>4. Len(<<>>) = 0
        OBVIOUS
      <3>. QED
        BY <3>1, <3>3, <3>4
    <2>3. held # <<>> => 1 \in 1..Len(held)
      BY <1>2
    <2>4. 1..(Len(held) + 1) = (1..Len(held)) \cup {Len(held) + 1}
      BY <1>2
    <2>. HIDE DEF es
    <2>5. Trail!Elems(es) = Trail!Elems(held) \cup {e}
      BY <2>1, <2>4 DEF Trail!Elems
    <2>. QED
      BY <2>1, <2>2, <2>3, <2>5
  <1>12. held = <<>> /\ ~blind => ~d[month].torn
    BY <1>4, <1>6 DEF Remembers, again
  <1>13. held = <<>> /\ ~blind => \A i \in DOMAIN es : ~d[es[i].at].torn
    BY <1>5, <1>11, <1>12
  <1>. HIDE DEF es, known
  <1>14. /\ Ready(disk', held', forked, cut', month)
         /\ AtLeast(disk', seen')
         /\ cut \subseteq cut'
         /\ Trail!Logged(d) \subseteq Trail!Logged(disk')
         /\ Trail!Logged(disk') \subseteq Trail!Logged(d) \cup Trail!Elems(es)
         /\ Trail!Elems(held') \subseteq Trail!Elems(es)
         /\ \A x \in Trail!Elems(es) :
              x \in Trail!Logged(disk') \/ x \in Trail!Elems(held') \/ x.id \in cut'
         /\ \A m \in 1..Months : disk'[m].torn => d[m].torn \/ (held' # <<>> /\ held'[1].at = m)
         /\ held' # <<>> => es # <<>> /\ held'[Len(held')] = es[Len(es)]
         /\ held' = <<>> /\ es # <<>> =>
              /\ Trail!ChainEnd(disk') = es[Len(es)] \/ es[Len(es)].id \in forked \cup cut'
              /\ ~disk'[es[Len(es)].at].torn
    BY <1>1, <1>2, <1>9, <1>10, <1>13, FlushDoes
  <1>15. Moved({e})
    BY <1>4, <1>11, <1>14 DEF Moved
  <1>16. \A x \in Trail!Logged(disk') \cup Trail!Elems(held') : x.id <= made'
    <2>1. \A x \in Trail!Logged(disk) \cup Trail!Elems(held) : x \in Entry /\ x.id <= made
      <3>1. \A x \in Trail!Logged(disk) : x \in Entry
        BY <1>2, LoggedAt
      <3>2. \A x \in Trail!Elems(held) : x \in Entry
        BY <1>2 DEF Trail!Elems
      <3>. QED
        BY <3>1, <3>2 DEF LogInv
    <2>2. \A x \in Entry : x.id <= made => x.id <= made + 1
      BY DEF LogInv, Entry
    <2>3. e.id <= made + 1
      BY <1>5 DEF LogInv
    <2>. QED
      BY <1>1, <1>15, <2>1, <2>2, <2>3 DEF Moved
  <1>17. Remembers'
    <2>1. held' = <<>> => Trail!InStep' \/ mac' \in forked' \cup cut'
      BY <1>1, <1>11, <1>14 DEF Trail!InStep
    <2>2. ASSUME ~blind, disk'[month].torn PROVE held' # <<>> /\ held'[1].at = month
      <3>1. d[month].torn => es[1].at = month
        <4>1. CASE held = <<>>
          BY <1>12, <2>2, <4>1
        <4>2. CASE held # <<>>
          BY <1>6, <1>8, <1>11, <2>2, <4>2 DEF Remembers
        <4>. QED
          BY <4>1, <4>2
      <3>2. held' \in Seq(Entry)
        BY <1>14 DEF Ready
      <3>. QED
        BY <1>2, <1>9, <1>11, <1>14, <2>2, <3>1, <3>2, HalfIsMissed
    <2>. QED
      BY <1>14, <2>1, <2>2 DEF Remembers
  <1>18. LogInv'
    <2>1. seq' \in Nat /\ mac' \in Nat /\ made' \in Nat
      BY <1>1, <1>5 DEF LogInv, Entry
    <2>2. held' # <<>> => held'[Len(held')].seq = seq' /\ held'[Len(held')].id = mac'
      BY <1>1, <1>11, <1>14
    <2>3. server' # "down"
      BY DEF Trail!Serving
    <2>. QED
      BY <1>14, <1>16, <1>17, <2>1, <2>2, <2>3 DEF LogInv
  <1>. QED
    BY <1>1, <1>5, <1>15, <1>18

(* flushSync() outside record() *)
LEMMA FlushOnlyKeeps ==
  ASSUME TrailConstants, LogInv, Trail!Serving, Trail!FlushOnly, Trail!Serving',
         UNCHANGED <<month, seq, mac, made>>
  PROVE  LogInv' /\ Moved({})
  <1>1. /\ Disk(disk) /\ month \in 1..Months /\ month \in Nat /\ held \in Seq(Entry) /\ Len(held) \in Nat
        /\ Ready(disk, held, forked, cut, month) /\ Remembers /\ Trail!Flush(disk, held, seen)
    BY DEF LogInv, Ready, TrailConstants, Trail!FlushOnly
  <1>2. /\ Ready(disk', held', forked, cut', month)
        /\ AtLeast(disk', seen')
        /\ cut \subseteq cut'
        /\ Trail!Logged(disk) \subseteq Trail!Logged(disk')
        /\ Trail!Logged(disk') \subseteq Trail!Logged(disk) \cup Trail!Elems(held)
        /\ Trail!Elems(held') \subseteq Trail!Elems(held)
        /\ \A x \in Trail!Elems(held) :
             x \in Trail!Logged(disk') \/ x \in Trail!Elems(held') \/ x.id \in cut'
        /\ \A m \in 1..Months : disk'[m].torn => disk[m].torn \/ (held' # <<>> /\ held'[1].at = m)
        /\ held' # <<>> => held # <<>> /\ held'[Len(held')] = held[Len(held)]
        /\ held' = <<>> /\ held # <<>> =>
             /\ Trail!ChainEnd(disk') = held[Len(held)] \/ held[Len(held)].id \in forked \cup cut'
             /\ ~disk'[held[Len(held)].at].torn
        /\ held = <<>> => disk' = disk
    <2>1. AtLeast(disk, seen)
      BY <1>1 DEF Remembers
    <2>2. held = <<>> => \A i \in DOMAIN held : ~disk[held[i].at].torn
      OBVIOUS
    <2>. QED
      BY <1>1, <2>1, <2>2, FlushDoes
  <1>3. Moved({})
    BY <1>2 DEF Moved
  <1>4. forked \subseteq forked' /\ (held = <<>> /\ ~Trail!InStep => mac \in forked')
    BY DEF Trail!FlushOnly
  <1>5. Ready(disk', held', forked', cut', month')
    BY <1>2, <1>4, ReadyMore
  <1>6. \A x \in Trail!Logged(disk') \cup Trail!Elems(held') : x.id <= made'
    BY <1>3 DEF Moved, LogInv
  <1>7. Remembers'
    <2>1. held' = <<>> => Trail!InStep' \/ mac' \in forked' \cup cut'
      <3>1. CASE held = <<>>
        BY <1>2, <1>4, <3>1 DEF Trail!InStep
      <3>2. CASE held # <<>>
        BY <1>2, <1>4, <3>2 DEF LogInv, Trail!InStep
      <3>. QED
        BY <3>1, <3>2
    <2>2. ASSUME ~blind', disk'[month].torn PROVE held' # <<>> /\ held'[1].at = month
      <3>1. ~blind /\ ~(held = <<>> /\ disk[month].torn)
        BY <2>2 DEF Trail!FlushOnly
      <3>2. held # <<>>
        BY <1>2, <2>2, <3>1
      <3>3. disk[month].torn => held[1].at = month
        BY <1>1, <3>1, <3>2 DEF Remembers
      <3>4. held' \in Seq(Entry)
        BY <1>2 DEF Ready
      <3>. QED
        BY <1>1, <1>2, <2>2, <3>2, <3>3, <3>4, HalfIsMissed
    <2>. QED
      BY <1>2, <2>1, <2>2 DEF Remembers
  <1>8. blind' \in BOOLEAN
    BY DEF Trail!FlushOnly, LogInv
  <1>9. held' # <<>> => held'[Len(held')].seq = seq' /\ held'[Len(held')].id = mac'
    BY <1>2 DEF LogInv
  <1>10. server' \in {"up", "stopping", "down"} /\ server' # "down"
    BY DEF Trail!Serving
  <1>. QED
    BY <1>3, <1>5, <1>6, <1>7, <1>8, <1>9, <1>10 DEF LogInv

(* The last flushSync() of a server, and its end. *)
LEMMA ExitKeeps ==
  ASSUME TrailConstants, LogInv, Trail!Exit
  PROVE  /\ LogInv' /\ cut \subseteq cut' /\ unlogged \subseteq unlogged'
         /\ Trail!Logged(disk') \subseteq Trail!Logged(disk) \cup Trail!Elems(held)
         /\ \A e \in Trail!Logged(disk) \cup Trail!Elems(held) :
              e \in Trail!Logged(disk') \/ e.id \in cut' \cup unlogged'
  <1>1. PICK k \in 0..Len(held) :
          LET w == Trail!Written(disk, held, k)
          IN  /\ disk' \in IF k < Len(held) THEN Trail!Failed(w, held[k + 1]) ELSE {w}
              /\ cut' = cut \cup (Trail!Ids(Trail!Elems(SubSeq(held, 1, k))) \ Trail!Ids(Trail!Logged(w)))
              /\ unlogged' = unlogged \cup Trail!Ids(Trail!Elems(SubSeq(held, k + 1, Len(held))))
    BY DEF Trail!Exit
  <1>. DEFINE w == Trail!Written(disk, held, k)
              rest == SubSeq(held, k + 1, Len(held))
              g == Gone(held, k, w)
  <1>2. /\ Disk(disk) /\ month \in 1..Months /\ month \in Nat /\ held \in Seq(Entry) /\ Len(held) \in Nat
        /\ Ready(disk, held, forked, cut, month)
    BY DEF LogInv, Ready, TrailConstants
  <1>3. Loop(disk, held, forked, cut, month, w, k)
    BY <1>2, WrittenLoop
  <1>4. /\ Trail!Elems(SubSeq(held, 1, k)) = {held[i] : i \in 1..k}
        /\ rest \in Seq(Entry) /\ Len(rest) = Len(held) - k
        /\ \A i \in 1..(Len(held) - k) : rest[i] = held[k + i] /\ k + i \in DOMAIN held
    BY <1>2, Split
  <1>5. cut' = cut \cup g /\ unlogged' = unlogged \cup Trail!Ids(Trail!Elems(rest))
    <2>1. Trail!Ids({held[i] : i \in 1..k}) = {held[i].id : i \in 1..k}
      BY DEF Trail!Ids
    <2>. QED
      BY <1>1, <1>4, <2>1 DEF Gone
  <1>6. disk' \in IF k < Len(held) THEN Trail!Failed(w, held[k + 1]) ELSE {w}
    BY <1>1
  <1>. HIDE DEF w, rest, g
  <1>7. SameLog(w, disk') /\ \A m \in 1..Months : m > month => disk'[m] = Trail!Empty
    <2>1. Disk(w) /\ \A m \in 1..Months : m > month => w[m] = Trail!Empty
      BY <1>3 DEF Loop
    <2>2. CASE ~(k < Len(held))
      BY <1>6, <2>1, <2>2 DEF SameLog
    <2>3. CASE k < Len(held)
      <3>1. k + 1 \in DOMAIN held
        BY <1>2, <2>3
      <3>2. held[k + 1] \in Entry /\ held[k + 1].at <= month
        BY <1>2, <3>1 DEF Ready
      <3>3. held[k + 1].at \in Nat
        BY <3>2 DEF Entry, TrailConstants
      <3>4. /\ SameLog(w, disk')
            /\ \A m \in 1..Months \ {held[k + 1].at} : disk'[m] = w[m]
        BY <1>6, <2>1, <2>3, <3>2, HalfIs
      <3>5. \A m \in 1..Months : m > month => m # held[k + 1].at
        BY <1>2, <3>2, <3>3 DEF TrailConstants
      <3>. QED
        BY <2>1, <3>4, <3>5
    <2>. QED
      BY <2>2, <2>3
  <1>8. Trail!Logged(disk') = Trail!Logged(w) /\ InOrder(disk', forked, cut') /\ Disk(disk')
    BY <1>3, <1>5, <1>7, SameLogSame DEF Loop, SameLog, g
  <1>9. Ready(disk', <<>>, forked, cut', month)
    <2>1. Ready(disk, held, forked, cut', month)
      BY <1>2, <1>5, ReadyMore
    <2>. QED
      BY <1>7, <1>8, <2>1, NothingReady
  <1>10. \A x \in Trail!Elems(held) :
           x \in Trail!Logged(w) \/ x.id \in g \/ x \in Trail!Elems(rest)
    <2>. SUFFICES ASSUME NEW i \in DOMAIN held
                  PROVE  held[i] \in Trail!Logged(w) \/ held[i].id \in g \/ held[i] \in Trail!Elems(rest)
      BY DEF Trail!Elems
    <2>1. CASE i \in 1..k
      BY <1>2, <1>3, <2>1, WrittenOrGone DEF g
    <2>2. CASE i \notin 1..k
      <3>. DEFINE j == i - k
      <3>1. j \in 1..(Len(held) - k) /\ k + j = i
        BY <1>2, <2>2
      <3>. HIDE DEF j
      <3>2. held[i] = rest[j] /\ j \in DOMAIN rest
        BY <1>4, <3>1
      <3>. QED
        BY <3>2 DEF Trail!Elems
    <2>. QED
      BY <2>1, <2>2
  <1>11. /\ Trail!Logged(disk) \subseteq Trail!Logged(disk')
         /\ Trail!Logged(disk') \subseteq Trail!Logged(disk) \cup Trail!Elems(held)
    <2>1. {held[i] : i \in 1..k} \subseteq Trail!Elems(held)
      BY <1>2 DEF Trail!Elems
    <2>. QED
      BY <1>3, <1>8, <2>1 DEF Loop
  <1>12. \A e \in Trail!Logged(disk) \cup Trail!Elems(held) :
           e \in Trail!Logged(disk') \/ e.id \in cut' \cup unlogged'
    BY <1>5, <1>8, <1>10, <1>11 DEF Trail!Ids
  <1>13. LogInv'
    <2>1. /\ server' = "down" /\ seq' = 0 /\ mac' = 0 /\ held' = <<>>
          /\ UNCHANGED <<month, made, forked, blind>>
      BY DEF Trail!Exit, Trail!Ended, Trail!Genesis
    <2>2. Trail!Elems(<<>>) = {}
      BY DEF Trail!Elems
    <2>3. \A e \in Trail!Logged(disk') : e.id <= made
      BY <1>11 DEF LogInv
    <2>. QED
      BY <1>9, <2>1, <2>2, <2>3 DEF LogInv, Trail!Serving
  <1>. QED
    BY <1>5, <1>11, <1>12, <1>13

(* The server dies with what it held. *)
LEMMA CrashKeeps ==
  ASSUME TrailConstants, LogInv, Trail!Crash
  PROVE  LogInv'
  <1>1. /\ server' = "down" /\ seq' = 0 /\ mac' = 0 /\ held' = <<>>
        /\ UNCHANGED <<disk, cut, month, made, forked, blind>>
    BY DEF Trail!Crash, Trail!Ended, Trail!Genesis
  <1>2. Ready(disk, <<>>, forked, cut, month)
    BY NothingReady DEF LogInv, Ready
  <1>3. Trail!Elems(<<>>) = {}
    BY DEF Trail!Elems
  <1>. QED
    BY <1>1, <1>2, <1>3 DEF LogInv, Trail!Serving

(* It starts again, and ends half a line on the way. *)
LEMMA RestartKeeps ==
  ASSUME TrailConstants, LogInv, Trail!Restart
  PROVE  LogInv' /\ Trail!Logged(disk') = Trail!Logged(disk)
  <1>1. /\ server = "down" /\ server' = "up" /\ disk' = Trail!Resumed(disk) /\ seen' = Trail!Seen(disk')
        /\ seq' = Trail!ChainEnd(disk).seq /\ mac' = Trail!ChainEnd(disk).id /\ blind' = FALSE
        /\ UNCHANGED <<month, held, made, forked, cut>> /\ held = <<>>
    BY DEF Trail!Restart, LogInv
  <1>2. /\ Disk(disk) /\ month \in 1..Months /\ month \in Nat
        /\ \A m \in 1..Months : m > month => disk[m] = Trail!Empty
    BY DEF LogInv, Ready, TrailConstants
  <1>3. \A p \in Trail!Entries(disk) : p[1] <= month
    BY <1>2, LoggedAt
  <1>4. /\ SameLog(disk, disk') /\ Disk(disk')
        /\ \A m \in 1..Months : m > month => disk'[m] = Trail!Empty
        /\ ~disk'[month].torn
    BY <1>1, <1>2, <1>3, ResumedIs DEF SameLog
  <1>5. Trail!ChainEnd(disk') = Trail!ChainEnd(disk) /\ Trail!Logged(disk') = Trail!Logged(disk)
    BY <1>2, <1>4, SameLogSame
  <1>6. Ready(disk', held', forked', cut', month')
    BY <1>1, <1>4, ReadySame DEF LogInv
  <1>7. AtLeast(disk', seen')
    <2>1. NotShorter(disk', disk')
      BY <1>4, SizeIs DEF NotShorter, Disk
    <2>. QED
      BY <1>1, <1>4, <2>1, SeenAtLeast
  <1>8. Remembers'
    BY <1>1, <1>4, <1>5, <1>7 DEF Remembers, Trail!InStep
  <1>9. seq' \in Nat /\ mac' \in Nat
    BY <1>1, <1>2, EndIs
  <1>. QED
    BY <1>1, <1>5, <1>6, <1>8, <1>9 DEF LogInv

(* A month begins. *)
LEMMA NewMonthKeeps ==
  ASSUME TrailConstants, LogInv, Trail!NewMonth
  PROVE  LogInv' /\ UNCHANGED <<disk, held>>
  <1>1. /\ month' = month + 1 /\ month < Months
        /\ UNCHANGED <<disk, seq, mac, held, seen, made, server, forked, cut, blind>>
    BY DEF Trail!NewMonth
  <1>2. Ready(disk, held, forked, cut, month) /\ month \in 1..Months
    BY DEF LogInv
  <1>3. month' \in 1..Months /\ month' \in Nat /\ disk[month'] = Trail!Empty
    BY <1>1, <1>2 DEF Ready, TrailConstants
  <1>4. Ready(disk, held, forked, cut, month')
    <2>1. \A i \in DOMAIN held : held[i].at <= month'
      <3>1. \A i \in DOMAIN held : held[i] \in Entry /\ held[i].at <= month
        BY <1>2 DEF Ready
      <3>2. \A i \in DOMAIN held : held[i].at \in Nat
        BY <3>1 DEF Entry, TrailConstants
      <3>. QED
        BY <1>1, <1>2, <3>1, <3>2 DEF TrailConstants
    <2>2. \A m \in 1..Months : m > month' => disk[m] = Trail!Empty
      BY <1>1, <1>2 DEF Ready, TrailConstants
    <2>. QED
      BY <1>2, <2>1, <2>2 DEF Ready
  <1>5. ~disk[month'].torn
    BY <1>3 DEF Trail!Empty
  <1>6. Remembers => Remembers'
    BY <1>1, <1>5 DEF Remembers, Trail!InStep
  <1>. QED
    BY <1>1, <1>3, <1>4, <1>6 DEF LogInv, Trail!Serving

(* A command: its entry comes next on the disk, and then before those that *)
(* are held; or half of it is written, which is noticed.                   *)
LEMMA CommandKeeps ==
  ASSUME TrailConstants, LogInv, Trail!Command
  PROVE  /\ LogInv' /\ UNCHANGED held
         /\ \E new : Moved(new) /\ \A e \in new : e.charge = FALSE
  <1>. DEFINE d == Trail!Resumed(disk)
              e == Trail!NewEntry(Trail!ChainEnd(d), FALSE)
  <1>1. /\ made' = made + 1 /\ UNCHANGED <<month, seq, mac, held, seen, server, cut>>
        /\ \/ /\ disk' = Trail!Put(d, e)
              /\ forked' = IF held = <<>> THEN forked ELSE forked \cup Trail!Ids(Trail!Elems(held)) \cup {e.id}
              /\ UNCHANGED blind
           \/ /\ disk' \in Trail!Failed(d, e)
              /\ blind' = (blind \/ (held # <<>> /\ disk' # d))
              /\ UNCHANGED forked
    BY DEF Trail!Command
  <1>2. /\ Disk(disk) /\ month \in 1..Months /\ month \in Nat /\ held \in Seq(Entry)
        /\ \A m \in 1..Months : m > month => disk[m] = Trail!Empty
        /\ Ready(disk, held, forked, cut, month)
    BY DEF LogInv, Ready, TrailConstants
  <1>3. \A p \in Trail!Entries(disk) : p[1] <= month
    BY <1>2, LoggedAt
  <1>4. /\ SameLog(disk, d) /\ Disk(d) /\ NotShorter(disk, d)
        /\ \A m \in 1..Months : m > month => d[m] = Trail!Empty
        /\ ~d[month].torn
    BY <1>2, <1>3, ResumedIs DEF SameLog
  <1>5. /\ Trail!ChainEnd(d) = Trail!ChainEnd(disk) /\ Trail!Logged(d) = Trail!Logged(disk)
        /\ Ready(d, held, forked, cut, month)
    BY <1>2, <1>4, SameLogSame, ReadySame
  <1>6. e.id = made + 1 /\ e.at = month /\ e.charge = FALSE /\ e \in Entry /\ Trail!Follows(e, Trail!ChainEnd(d))
    <2>1. Trail!ChainEnd(d).seq \in Nat /\ Trail!ChainEnd(d).id \in Nat
      BY <1>4, EndIs
    <2>. HIDE DEF d
    <2>. QED
      BY <1>2, <2>1 DEF LogInv, Trail!NewEntry, Entry, Trail!Follows
  <1>. HIDE DEF d, e
  <1>7. /\ \A x \in Trail!Logged(disk) : x \in Entry /\ x.id <= made /\ x.id # e.id /\ ~(x.at > month)
        /\ \A x \in Trail!Elems(held) : x \in Entry /\ x.id <= made /\ x.id # e.id
    <2>1. \A x \in Trail!Logged(disk) : x \in Entry /\ x.at \in 1..Months /\ x.at <= month
      BY <1>2, LoggedAt
    <2>2. \A x \in Trail!Elems(held) : x \in Entry
      BY <1>2 DEF Trail!Elems
    <2>3. \A x \in Trail!Logged(disk) \cup Trail!Elems(held) : x \in Entry /\ x.id <= made
      BY <2>1, <2>2 DEF LogInv
    <2>4. \A x \in Entry : x.id <= made => x.id # made + 1
      BY DEF LogInv, Entry
    <2>5. \A x \in Trail!Logged(disk) : ~(x.at > month)
      <3>1. \A a \in 1..Months : a <= month => ~(a > month)
        BY <1>2 DEF TrailConstants
      <3>. QED
        BY <2>1, <3>1
    <2>. QED
      BY <1>6, <2>3, <2>4, <2>5
  <1>8. Trail!Serving => Remembers
    BY DEF LogInv
  <1>9. /\ Disk(disk') /\ NotShorter(d, disk') /\ \A m \in 1..Months \ {month} : disk'[m] = d[m]
        /\ \/ /\ Added(d, disk', e) /\ ~disk'[month].torn /\ Trail!Size(d[month]) < Trail!Size(disk'[month])
              /\ forked' = IF held = <<>> THEN forked ELSE forked \cup Trail!Ids(Trail!Elems(held)) \cup {e.id}
              /\ UNCHANGED blind
           \/ /\ SameLog(d, disk')
              /\ disk' # d => Trail!Size(d[month]) < Trail!Size(disk'[month])
              /\ blind' = (blind \/ (held # <<>> /\ disk' # d))
              /\ UNCHANGED forked
    <2>1. CASE /\ disk' = Trail!Put(d, e)
               /\ forked' = IF held = <<>> THEN forked ELSE forked \cup Trail!Ids(Trail!Elems(held)) \cup {e.id}
               /\ UNCHANGED blind
      BY <1>4, <1>6, <2>1, PutIs DEF Added
    <2>2. CASE /\ disk' \in Trail!Failed(d, e)
               /\ blind' = (blind \/ (held # <<>> /\ disk' # d))
               /\ UNCHANGED forked
      BY <1>4, <1>6, <2>2, HalfIs DEF SameLog
    <2>. QED
      BY <1>1, <2>1, <2>2
  <1>10. /\ NotShorter(disk, disk') /\ Trail!Size(disk[month]) \in Nat /\ Trail!Size(d[month]) \in Nat
         /\ Trail!Size(disk'[month]) \in Nat /\ Trail!Size(disk[month]) <= Trail!Size(d[month])
    <2>1. \A m \in 1..Months : Trail!Size(disk[m]) \in Nat /\ Trail!Size(d[m]) \in Nat /\ Trail!Size(disk'[m]) \in Nat
      BY <1>2, <1>4, <1>9, SizeIs DEF Disk
    <2>. QED
      BY <1>2, <1>4, <1>9, <2>1 DEF NotShorter
  <1>11. \A m \in 1..Months : m > month => disk'[m] = Trail!Empty
    BY <1>2, <1>4, <1>9 DEF TrailConstants
  <1>12. Trail!Size(d[month]) < Trail!Size(disk'[month]) /\ Trail!Serving => Trail!Seen(disk') # seen
    <2>. SUFFICES ASSUME Trail!Size(d[month]) < Trail!Size(disk'[month]), Trail!Serving
                  PROVE  Trail!Seen(disk') # seen
      OBVIOUS
    <2>1. Trail!Size(disk[month]) < Trail!Size(disk'[month])
      BY <1>10
    <2>2. AtLeast(disk, seen)
      BY <1>8 DEF Remembers
    <2>. QED
      BY <1>2, <1>9, <1>10, <1>11, <2>1, <2>2, GrownIsSeen
  <1>13. Ready(disk', held, forked', cut, month) /\ forked \subseteq forked'
    <2>1. CASE SameLog(d, disk') /\ UNCHANGED forked
      BY <1>5, <1>11, <2>1, ReadySame
    <2>2. CASE /\ Added(d, disk', e)
               /\ forked' = IF held = <<>> THEN forked ELSE forked \cup Trail!Ids(Trail!Elems(held)) \cup {e.id}
      <3>1. forked \subseteq forked' /\ \A x \in Trail!Elems(held) : {x.id, e.id} \subseteq forked'
        BY <2>2 DEF Trail!Ids, Trail!Elems
      <3>2. InOrder(d, forked, cut)
        BY <1>5 DEF Ready
      <3>3. Linked(d, e, forked, cut)
        BY <1>6 DEF Linked
      <3>4. \A x \in Trail!Logged(d) : x.at > e.at => {x.id, e.id} \subseteq forked
        BY <1>5, <1>6, <1>7
      <3>5. InOrder(disk', forked, cut) /\ Trail!Logged(disk') = Trail!Logged(d) \cup {e}
        BY <1>4, <1>6, <2>2, <3>2, <3>3, <3>4, AddedKeeps
      <3>6. InOrder(disk', forked', cut)
        BY <3>1, <3>5, ExcusedMore
      <3>7. \A i \in DOMAIN held : held[i] \in Trail!Elems(held)
        BY DEF Trail!Elems
      <3>8. held # <<>> => Linked(disk', held[1], forked', cut)
        <4>1. held # <<>> => 1 \in DOMAIN held
          BY <1>2
        <4>. QED
          BY <3>1, <3>7, <4>1 DEF Linked, Excused
      <3>9. \A i \in DOMAIN held : \A x \in Trail!Logged(disk') :
              x.id # held[i].id /\ (x.at > held[i].at => {x.id, held[i].id} \subseteq forked')
        <4>. SUFFICES ASSUME NEW i \in DOMAIN held, NEW x \in Trail!Logged(disk')
                      PROVE  x.id # held[i].id /\ (x.at > held[i].at => {x.id, held[i].id} \subseteq forked')
          OBVIOUS
        <4>1. CASE x \in Trail!Logged(d)
          BY <1>5, <3>1, <4>1 DEF Ready
        <4>2. CASE x = e
          BY <1>7, <3>1, <3>7, <4>2
        <4>. QED
          BY <3>5, <4>1, <4>2
      <3>. QED
        BY <1>5, <1>9, <1>11, <3>1, <3>6, <3>8, <3>9 DEF Ready
    <2>. QED
      BY <1>9, <2>1, <2>2
  <1>14. PICK new \in SUBSET {e} : Moved(new)
    <2>1. CASE Added(d, disk', e)
      <3>1. InOrder(d, forked, cut) /\ Linked(d, e, forked, cut)
        BY <1>5, <1>6 DEF Ready, Linked
      <3>2. \A x \in Trail!Logged(d) : x.at > e.at => {x.id, e.id} \subseteq forked
        BY <1>5, <1>6, <1>7
      <3>3. Trail!Logged(disk') = Trail!Logged(disk) \cup {e}
        BY <1>4, <1>5, <1>6, <2>1, <3>1, <3>2, AddedKeeps
      <3>4. Moved({e})
        BY <1>1, <3>3 DEF Moved
      <3>. QED
        BY <3>4
    <2>2. CASE SameLog(d, disk')
      <3>1. Trail!Logged(disk') = Trail!Logged(disk)
        BY <1>4, <1>5, <2>2, SameLogSame
      <3>2. Moved({})
        BY <1>1, <3>1 DEF Moved
      <3>. QED
        BY <3>2
    <2>. QED
      BY <1>9, <2>1, <2>2
  <1>15. \A x \in Trail!Logged(disk') \cup Trail!Elems(held') : x.id <= made'
    <2>1. \A x \in Entry : x.id <= made => x.id <= made + 1
      BY DEF LogInv, Entry
    <2>2. e.id <= made + 1
      BY <1>6 DEF LogInv
    <2>. QED
      BY <1>1, <1>7, <1>14, <2>1, <2>2 DEF Moved
  <1>16. Trail!Serving => Remembers'
    <2>. SUFFICES ASSUME Trail!Serving PROVE Remembers'
      OBVIOUS
    <2>1. Remembers
      BY <1>8
    <2>2. AtLeast(disk', seen)
      BY <1>2, <1>9, <1>10, <2>1, SeenAtLeast DEF Remembers
    <2>3. ASSUME held = <<>>, Trail!Seen(disk') = seen \/ Trail!Entries(disk') = {}
          PROVE  Trail!InStep' \/ mac \in forked' \cup cut
      <3>1. SameLog(d, disk')
        <4>. SUFFICES ASSUME Added(d, disk', e), Trail!Size(d[month]) < Trail!Size(disk'[month]) PROVE FALSE
          BY <1>9
        <4>1. Trail!Entries(disk') # {}
          BY DEF Added
        <4>. QED
          BY <1>12, <2>3, <4>1
      <3>2. Trail!Entries(disk') = Trail!Entries(disk) /\ Trail!ChainEnd(disk') = Trail!ChainEnd(disk)
        BY <1>4, <1>5, <3>1, SameLogSame DEF SameLog
      <3>3. Trail!Seen(disk') = seen => Trail!Seen(disk) = seen
        BY <1>2, <1>9, <1>10, <2>1, SeenAtLeast DEF Remembers
      <3>4. Trail!InStep \/ mac \in forked \cup cut
        BY <2>1, <2>3, <3>2, <3>3 DEF Remembers
      <3>. QED
        BY <1>1, <1>13, <3>2, <3>4 DEF Trail!InStep
    <2>4. ASSUME ~blind', disk'[month].torn, held = <<>> => Trail!Seen(disk') = seen PROVE FALSE
      <3>1. disk' # d
        BY <1>4, <2>4
      <3>2. held = <<>> /\ Trail!Size(d[month]) < Trail!Size(disk'[month])
        BY <1>9, <2>4, <3>1
      <3>. QED
        BY <1>12, <2>4, <3>2
    <2>. QED
      BY <1>1, <2>2, <2>3, <2>4 DEF Remembers
  <1>17. blind' \in BOOLEAN /\ made' \in Nat
    <2>1. blind \in BOOLEAN /\ made \in Nat
      BY DEF LogInv
    <2>2. blind' = blind \/ blind' = (blind \/ (held # <<>> /\ disk' # d))
      BY <1>1
    <2>3. blind' \in BOOLEAN
      BY <2>1, <2>2
    <2>. QED
      BY <1>1, <2>1, <2>3
  <1>18. LogInv'
    <2>1. Trail!Serving' => Trail!Serving
      BY <1>1 DEF Trail!Serving
    <2>. QED
      BY <1>1, <1>13, <1>15, <1>16, <1>17, <2>1 DEF LogInv
  <1>. QED
    BY <1>1, <1>6, <1>14, <1>18

-----------------------------------------------------------------------------
(* The ledger and the log. *)
BookInv ==
  /\ Trail!BooksAgree
  /\ saved \subseteq ledger
  /\ server = "stopping" => atStop \subseteq saved
  /\ server # "stopping" => atStop = {}

TrailInv == LogInv /\ BookInv

(* Entries that move, with the charges among them, leave the books in agreement. *)
LEMMA BooksMoved ==
  ASSUME NEW new, Moved(new), Trail!BooksAgree,
         ledger' = ledger \cup {e.id : e \in {x \in new : x.charge}},
         UNCHANGED <<forgotten, unlogged>>
  PROVE  Trail!BooksAgree'
  <1>1. Trail!Audited' \subseteq Trail!Audited \cup {e.id : e \in {x \in new : x.charge}}
    BY DEF Moved, Trail!Audited
  <1>2. Trail!Audited \cup {e.id : e \in {x \in new : x.charge}} \subseteq Trail!Audited' \cup cut'
    BY DEF Moved, Trail!Audited
  <1>3. cut \subseteq cut'
    BY DEF Moved
  <1>. QED
    BY <1>1, <1>2, <1>3 DEF Trail!BooksAgree

(* Nothing of the log changes. *)
LEMMA LogStays ==
  ASSUME LogInv, UNCHANGED <<disk, month, seq, mac, held, seen, made, server, forked, cut, blind>>
  PROVE  LogInv'
  <1>1. Trail!Serving' = Trail!Serving /\ Remembers' = Remembers
    BY DEF Trail!Serving, Remembers, Trail!InStep
  <1>. QED
    BY <1>1 DEF LogInv

(* The invariant holds of the first log, which is empty... *)
LEMMA TrailInit ==
  ASSUME TrailConstants, Trail!Init
  PROVE  TrailInv
  <1>1. /\ disk = [m \in 1..Months |-> Trail!Empty] /\ month = 1
        /\ server = "up" /\ seq = 0 /\ mac = 0 /\ held = <<>> /\ seen = <<0, 0>>
        /\ ledger = {} /\ saved = {} /\ made = 0 /\ forked = {} /\ cut = {} /\ blind = FALSE
        /\ unlogged = {} /\ forgotten = {} /\ atStop = {}
    BY DEF Trail!Init, Trail!Genesis
  <1>2. \A m \in 1..Months : disk[m] = Trail!Empty
    BY <1>1
  <1>3. Disk(disk)
    <2>1. Trail!Empty \in File /\ DOMAIN Trail!Empty.lines = {}
      BY DEF File, Trail!Empty
    <2>. QED
      BY <1>1, <1>2, <2>1 DEF Disk
  <1>4. Trail!Entries(disk) = {} /\ Trail!Logged(disk) = {}
    <2>1. \A m \in 1..Months : Len(disk[m].lines) = 0
      BY <1>2 DEF Trail!Empty
    <2>2. \A p : p \notin Trail!Entries(disk)
      BY <1>3, <2>1, PlaceIs
    <2>. QED
      BY <2>2 DEF Trail!Logged
  <1>5. InOrder(disk, {}, {})
    <2>1. Trail!Places(disk) = {Trail!Origin}
      BY <1>4 DEF Trail!Places
    <2>2. ~Trail!Comes(Trail!Origin, Trail!Origin)
      BY DEF Trail!Comes, Trail!Origin
    <2>. QED
      BY <2>1, <2>2 DEF InOrder, NextTo
  <1>6. Ready(disk, held, forked, cut, month)
    <2>1. <<>> \in Seq(Entry) /\ DOMAIN <<>> = {} /\ Len(<<>>) = 0
      OBVIOUS
    <2>. QED
      BY <1>1, <1>2, <1>3, <1>5, <2>1 DEF Ready
  <1>7. month \in 1..Months
    BY <1>1 DEF TrailConstants
  <1>8. Remembers
    <2>1. Trail!InStep
      <3>1. Trail!ChainEnd(disk) = [seq |-> 0, id |-> 0]
        BY <1>3, <1>4, EndIs
      <3>2. seq = 0 /\ mac = 0
        BY <1>1
      <3>. QED
        BY <3>1, <3>2 DEF Trail!InStep
    <2>2. ~disk[month].torn
      BY <1>2, <1>7 DEF Trail!Empty
    <2>. QED
      BY <1>1, <2>1, <2>2 DEF Remembers, AtLeast
  <1>9. Trail!Elems(held) = {}
    BY <1>1 DEF Trail!Elems
  <1>10. LogInv
    BY <1>1, <1>4, <1>6, <1>7, <1>8, <1>9 DEF LogInv
  <1>11. BookInv
    BY <1>1, <1>4, <1>9 DEF BookInv, Trail!BooksAgree, Trail!Audited
  <1>. QED
    BY <1>10, <1>11 DEF TrailInv

(* ...and whatever is done. *)
LEMMA TrailNext ==
  ASSUME TrailConstants, TrailInv, [Trail!Next]_(Trail!vars)
  PROVE  TrailInv'
  <1>. USE DEF TrailInv
  <1>1. CASE Trail!Event
    <2>1. Trail!Record(FALSE) /\ Trail!Serving
          /\ UNCHANGED <<month, ledger, saved, server, forked, blind, unlogged, forgotten, atStop>>
      BY <1>1 DEF Trail!Event, Trail!book
    <2>2. LogInv' /\ \E e : e.charge = FALSE /\ Moved({e})
      BY <2>1, RecordKeeps
    <2>3. Trail!BooksAgree'
      BY <2>1, <2>2, BooksMoved DEF BookInv
    <2>. QED
      BY <2>1, <2>2, <2>3 DEF BookInv
  <1>2. CASE Trail!Charge
    <2>1. Trail!Record(TRUE) /\ Trail!Serving /\ ledger' = ledger \cup {made'}
          /\ UNCHANGED <<month, saved, server, forked, blind, unlogged, forgotten, atStop>>
      BY <1>2 DEF Trail!Charge
    <2>2. LogInv' /\ \E e : e.id = made' /\ e.charge = TRUE /\ Moved({e})
      BY <2>1, RecordKeeps
    <2>3. Trail!BooksAgree'
      <3>1. PICK e : e.id = made' /\ e.charge = TRUE /\ Moved({e})
        BY <2>2
      <3>2. ledger' = ledger \cup {x.id : x \in {y \in {e} : y.charge}}
        BY <2>1, <3>1
      <3>. QED
        BY <2>1, <3>1, <3>2, BooksMoved DEF BookInv
    <2>. QED
      BY <2>1, <2>2, <2>3 DEF BookInv
  <1>3. CASE Trail!SaveLedger
    <2>1. /\ UNCHANGED <<disk, month, seq, mac, held, seen, made, server, forked, cut, blind>>
          /\ UNCHANGED <<ledger, unlogged, forgotten, atStop>> /\ (saved' = ledger \/ saved' = saved)
      BY <1>3 DEF Trail!SaveLedger, Trail!log
    <2>2. LogInv'
      BY <2>1, LogStays
    <2>. QED
      BY <2>1, <2>2 DEF BookInv, Trail!BooksAgree, Trail!Audited
  <1>4. CASE Trail!Settle
    <2>1. Trail!FlushOnly /\ Trail!Serving
          /\ UNCHANGED <<month, seq, mac, made, ledger, saved, server, unlogged, forgotten, atStop>>
      BY <1>4 DEF Trail!Settle, Trail!book
    <2>2. LogInv' /\ Moved({})
      BY <2>1, FlushOnlyKeeps DEF Trail!Serving
    <2>3. Trail!BooksAgree'
      BY <2>1, <2>2, BooksMoved DEF BookInv
    <2>. QED
      BY <2>1, <2>2, <2>3 DEF BookInv
  <1>5. CASE Trail!Command
    <2>1. UNCHANGED <<ledger, saved, server, unlogged, forgotten, atStop>>
      BY <1>5 DEF Trail!Command, Trail!book
    <2>2. LogInv' /\ \E new : Moved(new) /\ \A e \in new : e.charge = FALSE
      BY <1>5, CommandKeeps
    <2>3. Trail!BooksAgree'
      BY <2>1, <2>2, BooksMoved DEF BookInv
    <2>. QED
      BY <2>1, <2>2, <2>3 DEF BookInv
  <1>6. CASE Trail!NewMonth
    <2>1. UNCHANGED <<ledger, saved, server, cut, unlogged, forgotten, atStop>>
      BY <1>6 DEF Trail!NewMonth, Trail!book
    <2>2. LogInv' /\ UNCHANGED <<disk, held>>
      BY <1>6, NewMonthKeeps
    <2>. QED
      BY <2>1, <2>2 DEF BookInv, Trail!BooksAgree, Trail!Audited
  <1>7. CASE Trail!Stop
    <2>1. /\ Trail!FlushOnly /\ server = "up" /\ server' = "stopping"
          /\ saved' = ledger /\ atStop' = ledger
          /\ UNCHANGED <<month, seq, mac, made, ledger, unlogged, forgotten>>
      BY <1>7 DEF Trail!Stop
    <2>2. LogInv' /\ Moved({})
      BY <2>1, FlushOnlyKeeps DEF Trail!Serving
    <2>3. Trail!BooksAgree'
      BY <2>1, <2>2, BooksMoved DEF BookInv
    <2>. QED
      BY <2>1, <2>2, <2>3 DEF BookInv
  <1>8. CASE Trail!Exit
    <2>1. /\ server = "stopping" /\ server' = "down" /\ atStop' = {} /\ ledger' = saved /\ saved' = saved
          /\ forgotten' = forgotten \cup (ledger \ (saved \cup atStop)) /\ held' = <<>>
      BY <1>8 DEF Trail!Exit, Trail!Ended
    <2>2. /\ LogInv' /\ cut \subseteq cut' /\ unlogged \subseteq unlogged'
          /\ Trail!Logged(disk') \subseteq Trail!Logged(disk) \cup Trail!Elems(held)
          /\ \A e \in Trail!Logged(disk) \cup Trail!Elems(held) :
               e \in Trail!Logged(disk') \/ e.id \in cut' \cup unlogged'
      BY <1>8, ExitKeeps
    <2>3. Trail!Elems(held') = {}
      BY <2>1 DEF Trail!Elems
    <2>4. Trail!Audited' \subseteq Trail!Audited /\ Trail!Audited \subseteq Trail!Audited' \cup cut' \cup unlogged'
      BY <2>2, <2>3 DEF Trail!Audited
    <2>. QED
      BY <2>1, <2>2, <2>4 DEF BookInv, Trail!BooksAgree
  <1>9. CASE Trail!Crash
    <2>1. /\ server' = "down" /\ atStop' = {} /\ ledger' = saved /\ saved' = saved
          /\ forgotten' = forgotten \cup (ledger \ saved) /\ held' = <<>>
          /\ unlogged' = unlogged \cup Trail!Ids(Trail!Elems(held)) /\ UNCHANGED <<disk, cut>>
      BY <1>9 DEF Trail!Crash, Trail!Ended
    <2>2. LogInv'
      BY <1>9, CrashKeeps
    <2>3. Trail!Elems(held') = {}
      BY <2>1 DEF Trail!Elems
    <2>4. Trail!Audited' \subseteq Trail!Audited /\ Trail!Audited \subseteq Trail!Audited' \cup unlogged'
      BY <2>1, <2>3 DEF Trail!Audited, Trail!Ids
    <2>. QED
      BY <2>1, <2>2, <2>4 DEF BookInv, Trail!BooksAgree
  <1>10. CASE Trail!Restart
    <2>1. /\ server = "down" /\ server' = "up"
          /\ UNCHANGED <<held, ledger, saved, cut, unlogged, forgotten, atStop>>
      BY <1>10 DEF Trail!Restart, Trail!book
    <2>2. LogInv' /\ Trail!Logged(disk') = Trail!Logged(disk)
      BY <1>10, RestartKeeps
    <2>. QED
      BY <2>1, <2>2 DEF BookInv, Trail!BooksAgree, Trail!Audited
  <1>11. CASE UNCHANGED Trail!vars
    <2>1. UNCHANGED <<disk, month, seq, mac, held, seen, made, server, forked, cut, blind>>
          /\ UNCHANGED <<ledger, saved, unlogged, forgotten, atStop>>
      BY <1>11 DEF Trail!vars, Trail!log, Trail!book
    <2>2. LogInv'
      BY <2>1, LogStays
    <2>. QED
      BY <2>1, <2>2 DEF BookInv, Trail!BooksAgree, Trail!Audited
  <1>. QED
    BY <1>1, <1>2, <1>3, <1>4, <1>5, <1>6, <1>7, <1>8, <1>9, <1>10, <1>11 DEF Trail!Next

(* The invariant of the audit trail: through restarts, months, commands,   *)
(* failed writes and half lines the server knows where the chain ends, or  *)
(* has missed what is listed.                                              *)
THEOREM TrailInductive ==
  ASSUME TrailConstants
  PROVE  Trail!Spec => []TrailInv
  <1>1. Trail!Init => TrailInv
    BY TrailInit
  <1>2. TrailInv /\ [Trail!Next]_(Trail!vars) => TrailInv'
    BY TrailNext
  <1>. QED
    BY <1>1, <1>2, PTL DEF Trail!Spec

(* verify() finds an entry out of order only where a command wrote while   *)
(* the server held entries or before it remembered the disk without        *)
(* reading it, or behind half a line that went unnoticed (audit-log.js,    *)
(* verify, record, flushSync and #resumeChain).                            *)
THEOREM ChainIsKept ==
  ASSUME TrailConstants
  PROVE  Trail!Spec => []ChainHolds
  <1>1. TrailInv => ChainHolds
    BY InOrderIsChainHolds DEF TrailInv, LogInv, Ready, ChainHolds
  <1>. QED
    BY <1>1, TrailInductive, PTL

(* The audit log and the ledger agree, except for what a crash, a stop or  *)
(* a disk that refused took (audit-log.js, credits.js, shutdown).          *)
THEOREM BooksAreKept ==
  ASSUME TrailConstants
  PROVE  Trail!Spec => []BooksAgree
  <1>1. TrailInv => BooksAgree
    BY DEF TrailInv, BookInv, BooksAgree
  <1>. QED
    BY <1>1, TrailInductive, PTL

-----------------------------------------------------------------------------
(* What is proved of spending, of giving and of the audit trail holds of    *)
(* them side by side: each part of Spending is a behaviour of its own       *)
(* specification.                                                           *)
THEOREM SpendingPartsAreThemselves == AllSpec => Spec /\ Give!Spec /\ Trail!Spec
  <1>1. AllInit => Init /\ Give!Init /\ Trail!Init
    BY DEF AllInit
  <1>2. [AllNext]_all => [Next]_vars /\ [Give!Next]_(Give!vars) /\ [Trail!Next]_(Trail!vars)
    <2>1. UNCHANGED giveVars => UNCHANGED Give!vars
      BY DEF giveVars, Give!vars
    <2>2. UNCHANGED trailVars => UNCHANGED Trail!vars
      BY DEF trailVars, Trail!vars, Trail!log, Trail!book
    <2>. QED
      BY <2>1, <2>2 DEF AllNext, all
  <1>. QED
    BY <1>1, <1>2, PTL DEF AllSpec, Spec, Give!Spec, Trail!Spec
=============================================================================
