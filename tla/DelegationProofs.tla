--------------------------- MODULE DelegationProofs --------------------------
(***************************************************************************)
(* The safety of Delegation for every set of tasks, requests and threads   *)
(* and all limits: keys, holds, the balance of the budget, the limits of   *)
(* delegation and what the permission envelopes pass on.                   *)
(***************************************************************************)
EXTENDS Delegation, FiniteSetTheorems, WellFoundedInduction, TLAPS

-----------------------------------------------------------------------------
(* Induction over the natural numbers, in the form of sets.                *)

\* A set of natural numbers that is not empty has a least element.
LEMMA Least ==
  ASSUME NEW S \in SUBSET Nat, S # {}
  PROVE  \E n \in S : \A m \in S : n <= m
<1>1. PICK n \in S : \A m \in S : ~ (<<m, n>> \in OpToRel(<, Nat))
  BY NatLessThanWellFounded, WFMin
<1>2. \A m \in Nat : m < n => <<m, n>> \in OpToRel(<, Nat)
  BY DEF OpToRel
<1>3. \A m \in S : ~ (m < n)
  BY <1>1, <1>2, Zenon
<1>4. \A m \in S : n <= m
  BY <1>3
<1> QED BY <1>4

\* A set that holds 0, and n + 1 with every n, holds all natural numbers.
LEMMA Induction ==
  ASSUME NEW S \in SUBSET Nat, 0 \in S, \A n \in S : n + 1 \in S
  PROVE  S = Nat
<1>1. SUFFICES ASSUME Nat \ S # {} PROVE FALSE
  OBVIOUS
<1>2. PICK n \in Nat \ S : \A m \in Nat \ S : n <= m
  BY <1>1, Least
<1>3. n - 1 \in Nat /\ n - 1 \in S
  BY <1>2
<1> QED BY <1>2, <1>3

-----------------------------------------------------------------------------
(* Sums over finite sets (SumFunctionOnSet of the community modules).       *)

\* The element the sum takes next.
Pick(s) == CHOOSE x \in s : TRUE
Rest(s) == s \ {Pick(s)}

\* What the sum of s is, given the sums g of smaller sets.
Sums(f, g, s) == IF s = {} THEN 0 ELSE f[Pick(s)] + g[Rest(s)]

\* Which makes the set smaller by one.
LEMMA RestSmaller ==
  ASSUME NEW s, IsFiniteSet(s), s # {}
  PROVE  /\ Pick(s) \in s /\ Rest(s) \subseteq s /\ IsFiniteSet(Rest(s))
         /\ Cardinality(s) \in Nat /\ Cardinality(Rest(s)) \in Nat
         /\ Cardinality(Rest(s)) = Cardinality(s) - 1
<1>1. Pick(s) \in s
  BY DEF Pick
<1> QED BY <1>1, FS_RemoveElement, FS_CardinalityType DEF Rest

\* The recursion that defines a sum has a solution.
LEMMA SumsExist ==
  ASSUME NEW f, NEW S, IsFiniteSet(S)
  PROVE  \E g : g = [s \in SUBSET S |-> Sums(f, g, s)]
<1> DEFINE Upto(n, g) ==
             \A s \in SUBSET S : Cardinality(s) <= n => g[s] = Sums(f, g, s)
           N == {n \in Nat : \E g : Upto(n, g)}
<1>0. \A s \in SUBSET S : IsFiniteSet(s) /\ Cardinality(s) \in Nat
  BY FS_Subset, FS_CardinalityType
<1>1. 0 \in N
  <2> DEFINE g == [s \in SUBSET S |-> 0]
  <2>1. Upto(0, g)
    <3> SUFFICES ASSUME NEW s \in SUBSET S, Cardinality(s) <= 0 PROVE g[s] = Sums(f, g, s)
      OBVIOUS
    <3>1. s = {}
      BY <1>0, FS_EmptySet
    <3> QED BY <3>1 DEF Sums
  <2> HIDE DEF Upto
  <2> QED BY <2>1
<1>2. ASSUME NEW n \in N PROVE n + 1 \in N
  <2>1. PICK g : Upto(n, g)
    BY DEF N
  <2> DEFINE h == [s \in SUBSET S |-> IF Cardinality(s) <= n THEN g[s] ELSE Sums(f, g, s)]
  <2>2. \A s \in SUBSET S : h[s] = Sums(f, g, s)
    BY <2>1
  <2>3. ASSUME NEW s \in SUBSET S, Cardinality(s) <= n + 1 PROVE h[s] = Sums(f, h, s)
    <3>1. CASE s = {}
      BY <2>2, <3>1 DEF Sums
    <3>2. CASE s # {}
      <4>1. Rest(s) \in SUBSET S /\ Cardinality(Rest(s)) <= n
        BY <1>0, <2>3, <3>2, RestSmaller
      <4>2. h[Rest(s)] = g[Rest(s)]
        BY <4>1
      <4> HIDE DEF h
      <4> QED BY <2>2, <4>2 DEF Sums
    <3> QED BY <3>1, <3>2
  <2>4. Upto(n + 1, h)
    BY <2>3
  <2>5. \E k : Upto(n + 1, k)
    <3> HIDE DEF Upto, h
    <3> QED BY <2>4
  <2> HIDE DEF Upto
  <2> QED BY <2>5
<1>3. N = Nat
  <2>1. N \in SUBSET Nat
    OBVIOUS
  <2> HIDE DEF N
  <2> QED BY <1>1, <1>2, <2>1, Induction
<1>4. PICK g : Upto(Cardinality(S), g)
  <2>1. Cardinality(S) \in Nat
    BY FS_CardinalityType
  <2> HIDE DEF Upto
  <2> QED BY <1>3, <2>1
<1>5. \A s \in SUBSET S : Cardinality(s) <= Cardinality(S)
  BY FS_Subset
<1> DEFINE h == [s \in SUBSET S |-> g[s]]
<1>6. \A s \in SUBSET S : h[s] = Sums(f, h, s)
  <2> SUFFICES ASSUME NEW s \in SUBSET S PROVE h[s] = Sums(f, h, s)
    OBVIOUS
  <2>1. g[s] = Sums(f, g, s)
    BY <1>4, <1>5
  <2>2. s # {} => Rest(s) \in SUBSET S
    BY <1>0, RestSmaller
  <2> QED BY <2>1, <2>2 DEF Sums
<1>7. h = [s \in SUBSET S |-> Sums(f, h, s)]
  <2>1. h = [s \in SUBSET S |-> h[s]]
    OBVIOUS
  <2> HIDE DEF h
  <2> QED BY <2>1, <1>6, Zenon
<1> QED BY <1>7

\* g gives the sums of all subsets of S.
AllSums(f, g, S) == \A s \in SUBSET S : g[s] = Sums(f, g, s)

\* The library's sum of f over S is one of them.
LEMMA SumDef ==
  ASSUME NEW f, NEW S, IsFiniteSet(S)
  PROVE  \E g : AllSums(f, g, S) /\ SumFunctionOnSet(f, S) = g[S]
<1> DEFINE g == CHOOSE g : g = [s \in SUBSET S |-> Sums(f, g, s)]
<1>1. g = [s \in SUBSET S |-> Sums(f, g, s)]
  BY SumsExist
<1>2. SumFunctionOnSet(f, S) = g[S]
  BY DEF SumFunctionOnSet, FoldFunctionOnSet, MapThenFoldSet, Sums, Pick, Rest
<1> HIDE DEF g
<1>3. AllSums(f, g, S)
  BY <1>1, Zenon DEF AllSums
<1> QED BY <1>2, <1>3

\* The sums of the subsets of S, whichever S they are taken in.
LEMMA SumsUnique ==
  ASSUME NEW f, NEW S, IsFiniteSet(S), NEW g, AllSums(f, g, S), NEW T \in SUBSET S
  PROVE  SumFunctionOnSet(f, T) = g[T]
<1>1. \A s \in SUBSET T : s \in SUBSET S /\ IsFiniteSet(s) /\ Cardinality(s) \in Nat
  BY FS_Subset, FS_CardinalityType
<1>2. PICK h : AllSums(f, h, T) /\ SumFunctionOnSet(f, T) = h[T]
  BY <1>1, SumDef
<1> DEFINE Bad == {n \in Nat : \E s \in SUBSET T : Cardinality(s) = n /\ h[s] # g[s]}
<1>3. SUFFICES ASSUME Bad # {} PROVE FALSE
  <2>1. Cardinality(T) \in Nat
    BY <1>1
  <2> QED BY <1>2, <2>1
<1>4. PICK n \in Bad : \A m \in Bad : n <= m
  <2>1. Bad \in SUBSET Nat
    OBVIOUS
  <2> HIDE DEF Bad
  <2> QED BY <1>3, <2>1, Least
<1>5. PICK s \in SUBSET T : Cardinality(s) = n /\ h[s] # g[s]
  OBVIOUS
<1>6. s # {}
  BY <1>1, <1>2, <1>5 DEF AllSums, Sums
<1>7. /\ Rest(s) \in SUBSET T /\ Cardinality(Rest(s)) \in Nat
      /\ Cardinality(Rest(s)) = n - 1 /\ n \in Nat
  BY <1>1, <1>5, <1>6, RestSmaller
<1>8. h[Rest(s)] = g[Rest(s)]
  <2> SUFFICES ASSUME h[Rest(s)] # g[Rest(s)] PROVE FALSE
    OBVIOUS
  <2>1. n - 1 \in Bad
    BY <1>7
  <2> HIDE DEF Bad
  <2> QED BY <1>4, <1>7, <2>1
<1>9. h[s] = g[s]
  BY <1>1, <1>2, <1>8, Zenon DEF AllSums, Sums
<1> QED BY <1>5, <1>9

\* A sum is the element it takes and the sum of the rest.
LEMMA SumRec ==
  ASSUME NEW f, NEW S, IsFiniteSet(S)
  PROVE  /\ SumFunctionOnSet(f, {}) = 0
         /\ S # {} => SumFunctionOnSet(f, S) = f[Pick(S)] + SumFunctionOnSet(f, Rest(S))
<1>1. PICK g : AllSums(f, g, S)
  BY SumDef
<1>2. \A T \in SUBSET S : SumFunctionOnSet(f, T) = g[T]
  BY <1>1, SumsUnique
<1>3. {} \in SUBSET S /\ S \in SUBSET S /\ (S # {} => Rest(S) \in SUBSET S)
  BY RestSmaller
<1>4. g[{}] = 0
  BY <1>1, <1>3 DEF AllSums, Sums
<1>5. S # {} => g[S] = f[Pick(S)] + g[Rest(S)]
  BY <1>1, <1>3, Zenon DEF AllSums, Sums
<1> QED BY <1>2, <1>3, <1>4, <1>5, Zenon

\* Sums of natural numbers are natural, and what one element adds may be taken out
\* whichever it is.
LEMMA SumRemove ==
  ASSUME NEW D, NEW f \in [D -> Nat], NEW S \in SUBSET D, IsFiniteSet(S)
  PROVE  /\ SumFunctionOnSet(f, S) \in Nat
         /\ \A x \in S : SumFunctionOnSet(f, S) = f[x] + SumFunctionOnSet(f, S \ {x})
<1> DEFINE Good(T) ==
             /\ SumFunctionOnSet(f, T) \in Nat
             /\ \A x \in T : SumFunctionOnSet(f, T) = f[x] + SumFunctionOnSet(f, T \ {x})
           Bad == {n \in Nat : \E T \in SUBSET S : Cardinality(T) = n /\ ~ Good(T)}
<1>0. \A T \in SUBSET S : T \in SUBSET D /\ IsFiniteSet(T) /\ Cardinality(T) \in Nat
  BY FS_Subset, FS_CardinalityType
<1>1. SUFFICES ASSUME Bad # {} PROVE FALSE
  <2>1. Good(S)
    <3> HIDE DEF Good
    <3> QED BY <1>0, <1>1
  <2> QED BY <2>1
<1>2. PICK n \in Bad : \A m \in Bad : n <= m
  <2>1. Bad \in SUBSET Nat
    OBVIOUS
  <2> HIDE DEF Bad
  <2> QED BY <1>1, <2>1, Least
<1>3. PICK T \in SUBSET S : Cardinality(T) = n /\ ~ Good(T)
  <2> HIDE DEF Good
  <2> QED OBVIOUS
<1>4. ASSUME NEW U \in SUBSET S, Cardinality(U) < n PROVE Good(U)
  <2> HIDE DEF Good
  <2> SUFFICES ASSUME ~ Good(U) PROVE FALSE
    OBVIOUS
  <2>1. Cardinality(U) \in Bad
    BY <1>0
  <2> HIDE DEF Bad
  <2>2. n \in Nat
    BY <1>0, <1>3
  <2> QED BY <1>0, <1>2, <1>4, <2>1, <2>2
<1> HIDE DEF Bad
<1>5. T # {}
  BY <1>0, <1>3, SumRec
<1> DEFINE y == Pick(T)
<1>6. /\ y \in T /\ f[y] \in Nat /\ Rest(T) = T \ {y}
      /\ SumFunctionOnSet(f, T) = f[y] + SumFunctionOnSet(f, T \ {y})
  BY <1>0, <1>3, <1>5, SumRec, RestSmaller DEF Rest
<1>7. \A x \in T : T \ {x} \in SUBSET S /\ Cardinality(T \ {x}) < n
  <2> TAKE x \in T
  <2>1. Cardinality(T \ {x}) = n - 1 /\ n \in Nat
    BY <1>0, <1>3, FS_RemoveElement
  <2> QED BY <2>1
<1> HIDE DEF y
<1>8. SumFunctionOnSet(f, T) \in Nat
  BY <1>4, <1>6, <1>7
<1>9. ASSUME NEW x \in T, x # y
      PROVE  SumFunctionOnSet(f, T) = f[x] + SumFunctionOnSet(f, T \ {x})
  <2>1. x \in T \ {y} /\ y \in T \ {x} /\ (T \ {y}) \ {x} = (T \ {x}) \ {y}
    BY <1>6, <1>9
  <2>2. SumFunctionOnSet(f, T \ {y}) = f[x] + SumFunctionOnSet(f, (T \ {y}) \ {x})
    BY <1>4, <1>6, <1>7, <2>1
  <2>3. SumFunctionOnSet(f, T \ {x}) = f[y] + SumFunctionOnSet(f, (T \ {x}) \ {y})
    BY <1>4, <1>7, <2>1
  <2>4. (T \ {x}) \ {y} \in SUBSET S /\ Cardinality((T \ {x}) \ {y}) < n
    <3>1. IsFiniteSet(T \ {x}) /\ Cardinality(T \ {x}) \in Nat
      BY <1>0, <1>7
    <3>3. Cardinality((T \ {x}) \ {y}) = Cardinality(T \ {x}) - 1
      BY <2>1, <3>1, FS_RemoveElement
    <3>2. Cardinality(T \ {x}) < n /\ n \in Nat
      BY <1>0, <1>3, <1>7
    <3>4. (T \ {x}) \ {y} \in SUBSET S
      OBVIOUS
    <3> QED BY <3>1, <3>2, <3>3, <3>4
  <2>5. SumFunctionOnSet(f, (T \ {x}) \ {y}) \in Nat
    BY <1>4, <2>4
  <2>6. f[x] \in Nat /\ f[y] \in Nat
    BY <1>6
  <2> QED BY <1>6, <2>1, <2>2, <2>3, <2>5, <2>6
<1>10. Good(T)
  BY <1>6, <1>8, <1>9
<1> QED BY <1>3, <1>10

\* A sum looks at the elements it is taken over and at nothing else.
LEMMA SumAgrees ==
  ASSUME NEW f, NEW g, NEW S, IsFiniteSet(S), \A x \in S : f[x] = g[x]
  PROVE  SumFunctionOnSet(f, S) = SumFunctionOnSet(g, S)
<1> DEFINE Bad == {n \in Nat : \E T \in SUBSET S :
                     /\ Cardinality(T) = n
                     /\ SumFunctionOnSet(f, T) # SumFunctionOnSet(g, T)}
<1>0. \A T \in SUBSET S : IsFiniteSet(T) /\ Cardinality(T) \in Nat
  BY FS_Subset, FS_CardinalityType
<1>1. SUFFICES ASSUME Bad # {} PROVE FALSE
  BY <1>0
<1>2. PICK n \in Bad : \A m \in Bad : n <= m
  <2>1. Bad \in SUBSET Nat
    OBVIOUS
  <2> HIDE DEF Bad
  <2> QED BY <1>1, <2>1, Least
<1>3. PICK T \in SUBSET S : /\ Cardinality(T) = n
                            /\ SumFunctionOnSet(f, T) # SumFunctionOnSet(g, T)
  OBVIOUS
<1>4. T # {}
  BY <1>0, <1>3, SumRec
<1>5. /\ Pick(T) \in S /\ Rest(T) \in SUBSET S
      /\ Cardinality(Rest(T)) = n - 1 /\ Cardinality(Rest(T)) \in Nat /\ n \in Nat
  BY <1>0, <1>3, <1>4, RestSmaller
<1>6. SumFunctionOnSet(f, Rest(T)) = SumFunctionOnSet(g, Rest(T))
  <2> SUFFICES ASSUME SumFunctionOnSet(f, Rest(T)) # SumFunctionOnSet(g, Rest(T)) PROVE FALSE
    OBVIOUS
  <2>1. n - 1 \in Bad
    BY <1>5
  <2> HIDE DEF Bad
  <2> QED BY <1>2, <1>5, <2>1
<1>7. /\ SumFunctionOnSet(f, T) = f[Pick(T)] + SumFunctionOnSet(f, Rest(T))
      /\ SumFunctionOnSet(g, T) = g[Pick(T)] + SumFunctionOnSet(g, Rest(T))
  BY <1>0, <1>4, SumRec
<1> QED BY <1>3, <1>5, <1>6, <1>7

-----------------------------------------------------------------------------
(* Permission envelopes.                                                   *)

\* An envelope as NormalizePermissionEnvelope leaves it.
Plain(e) ==
  /\ e \in Envelope /\ e.class \in DOMAIN Rank
  /\ \A v \in e.views : "" \notin v.keys /\ v.mode \in {"ro", "rw"}

\* What e allows, r allows.
Below(e, r) ==
  /\ e.artifacts \subseteq r.artifacts /\ Rank[e.class] <= Rank[r.class]
  /\ \A x \in Space \X Entry, mode \in {"ro", "rw"} : May(e, x, mode) => May(r, x, mode)

LEMMA Ranks == /\ DOMAIN Rank = {"public", "internal", "confidential", "restricted"}
               /\ \A class \in DOMAIN Rank : Rank[class] \in Nat
  BY DEF Rank

\* A view, normalized.
PlainView(v) == [v EXCEPT !.keys = @ \ {""}, !.mode = IF @ = "" THEN "ro" ELSE @]

LEMMA PlainViews ==
  ASSUME NEW v \in View
  PROVE  /\ PlainView(v) \in View /\ "" \notin PlainView(v).keys
         /\ PlainView(v).mode \in {"ro", "rw"}
         /\ "" \notin v.keys /\ v.mode # "" => PlainView(v) = v
  BY DEF View, PlainView

\* Normalization makes an envelope plain, and leaves a plain one alone.
LEMMA NormalizeIsPlain ==
  ASSUME NEW e \in Envelope
  PROVE  /\ Plain(Normalize(e)) /\ Normalize(e).artifacts = e.artifacts
         /\ Plain(e) => Normalize(e).views = e.views /\ Normalize(e).class = e.class
<1> DEFINE views == {PlainView(v) : v \in e.views}
           n == Normalize(e)
<1>1. /\ e.class \in DOMAIN Rank \cup {""} /\ e.tools \in SUBSET Tool
      /\ e.artifacts \in SUBSET Artifact /\ e.views \in SUBSET View
      /\ DOMAIN e = {"class", "tools", "artifacts", "views"}
  BY DEF Envelope
<1>2. n = [e EXCEPT !.class = IF @ = "" THEN "public" ELSE @, !.views = views]
  BY DEF Normalize, PlainView
<1>3. /\ views \in SUBSET View
      /\ \A v \in views : "" \notin v.keys /\ v.mode \in {"ro", "rw"}
  <2>1. \A v \in e.views : v \in View
    BY <1>1
  <2>2. \A v \in e.views : /\ PlainView(v) \in View /\ "" \notin PlainView(v).keys
                           /\ PlainView(v).mode \in {"ro", "rw"}
    BY <2>1, PlainViews
  <2> QED BY <2>2
<1>4. /\ n.class = (IF e.class = "" THEN "public" ELSE e.class) /\ n.views = views
      /\ n.tools = e.tools /\ n.artifacts = e.artifacts
  <2> HIDE DEF views
  <2> QED BY <1>1, <1>2 DEF Envelope
<1>5. n \in Envelope
  <2> HIDE DEF views
  <2>1. (IF e.class = "" THEN "public" ELSE e.class) \in DOMAIN Rank \cup {""}
    BY <1>1, Ranks
  <2> QED BY <1>1, <1>2, <1>3, <2>1 DEF Envelope
<1>6. n.class \in DOMAIN Rank
  BY <1>1, <1>4, Ranks
<1>7. \A v \in n.views : "" \notin v.keys /\ v.mode \in {"ro", "rw"}
  <2> HIDE DEF views
  <2> QED BY <1>3, <1>4
<1>8. ASSUME Plain(e) PROVE views = e.views /\ n.class = e.class
  <2>1. \A v \in e.views : PlainView(v) = v
    BY <1>1, <1>8, PlainViews DEF Plain
  <2>2. views = e.views
    BY <2>1
  <2> QED BY <2>2, <1>1, <1>4, <1>8, Ranks DEF Plain
<1> QED BY <1>4, <1>5, <1>6, <1>7, <1>8 DEF Plain

\* Of a plain envelope, what it allows can be read off its views.
LEMMA PlainMay ==
  ASSUME NEW e, Plain(e), NEW x, NEW mode
  PROVE  May(e, x, mode) <=>
           \E v \in e.views : /\ v.space = x[1] /\ (v.keys = {} \/ x[2] \in v.keys)
                              /\ mode = "rw" => v.mode = "rw"
<1>1. Normalize(e).views = e.views
  BY NormalizeIsPlain DEF Plain
<1> QED BY <1>1 DEF May

\* What PermissionEnvelopeSubset lets through allows nothing that the parent's
\* envelope does not.
LEMMA WithinIsBelow ==
  ASSUME NEW p, Plain(p), NEW c \in Envelope, Within(p, c)
  PROVE  Below(Normalize(c), p)
<1> DEFINE n == Normalize(c)
<1>1. Plain(n) /\ p \in Envelope
  BY NormalizeIsPlain DEF Plain
<1>2. Normalize(p).views = p.views /\ Normalize(p).class = p.class
      /\ Normalize(p).artifacts = p.artifacts
  BY <1>1, NormalizeIsPlain
<1>3. /\ Rank[n.class] <= Rank[p.class] /\ n.artifacts \subseteq p.artifacts
      /\ \A v \in n.views : \E w \in p.views : Covers(w, v)
  BY <1>2 DEF Within
<1> HIDE DEF n
<1>4. ASSUME NEW x \in Space \X Entry, NEW mode \in {"ro", "rw"}, May(n, x, mode)
      PROVE  May(p, x, mode)
  <2>1. PICK v \in n.views : /\ v.space = x[1] /\ (v.keys = {} \/ x[2] \in v.keys)
                             /\ mode = "rw" => v.mode = "rw"
    BY <1>1, <1>4, PlainMay
  <2>2. PICK w \in p.views : Covers(w, v)
    BY <1>3
  <2>3. w.space = x[1] /\ (w.keys = {} \/ x[2] \in w.keys)
    BY <2>1, <2>2 DEF Covers
  <2>4. mode = "rw" => w.mode = "rw"
    BY <2>1, <2>2 DEF Covers, Plain
  <2> QED BY <2>3, <2>4, PlainMay
<1> QED BY <1>3, <1>4 DEF Below, n

LEMMA BelowIsTransitive ==
  ASSUME NEW e, NEW f, NEW g, Below(e, f), Below(f, g),
         {e.class, f.class, g.class} \subseteq DOMAIN Rank
  PROVE  Below(e, g)
<1>1. Rank[e.class] \in Nat /\ Rank[f.class] \in Nat /\ Rank[g.class] \in Nat
  BY Ranks
<1>2. Rank[e.class] <= Rank[g.class]
  BY <1>1 DEF Below
<1> QED BY <1>2 DEF Below

\* buildContextPackageTx gives an entry in no wider mode than the envelope allows.
LEMMA PackageIsAllowed ==
  ASSUME NEW e, Plain(e), NEW b \in BoardView(e, Space \X Entry)
  PROVE  b.entry \in Space \X Entry /\ b.mode \in {"ro", "rw"} /\ May(e, b.entry, b.mode)
<1> DEFINE board == Space \X Entry
           views == {v \in e.views : Selected(v, board) # {}}
           mode(x) == IF \E v \in views : x \in Selected(v, board) /\ v.mode = "rw"
                      THEN "rw" ELSE "ro"
<1>1. PICK x \in UNION {Selected(v, board) : v \in views} : b = [entry |-> x, mode |-> mode(x)]
  BY Zenon DEF BoardView
<1>2. PICK v \in views : x \in Selected(v, board)
  BY <1>1
<1>3. b.entry = x /\ b.mode = mode(x) /\ x \in board
  BY <1>1, <1>2 DEF Selected
<1>4. CASE \E w \in views : x \in Selected(w, board) /\ w.mode = "rw"
  <2>1. PICK w \in views : x \in Selected(w, board) /\ w.mode = "rw"
    BY <1>4
  <2>2. mode(x) = "rw"
    BY <1>4
  <2>3. May(e, x, "rw")
    <3>1. w \in e.views /\ w.space = x[1] /\ (w.keys = {} \/ x[2] \in w.keys)
      BY <2>1 DEF Selected
    <3> QED BY <2>1, <3>1, PlainMay
  <2> QED BY <1>3, <2>2, <2>3
<1>5. CASE ~ \E w \in views : x \in Selected(w, board) /\ w.mode = "rw"
  <2>1. mode(x) = "ro"
    BY <1>5
  <2>2. May(e, x, "ro")
    <3>1. v \in e.views /\ v.space = x[1] /\ (v.keys = {} \/ x[2] \in v.keys)
      BY <1>2 DEF Selected
    <3> QED BY <3>1, PlainMay
  <2> QED BY <1>3, <2>1, <2>2
<1> QED BY <1>4, <1>5

-----------------------------------------------------------------------------
(* The delegation tree.  Depth, Chain and RootOf are recursive; each is    *)
(* defined as long as nobody is its own ancestor, and a new child changes  *)
(* it at the child only.                                                   *)

\* d counts the steps from every task up to one without a link.
Counts(link, base, d) ==
  /\ d \in [Task -> Nat]
  /\ \A t \in Task : d[t] = IF link[t] = NoTask THEN base ELSE 1 + d[link[t]]

\* Any other solution of the recursion is the same function.
LEMMA CountsUnique ==
  ASSUME NEW link \in [Task -> Task \cup {NoTask}], NEW base \in Nat, NEW d,
         Counts(link, base, d), NEW f,
         f = [t \in Task |-> IF link[t] = NoTask THEN base ELSE 1 + f[link[t]]]
  PROVE  f = d
<1> DEFINE Bad == {n \in Nat : \E t \in Task : d[t] = n /\ f[t] # d[t]}
<1>1. d \in [Task -> Nat]
  BY DEF Counts
<1>2. \A t \in Task : f[t] = IF link[t] = NoTask THEN base ELSE 1 + f[link[t]]
  BY Zenon
<1>3. ASSUME Bad # {} PROVE FALSE
  <2>1. PICK n \in Bad : \A m \in Bad : n <= m
    <3>1. Bad \in SUBSET Nat
      OBVIOUS
    <3> HIDE DEF Bad
    <3> QED BY <1>3, <3>1, Least
  <2>2. PICK t \in Task : d[t] = n /\ f[t] # d[t]
    OBVIOUS
  <2>3. link[t] # NoTask /\ link[t] \in Task
    BY <1>2, <2>2 DEF Counts
  <2>4. d[t] = 1 + d[link[t]] /\ f[t] = 1 + f[link[t]]
    BY <1>2, <2>3 DEF Counts
  <2>5. f[link[t]] # d[link[t]]
    BY <2>2, <2>4
  <2>6. d[link[t]] \in Bad /\ d[link[t]] \in Nat
    BY <1>1, <2>3, <2>5
  <2> HIDE DEF Bad
  <2> QED BY <1>1, <2>1, <2>2, <2>4, <2>6
<1>4. \A t \in Task : f[t] = d[t]
  BY <1>1, <1>3
<1>5. f = [t \in Task |-> f[t]] /\ d = [t \in Task |-> d[t]]
  BY <1>1
<1> QED BY <1>4, <1>5, Zenon

\* The functions the recursions define, of any link.
Count(link, base) ==
  CHOOSE f : f = [t \in Task |-> IF link[t] = NoTask THEN base ELSE 1 + f[link[t]]]
Leader(link) ==
  CHOOSE f : f = [t \in Task |-> IF link[t] = NoTask THEN t ELSE f[link[t]]]

LEMMA CountIs ==
  ASSUME NEW link \in [Task -> Task \cup {NoTask}], NEW base \in Nat, NEW d,
         Counts(link, base, d)
  PROVE  Count(link, base) = d
<1>1. d = [t \in Task |-> IF link[t] = NoTask THEN base ELSE 1 + d[link[t]]]
  BY Zenon DEF Counts
<1>2. Count(link, base)
        = [t \in Task |-> IF link[t] = NoTask THEN base ELSE 1 + Count(link, base)[link[t]]]
  BY <1>1, Zenon DEF Count
<1> QED BY <1>2, CountsUnique

\* r leads from every task to the one its chain of links ends at.
Leads(link, r) ==
  /\ r \in [Task -> Task]
  /\ \A t \in Task : r[t] = IF link[t] = NoTask THEN t ELSE r[link[t]]

LEMMA LeaderIs ==
  ASSUME NEW link \in [Task -> Task \cup {NoTask}], NEW d, Counts(link, 1, d),
         NEW r, Leads(link, r)
  PROVE  Leader(link) = r
<1> DEFINE f == Leader(link)
           Bad == {n \in Nat : \E t \in Task : d[t] = n /\ f[t] # r[t]}
<1>0. d \in [Task -> Nat] /\ r \in [Task -> Task]
  BY DEF Counts, Leads
<1>1. r = [t \in Task |-> IF link[t] = NoTask THEN t ELSE r[link[t]]]
  BY Zenon DEF Leads
<1>2. f = [t \in Task |-> IF link[t] = NoTask THEN t ELSE f[link[t]]]
  BY <1>1, Zenon DEF Leader
<1> HIDE DEF f
<1>3. \A t \in Task : f[t] = IF link[t] = NoTask THEN t ELSE f[link[t]]
  BY <1>2, Zenon
<1>4. ASSUME Bad # {} PROVE FALSE
  <2>1. PICK n \in Bad : \A m \in Bad : n <= m
    <3>1. Bad \in SUBSET Nat
      OBVIOUS
    <3> HIDE DEF Bad
    <3> QED BY <1>4, <3>1, Least
  <2>2. PICK t \in Task : d[t] = n /\ f[t] # r[t]
    OBVIOUS
  <2>3. link[t] # NoTask /\ link[t] \in Task
    BY <1>3, <2>2 DEF Leads
  <2>4. d[t] = 1 + d[link[t]] /\ f[link[t]] # r[link[t]]
    BY <1>3, <2>2, <2>3 DEF Counts, Leads
  <2>5. d[link[t]] \in Bad /\ d[link[t]] \in Nat
    BY <1>0, <2>3, <2>4
  <2> HIDE DEF Bad
  <2> QED BY <1>0, <2>1, <2>2, <2>4, <2>5
<1>5. \A t \in Task : f[t] = r[t]
  BY <1>0, <1>4
<1>6. f = [t \in Task |-> f[t]] /\ r = [t \in Task |-> r[t]]
  BY <1>0, <1>2
<1>7. f = r
  BY <1>5, <1>6, Zenon
<1> QED BY <1>7 DEF f

LEMMA Recursions ==
  /\ Depth = Count(parent, 1) /\ Chain = Count(reworkOf, 0) /\ RootOf = Leader(parent)
  /\ Depth' = Count(parent', 1) /\ Chain' = Count(reworkOf', 0) /\ RootOf' = Leader(parent')
  BY Zenon DEF Depth, Chain, RootOf, Count, Leader

\* A task nobody is linked to gets a link: only its own number changes.
LEMMA CountsGrow ==
  ASSUME NEW link \in [Task -> Task \cup {NoTask}], NEW base \in Nat, NEW d,
         Counts(link, base, d), NEW c \in Task, NEW p \in Task \cup {NoTask}, p # c,
         \A t \in Task : link[t] # c
  PROVE  Counts([link EXCEPT ![c] = p], base,
                [d EXCEPT ![c] = IF p = NoTask THEN base ELSE 1 + d[p]])
<1> DEFINE l == [link EXCEPT ![c] = p]
           n == IF p = NoTask THEN base ELSE 1 + d[p]
           e == [d EXCEPT ![c] = n]
<1>1. n \in Nat
  BY DEF Counts
<1>2. e \in [Task -> Nat] /\ e[c] = n /\ \A t \in Task \ {c} : e[t] = d[t]
  <2> HIDE DEF n
  <2> QED BY <1>1 DEF Counts
<1>3. l[c] = p /\ \A t \in Task \ {c} : l[t] = link[t]
  OBVIOUS
<1> HIDE DEF l, e
<1>4. ASSUME NEW t \in Task PROVE e[t] = IF l[t] = NoTask THEN base ELSE 1 + e[l[t]]
  <2>1. CASE t = c
    BY <1>2, <1>3, <2>1
  <2>2. CASE t # c
    <3>1. link[t] # NoTask => link[t] \in Task \ {c}
      OBVIOUS
    <3> QED BY <1>2, <1>3, <2>2, <3>1 DEF Counts
  <2> QED BY <2>1, <2>2
<1>5. Counts(l, base, e)
  BY <1>2, <1>4 DEF Counts
<1> QED BY <1>5 DEF l, e

LEMMA LeadsGrow ==
  ASSUME NEW link \in [Task -> Task \cup {NoTask}], NEW r, Leads(link, r),
         NEW c \in Task, NEW p \in Task, p # c, \A t \in Task : link[t] # c
  PROVE  Leads([link EXCEPT ![c] = p], [r EXCEPT ![c] = r[p]])
<1> DEFINE l == [link EXCEPT ![c] = p]
           e == [r EXCEPT ![c] = r[p]]
<1>2. e \in [Task -> Task] /\ e[c] = r[p] /\ \A t \in Task \ {c} : e[t] = r[t]
  BY DEF Leads
<1>3. l[c] = p /\ \A t \in Task \ {c} : l[t] = link[t]
  OBVIOUS
<1> HIDE DEF l, e
<1>4. ASSUME NEW t \in Task PROVE e[t] = IF l[t] = NoTask THEN t ELSE e[l[t]]
  <2>1. CASE t = c
    BY <1>2, <1>3, <2>1, DelegationTasks
  <2>2. CASE t # c
    <3>1. link[t] # NoTask => link[t] \in Task \ {c}
      OBVIOUS
    <3> QED BY <1>2, <1>3, <2>2, <3>1 DEF Leads
  <2> QED BY <2>1, <2>2
<1>5. Leads(l, e)
  BY <1>2, <1>4 DEF Leads
<1> QED BY <1>5 DEF l, e

-----------------------------------------------------------------------------
(* The invariant.                                                          *)

\* Links lead to tasks there are, from tasks there are.
Linked ==
  /\ \A t \in Root : state[t] # "ABSENT"
  /\ \A t \in Task : state[t] = "ABSENT" => parent[t] = NoTask /\ reworkOf[t] = NoTask
  /\ \A t \in Task : parent[t] # NoTask => state[parent[t]] # "ABSENT"
  /\ \A t \in Task : reworkOf[t] # NoTask => state[reworkOf[t]] # "ABSENT"

\* Nobody is its own ancestor, and the limits of depth and rework hold.
Tree ==
  /\ Counts(parent, 1, Depth) /\ Counts(reworkOf, 0, Chain) /\ Leads(parent, RootOf)
  /\ \A t \in Task : Depth[t] <= MaxDepth + 1 /\ Chain[t] <= MaxRework

\* The chain of every task that is there ends at a root, and the task may do no more
\* than that root may.
Envelopes ==
  \A t \in Task : /\ Plain(grants[t])
                  /\ state[t] # "ABSENT" => RootOf[t] \in Root /\ Below(grants[t], grants[RootOf[t]])

\* What a call has checked still holds when it spawns.
Checked(r) ==
  /\ r \in Request /\ state[r.parent] # "ABSENT"
  /\ Depth[r.parent] <= MaxDepth /\ Within(grants[r.parent], r.grants)
  /\ r.rework # NoTask => state[r.rework] # "ABSENT" /\ Chain[r.rework] + 1 <= MaxRework
Spawns == \A h \in Handler : thread[h].at = "spawn" => Checked(thread[h].req)

\* A call that retries owns a task that failed and kept its hold.
Retrying(h, t) == thread[h].at = "retry" /\ thread[h].task = t
Retries ==
  /\ \A h \in Handler : thread[h].at = "retry" =>
       LET t == thread[h].task
       IN /\ t \in Task /\ state[t] = "FAILED" /\ attempt[t] < MaxAttempts
          /\ Metered /\ t \in Child => hold[t].status = "held"
  /\ \A g, h \in Handler, t \in Task : Retrying(g, t) /\ Retrying(h, t) => g = h

\* The children of p, and the calls about to add one.
Spawning(p) == {h \in Handler : thread[h].at = "spawn" /\ thread[h].req.parent = p}
Fanout ==
  \A p \in Task :
    /\ IsFiniteSet(Children(p))
    /\ Cardinality(Children(p)) + Cardinality(Spawning(p)) < MaxFanout + Cardinality(Handler)

\* A hold is a delegated task's in a metered mission, and follows its state and the
\* attempts it has made.
HoldOf(s, n) ==
  IF s = "ABSENT" THEN {"none"} ELSE IF s \in Live THEN {"held"}
  ELSE IF s = "SUCCEEDED" THEN {"settled"} ELSE IF s = "CANCELLED" THEN {"released"}
  ELSE IF n = MaxAttempts THEN {"held", "released"} ELSE {"held"}
Holds ==
  \A t \in Task : IF t \in Child /\ Metered THEN hold[t].status \in HoldOf(state[t], attempt[t])
                  ELSE hold[t].status = "none"

Budget ==
  /\ IsFiniteSet(HeldBy(Task)) /\ IsFiniteSet(SettledBy(Task))
  /\ BudgetBalances

IInv == /\ TypeOK /\ Linked /\ Tree /\ Envelopes /\ Spawns /\ Retries /\ Fanout
        /\ OneChildPerKey /\ Holds /\ Budget

\* Nothing is linked: every task is its own root.
LEMMA NoLinks ==
  ASSUME NEW link, link = [t \in Task |-> NoTask], NEW base \in Nat
  PROVE  /\ link \in [Task -> Task \cup {NoTask}]
         /\ Counts(link, base, [t \in Task |-> base]) /\ Count(link, base) = [t \in Task |-> base]
         /\ Leads(link, [t \in Task |-> t]) /\ Leader(link) = [t \in Task |-> t]
<1>1. link \in [Task -> Task \cup {NoTask}]
  OBVIOUS
<1>2. \A b \in Nat : Counts(link, b, [t \in Task |-> b])
  BY DEF Counts
<1>3. Leads(link, [t \in Task |-> t])
  BY DEF Leads
<1> QED BY <1>1, <1>2, <1>3, CountIs, LeaderIs

LEMMA Initially == Init => IInv
<1> SUFFICES ASSUME Init PROVE IInv
  OBVIOUS
<1>1. TypeOK /\ \A t \in Task : Plain(grants[t])
  <2>1. NoGrants \in Envelope /\ RootGrants \in Envelope
    BY DelegationRequests DEF NoGrants, Envelope
  <2>2. Plain(Normalize(NoGrants)) /\ Plain(Normalize(RootGrants))
    BY <2>1, NormalizeIsPlain
  <2>3. grants \in [Task -> Envelope] /\ \A t \in Task : Plain(grants[t])
    BY <2>2 DEF Init, Plain
  <2>4. state \in [Task -> {"ABSENT", "SUCCEEDED", "FAILED", "CANCELLED"} \cup Live]
    BY DEF Init, Live
  <2>5. thread \in [Handler -> Local]
    BY DEF Init, Local, Idle
  <2>6. /\ account \in [held : Nat, spent : Nat]
        /\ hold \in [Task -> [status : {"none", "held", "settled", "released"},
                              amount : Nat, actual : Nat]]
    BY DEF Init, NoHold
  <2> QED BY <2>3, <2>4, <2>5, <2>6, DelegationBounds DEF Init, TypeOK
<1>2. Linked
  BY DelegationTasks DEF Init, Linked, Task
<1>3. /\ Depth = [t \in Task |-> 1] /\ Chain = [t \in Task |-> 0]
      /\ Counts(parent, 1, Depth) /\ Counts(reworkOf, 0, Chain) /\ Leads(parent, RootOf)
      /\ RootOf = [t \in Task |-> t]
  <2>1. parent = [t \in Task |-> NoTask] /\ reworkOf = [t \in Task |-> NoTask]
    BY DEF Init
  <2>2. 0 \in Nat /\ 1 \in Nat
    OBVIOUS
  <2>3. /\ Counts(parent, 1, [t \in Task |-> 1]) /\ Count(parent, 1) = [t \in Task |-> 1]
        /\ Leads(parent, [t \in Task |-> t]) /\ Leader(parent) = [t \in Task |-> t]
    BY <2>1, <2>2, NoLinks, Zenon
  <2>4. /\ Counts(reworkOf, 0, [t \in Task |-> 0]) /\ Count(reworkOf, 0) = [t \in Task |-> 0]
    BY <2>1, <2>2, NoLinks, Zenon
  <2> QED BY <2>3, <2>4, Recursions, Zenon
<1>4. Tree
  <2>1. \A t \in Task : Depth[t] = 1 /\ Chain[t] = 0
    BY <1>3
  <2>2. \A t \in Task : Depth[t] <= MaxDepth + 1 /\ Chain[t] <= MaxRework
    BY <2>1, DelegationBounds
  <2> QED BY <1>3, <2>2 DEF Tree
<1>5. Envelopes
  <2>1. ASSUME NEW e, Plain(e) PROVE Below(e, e)
    <3>1. Rank[e.class] \in Nat
      BY <2>1, Ranks DEF Plain
    <3> QED BY <3>1 DEF Below
  <2>2. \A t \in Task : state[t] # "ABSENT" => t \in Root
    BY DEF Init
  <2> QED BY <1>1, <1>3, <2>1, <2>2 DEF Envelopes
<1>6. Spawns /\ Retries
  BY DEF Init, Idle, Spawns, Retries, Retrying
<1>7. Fanout
  <2>1. ASSUME NEW p \in Task PROVE Children(p) = {} /\ Spawning(p) = {}
    BY DelegationTasks DEF Init, Idle, Children, Spawning
  <2>2. Cardinality(Handler) \in Nat /\ Cardinality(Handler) # 0
    BY DelegationHandlers, FS_CardinalityType, FS_EmptySet
  <2> QED BY <2>1, <2>2, FS_EmptySet, DelegationBounds DEF Fanout
<1>8. OneChildPerKey
  BY DelegationTasks DEF Init, OneChildPerKey, Task
<1>9. Holds
  BY DelegationTasks DEF Init, Holds, HoldOf, NoHold, Task
<1>10. Budget
  <2>1. HeldBy(Task) = {} /\ SettledBy(Task) = {}
    BY DEF Init, NoHold, HeldBy, SettledBy
  <2>2. \A f : SumFunctionOnSet(f, {}) = 0
    BY SumRec, FS_EmptySet
  <2>3. account.held = 0 /\ account.spent = 0
    BY DEF Init
  <2> QED BY <2>1, <2>2, <2>3, FS_EmptySet, DelegationBounds DEF Budget, BudgetBalances
<1> QED BY <1>1, <1>2, <1>4, <1>5, <1>6, <1>7, <1>8, <1>9, <1>10 DEF IInv

-----------------------------------------------------------------------------
(* Steps that leave the tree alone.                                        *)

\* A call about to spawn that was about to before; no other call is.
Kept(h) == thread[h].at = "spawn" /\ thread'[h].req = thread[h].req
NoNewSpawn == \A h \in Handler : thread'[h].at = "spawn" => Kept(h)

\* No task comes to be or ceases to be.
SameTasks == \A u \in Task : state'[u] = "ABSENT" <=> state[u] = "ABSENT"

LEMMA TreeStays ==
  ASSUME UNCHANGED tree
  PROVE  Depth' = Depth /\ Chain' = Chain /\ RootOf' = RootOf
<1>1. parent' = parent /\ reworkOf' = reworkOf
  BY DEF tree
<1> QED BY <1>1, Recursions, Zenon

\* What does not depend on the holds, over a step that moves no link.
LEMMA SettledTree ==
  ASSUME IInv, UNCHANGED tree, SameTasks
  PROVE  /\ Linked' /\ Tree' /\ Envelopes' /\ OneChildPerKey'
         /\ \A r : Checked(r) => Checked(r)'
         /\ \A p : Children(p)' = Children(p)
<1>1. Depth' = Depth /\ Chain' = Chain /\ RootOf' = RootOf
  BY TreeStays
<1>2. parent' = parent /\ reworkOf' = reworkOf /\ grants' = grants /\ idem' = idem
  BY DEF tree
<1>3. parent \in [Task -> Task \cup {NoTask}] /\ reworkOf \in [Task -> Task \cup {NoTask}]
  BY DEF IInv, TypeOK
<1>4. Linked'
  <2>1. \A t \in Root : t \in Task
    BY DEF Task
  <2> QED BY <1>2, <1>3, <2>1, DelegationTasks DEF IInv, Linked, SameTasks
<1>5. Tree'
  BY <1>1, <1>2 DEF IInv, Tree
<1>6. Envelopes'
  BY <1>1, <1>2 DEF IInv, Envelopes, SameTasks
<1>7. OneChildPerKey'
  <2>1. \A c \in Child : c \in Task
    BY DEF Task
  <2> QED BY <1>2, <2>1 DEF IInv, OneChildPerKey, SameTasks
<1>8. \A r : Checked(r) => Checked(r)'
  <2>1. \A r \in Request : r.parent \in Task /\ r.rework \in Task \cup {NoTask}
    BY DelegationRequests
  <2> QED BY <1>1, <1>2, <2>1 DEF Checked, SameTasks
<1>9. \A p : Children(p)' = Children(p)
  BY <1>2 DEF Children
<1> QED BY <1>4, <1>5, <1>6, <1>7, <1>8, <1>9

\* A call that spawns next has checked what it needs.
LEMMA SpawnsStay ==
  ASSUME IInv, UNCHANGED tree, SameTasks,
         \A h \in Handler : thread'[h].at = "spawn" => Kept(h) \/ Checked(thread'[h].req)
  PROVE  Spawns'
<1>1. ASSUME NEW h \in Handler, NEW r, thread'[h].at = "spawn", r = thread'[h].req
      PROVE  Checked(r)'
  <2>1. Checked(r)
    BY <1>1 DEF Kept, IInv, Spawns
  <2> QED BY <2>1, SettledTree
<1> QED BY <1>1, Zenon DEF Spawns, Checked

\* The fan-out stays within its bound as long as no call starts to spawn.
LEMMA FanoutStays ==
  ASSUME IInv, UNCHANGED tree, SameTasks, NoNewSpawn
  PROVE  Fanout'
<1> SUFFICES ASSUME NEW p \in Task
             PROVE  /\ IsFiniteSet(Children(p)')
                    /\ Cardinality(Children(p)') + Cardinality(Spawning(p)')
                         < MaxFanout + Cardinality(Handler)
  BY DEF Fanout
<1>1. Children(p)' = Children(p)
  BY SettledTree
<1>2. Spawning(p)' \subseteq Spawning(p)
  BY DEF NoNewSpawn, Kept, Spawning
<1>3. Spawning(p) \subseteq Handler
  BY DEF Spawning
<1>4. /\ Cardinality(Spawning(p)') \in Nat /\ Cardinality(Spawning(p)) \in Nat
      /\ Cardinality(Spawning(p)') <= Cardinality(Spawning(p))
      /\ Cardinality(Children(p)) \in Nat /\ Cardinality(Handler) \in Nat
  BY <1>2, <1>3, DelegationHandlers, FS_Subset, FS_CardinalityType DEF IInv, Fanout
<1> QED BY <1>1, <1>4, DelegationBounds DEF IInv, Fanout

-----------------------------------------------------------------------------
(* The budget.                                                             *)

Statuses == {"none", "held", "settled", "released"}
HoldType == [status : Statuses, amount : Nat, actual : Nat]
AccountType == [held : Nat, spent : Nat]

\* The sums the account is compared with.
Amounts == [t \in Task |-> hold[t].amount]
Actuals == [t \in Task |-> hold[t].actual]

LEMMA AccountIsSum ==
  ASSUME IInv
  PROVE  /\ Amounts \in [Task -> Nat] /\ Actuals \in [Task -> Nat]
         /\ HeldBy(Task) \in SUBSET Task /\ SettledBy(Task) \in SUBSET Task
         /\ IsFiniteSet(HeldBy(Task)) /\ IsFiniteSet(SettledBy(Task))
         /\ account \in AccountType /\ hold \in [Task -> HoldType]
         /\ account.held = SumFunctionOnSet(Amounts, HeldBy(Task))
         /\ account.spent = SumFunctionOnSet(Actuals, SettledBy(Task))
         /\ account.held + account.spent <= Total
         /\ account.held \in Nat /\ account.spent \in Nat /\ Total \in Nat
<1>1. account \in AccountType /\ hold \in [Task -> HoldType]
  BY DEF IInv, TypeOK, AccountType, HoldType, Statuses
<1>2. Amounts \in [Task -> Nat] /\ Actuals \in [Task -> Nat]
  BY <1>1 DEF Amounts, Actuals, HoldType
<1>3. HeldBy(Task) \in SUBSET Task /\ SettledBy(Task) \in SUBSET Task
  BY DEF HeldBy, SettledBy
<1>4. account.held \in Nat /\ account.spent \in Nat
  BY <1>1 DEF AccountType
<1> QED BY <1>1, <1>2, <1>3, <1>4, DelegationBounds DEF IInv, Budget, BudgetBalances, Amounts, Actuals

\* What a step has to show of the budget.
Balanced == Budget' /\ account' \in AccountType /\ hold' \in [Task -> HoldType]

LEMMA BudgetStays ==
  ASSUME IInv, UNCHANGED <<account, hold>>
  PROVE  Balanced
BY AccountIsSum DEF IInv, Budget, BudgetBalances, HeldBy, SettledBy, Balanced

\* Taking t's hold out of what is held, whether it is spent or given back.
LEMMA HoldLeaves ==
  ASSUME IInv, NEW t \in Task, hold[t].status = "held", NEW S,
         S = HeldBy(Task) \ {t}
  PROVE  /\ IsFiniteSet(S) /\ hold[t].amount \in Nat /\ account.held - hold[t].amount \in Nat
         /\ account.held - hold[t].amount = SumFunctionOnSet(Amounts, S)
<1>1. t \in HeldBy(Task) /\ Amounts[t] = hold[t].amount
  BY DEF HeldBy, Amounts
<1>2. SumFunctionOnSet(Amounts, HeldBy(Task)) = Amounts[t] + SumFunctionOnSet(Amounts, S)
  BY <1>1, AccountIsSum, SumRemove
<1>3. IsFiniteSet(S) /\ S \in SUBSET Task
  BY AccountIsSum, FS_RemoveElement
<1>4. SumFunctionOnSet(Amounts, S) \in Nat
  BY <1>3, AccountIsSum, SumRemove
<1>5. hold[t].amount \in Nat
  BY AccountIsSum DEF HoldType
<1> QED BY <1>1, <1>2, <1>3, <1>4, <1>5, AccountIsSum

LEMMA ReleaseBalances ==
  ASSUME IInv, NEW t \in Task, Release(t)
  PROVE  /\ Balanced
         /\ \A u \in Task \ {t} : hold'[u] = hold[u]
         /\ hold'[t].status = IF hold[t].status = "held" THEN "released" ELSE hold[t].status
<1>1. CASE hold[t].status # "held"
  <2>1. UNCHANGED <<account, hold>>
    BY <1>1 DEF Release
  <2> QED BY <1>1, <2>1, BudgetStays
<1>2. CASE hold[t].status = "held"
  <2>1. /\ account' = [account EXCEPT !.held = @ - hold[t].amount]
        /\ hold' = [hold EXCEPT ![t].status = "released"]
    BY <1>2 DEF Release
  <2>2. /\ account'.held = account.held - hold[t].amount /\ account'.spent = account.spent
        /\ DOMAIN account' = DOMAIN account /\ account \in AccountType
    BY <2>1, AccountIsSum DEF AccountType
  <2>3. /\ hold'[t].status = "released" /\ \A u \in Task \ {t} : hold'[u] = hold[u]
        /\ hold' \in [Task -> HoldType] /\ hold'[t].amount = hold[t].amount
        /\ hold'[t].actual = hold[t].actual
    BY <2>1, AccountIsSum DEF HoldType, Statuses
  <2>4. HeldBy(Task)' = HeldBy(Task) \ {t} /\ SettledBy(Task)' = SettledBy(Task)
    BY <1>2, <2>3 DEF HeldBy, SettledBy
  <2>5. Amounts' = Amounts /\ Actuals' = Actuals
    <3>1. \A u \in Task : hold'[u].amount = hold[u].amount /\ hold'[u].actual = hold[u].actual
      BY <2>3
    <3> QED BY <3>1 DEF Amounts, Actuals
  <2>6. /\ IsFiniteSet(HeldBy(Task)') /\ hold[t].amount \in Nat
        /\ account.held - hold[t].amount \in Nat
        /\ account.held - hold[t].amount = SumFunctionOnSet(Amounts', HeldBy(Task)')
    BY <1>2, <2>4, <2>5, HoldLeaves
  <2>7. account' \in AccountType
    BY <2>1, <2>6, AccountIsSum DEF AccountType
  <2>8. account'.held + account'.spent <= Total
    BY <2>2, <2>6, AccountIsSum
  <2>9. account'.spent = SumFunctionOnSet(Actuals', SettledBy(Task)') /\ IsFiniteSet(SettledBy(Task)')
    BY <2>2, <2>4, <2>5, AccountIsSum
  <2>10. BudgetBalances'
    BY <2>2, <2>6, <2>8, <2>9 DEF BudgetBalances, Amounts, Actuals
  <2> QED BY <1>2, <2>3, <2>6, <2>7, <2>9, <2>10 DEF Balanced, Budget
<1> QED BY <1>1, <1>2

LEMMA SettleBalances ==
  ASSUME IInv, NEW t \in Task, NEW u \in Nat, Affordable(t, u), Settle(t, u)
  PROVE  /\ Balanced
         /\ \A v \in Task \ {t} : hold'[v] = hold[v]
         /\ hold'[t].status = IF hold[t].status = "held" THEN "settled" ELSE hold[t].status
<1>1. CASE hold[t].status # "held"
  <2>1. UNCHANGED <<account, hold>>
    BY <1>1 DEF Settle
  <2> QED BY <1>1, <2>1, BudgetStays
<1>2. CASE hold[t].status = "held"
  <2>1. /\ account' = [held |-> account.held - hold[t].amount, spent |-> account.spent + u]
        /\ hold' = [hold EXCEPT ![t].status = "settled", ![t].actual = u]
        /\ account.held >= hold[t].amount /\ u <= Available + hold[t].amount
    BY <1>2 DEF Settle, Affordable
  <2>2. /\ account'.held = account.held - hold[t].amount /\ account'.spent = account.spent + u
    BY <2>1
  <2>3. /\ hold'[t].status = "settled" /\ \A v \in Task \ {t} : hold'[v] = hold[v]
        /\ hold' \in [Task -> HoldType] /\ hold'[t].amount = hold[t].amount
        /\ hold'[t].actual = u
    BY <2>1, AccountIsSum DEF HoldType, Statuses
  <2>4. /\ HeldBy(Task)' = HeldBy(Task) \ {t} /\ SettledBy(Task)' = SettledBy(Task) \cup {t}
        /\ t \notin SettledBy(Task)
    BY <1>2, <2>3 DEF HeldBy, SettledBy
  <2>5. Amounts' = Amounts
    <3>1. \A v \in Task : hold'[v].amount = hold[v].amount
      BY <2>3
    <3> QED BY <3>1 DEF Amounts
  <2>6. /\ IsFiniteSet(HeldBy(Task)') /\ hold[t].amount \in Nat
        /\ account.held - hold[t].amount \in Nat
        /\ account.held - hold[t].amount = SumFunctionOnSet(Amounts', HeldBy(Task)')
    BY <1>2, <2>4, <2>5, HoldLeaves
  <2>7. account' \in AccountType
    BY <2>1, <2>6, AccountIsSum DEF AccountType
  <2>8. account'.held + account'.spent <= Total
    BY <2>1, <2>2, <2>6, AccountIsSum DEF Available
  <2>9. Actuals' \in [Task -> Nat] /\ Actuals'[t] = u
        /\ \A v \in SettledBy(Task) : Actuals'[v] = Actuals[v]
    <3>1. \A v \in SettledBy(Task) : v \in Task \ {t}
      BY <2>4 DEF SettledBy
    <3>2. Actuals' \in [Task -> Nat] /\ Actuals'[t] = u
      BY <2>3 DEF Actuals, HoldType
    <3>3. \A v \in Task \ {t} : Actuals'[v] = Actuals[v]
      BY <2>3 DEF Actuals
    <3> QED BY <3>1, <3>2, <3>3
  <2>10. IsFiniteSet(SettledBy(Task)') /\ SettledBy(Task)' \in SUBSET Task
         /\ t \in SettledBy(Task)' /\ SettledBy(Task)' \ {t} = SettledBy(Task)
    BY <2>4, AccountIsSum, FS_AddElement
  <2>11. SumFunctionOnSet(Actuals', SettledBy(Task)) = account.spent
    BY <2>9, AccountIsSum, SumAgrees
  <2>12. SumFunctionOnSet(Actuals', SettledBy(Task)') = u + account.spent
    <3>1. SumFunctionOnSet(Actuals', SettledBy(Task)')
            = Actuals'[t] + SumFunctionOnSet(Actuals', SettledBy(Task)' \ {t})
      BY <2>9, <2>10, SumRemove
    <3> QED BY <2>9, <2>10, <2>11, <3>1
  <2>13. BudgetBalances'
    <3>1. account'.spent = SumFunctionOnSet(Actuals', SettledBy(Task)')
      BY <2>2, <2>12, AccountIsSum
    <3> QED BY <2>2, <2>6, <2>8, <3>1 DEF BudgetBalances, Amounts, Actuals
  <2> QED BY <1>2, <2>3, <2>6, <2>7, <2>10, <2>13 DEF Balanced, Budget
<1> QED BY <1>1, <1>2

\* SpawnSubtask's reservation for a task that had none.
LEMMA ReserveBalances ==
  ASSUME IInv, NEW c \in Task, NEW n \in Nat, n <= Available, hold[c].status = "none",
         hold' = [hold EXCEPT ![c] = [status |-> "held", amount |-> n, actual |-> 0]],
         account' = [account EXCEPT !.held = @ + n]
  PROVE  /\ Balanced
         /\ \A v \in Task \ {c} : hold'[v] = hold[v]
         /\ hold'[c].status = "held"
<1>1. /\ hold'[c] = [status |-> "held", amount |-> n, actual |-> 0]
      /\ \A v \in Task \ {c} : hold'[v] = hold[v]
  BY AccountIsSum
<1>2. hold' \in [Task -> HoldType]
  <2>1. [status |-> "held", amount |-> n, actual |-> 0] \in HoldType
    BY DEF HoldType, Statuses
  <2> QED BY <2>1, AccountIsSum
<1>3. /\ account' \in AccountType
      /\ account'.held = account.held + n /\ account'.spent = account.spent
  BY AccountIsSum DEF AccountType
<1>4. /\ HeldBy(Task)' = HeldBy(Task) \cup {c} /\ SettledBy(Task)' = SettledBy(Task)
      /\ c \notin HeldBy(Task) /\ c \notin SettledBy(Task)
  BY <1>1 DEF HeldBy, SettledBy
<1>5. /\ Amounts' \in [Task -> Nat] /\ Amounts'[c] = n
      /\ \A v \in Task \ {c} : Amounts'[v] = Amounts[v] /\ Actuals'[v] = Actuals[v]
  BY <1>1, <1>2 DEF Amounts, Actuals, HoldType
<1>6. /\ \A v \in HeldBy(Task) : Amounts'[v] = Amounts[v]
      /\ \A v \in SettledBy(Task) : Actuals'[v] = Actuals[v]
  BY <1>4, <1>5, AccountIsSum
<1>7. /\ SumFunctionOnSet(Amounts', HeldBy(Task)) = account.held
      /\ SumFunctionOnSet(Actuals', SettledBy(Task)') = account.spent
  BY <1>4, <1>6, AccountIsSum, SumAgrees
<1>8. IsFiniteSet(HeldBy(Task)') /\ HeldBy(Task)' \in SUBSET Task
      /\ c \in HeldBy(Task)' /\ HeldBy(Task)' \ {c} = HeldBy(Task)
  BY <1>4, AccountIsSum, FS_AddElement
<1>9. SumFunctionOnSet(Amounts', HeldBy(Task)') = n + account.held
  <2>1. SumFunctionOnSet(Amounts', HeldBy(Task)')
          = Amounts'[c] + SumFunctionOnSet(Amounts', HeldBy(Task)' \ {c})
    BY <1>5, <1>8, SumRemove
  <2> QED BY <1>5, <1>7, <1>8, <2>1
<1>10. account'.held = SumFunctionOnSet(Amounts', HeldBy(Task)')
  BY <1>3, <1>9, AccountIsSum
<1>11. account'.held + account'.spent <= Total
  BY <1>3, AccountIsSum DEF Available
<1>12. BudgetBalances'
  BY <1>3, <1>7, <1>10, <1>11 DEF BudgetBalances, Amounts, Actuals
<1> QED BY <1>1, <1>2, <1>3, <1>4, <1>8, <1>12, AccountIsSum DEF Balanced, Budget

-----------------------------------------------------------------------------
(* The tasks' own life keeps the invariant.                                *)

States == {"ABSENT", "SUCCEEDED", "FAILED", "CANCELLED"} \cup Live

\* A task's move overtakes calls; what else they know stays.
LEMMA OvertakenFacts ==
  ASSUME TypeOK, NEW t \in Task, NEW h \in Handler
  PROVE  /\ Overtaken(t) \in [Handler -> Local]
         /\ Overtaken(t)[h].at = thread[h].at /\ Overtaken(t)[h].req = thread[h].req
         /\ Overtaken(t)[h].task = thread[h].task
<1>1. ASSUME NEW g \in Handler
      PROVE  /\ Overtaken(t)[g] \in Local /\ Overtaken(t)[g].at = thread[g].at
             /\ Overtaken(t)[g].req = thread[g].req /\ Overtaken(t)[g].task = thread[g].task
  <2>1. thread[g] \in Local
    BY DEF TypeOK
  <2> QED BY <2>1 DEF Overtaken, Local
<1>2. Overtaken(t) = [g \in Handler |-> Overtaken(t)[g]]
  BY DEF Overtaken
<1> HIDE DEF Overtaken
<1>3. Overtaken(t) \in [Handler -> Local]
  BY <1>1, <1>2
<1> QED BY <1>1, <1>3

\* The status a task's hold must have.
HoldFits(t) ==
  IF t \in Child /\ Metered THEN hold[t].status \in HoldOf(state[t], attempt[t])
  ELSE hold[t].status = "none"

\* A task that is there enters another state.
Enters(t, s) ==
  /\ t \in Task /\ state[t] # "ABSENT" /\ s \in States \ {"ABSENT"} /\ Enter(t, s)

LEMMA EntersFacts ==
  ASSUME IInv, NEW t, NEW s, Enters(t, s)
  PROVE  /\ state' \in [Task -> States] /\ SameTasks
         /\ state'[t] = s /\ \A u \in Task \ {t} : state'[u] = state[u]
<1>1. state \in [Task -> States]
  BY DEF IInv, TypeOK, States
<1> QED BY <1>1 DEF Enters, Enter, SameTasks

\* A live task moves and its hold with it, while the other tasks and their holds stay.
LEMMA LifeStep ==
  ASSUME IInv, NEW t, NEW s, Enters(t, s), state[t] \in Live,
         thread' = Overtaken(t), UNCHANGED <<attempt, tree>>,
         Balanced, \A u \in Task \ {t} : hold'[u] = hold[u], HoldFits(t)'
  PROVE  IInv'
<1>1. /\ state' \in [Task -> States] /\ SameTasks /\ t \in Task
      /\ state'[t] = s /\ \A u \in Task \ {t} : state'[u] = state[u]
  BY EntersFacts DEF Enters
<1>2. /\ thread' \in [Handler -> Local]
      /\ \A h \in Handler : /\ thread'[h].at = thread[h].at /\ thread'[h].req = thread[h].req
                            /\ thread'[h].task = thread[h].task
  <2>1. TypeOK
    BY DEF IInv
  <2>2. Handler # {}
    BY DelegationHandlers
  <2> QED BY <1>1, <2>1, <2>2, OvertakenFacts
<1>3. UNCHANGED tree /\ UNCHANGED attempt
  OBVIOUS
<1>4. TypeOK'
  BY <1>1, <1>2, <1>3 DEF IInv, TypeOK, tree, States, Balanced, AccountType, HoldType, Statuses
<1>5. /\ Linked' /\ Tree' /\ Envelopes' /\ OneChildPerKey'
  BY <1>1, <1>3, SettledTree
<1>6. NoNewSpawn
  BY <1>2 DEF NoNewSpawn, Kept
<1>7. Spawns' /\ Fanout'
  BY <1>1, <1>3, <1>6, SpawnsStay, FanoutStays DEF NoNewSpawn
<1>8. Retries'
  <2>1. \A h \in Handler, u \in Task : Retrying(h, u)' <=> Retrying(h, u)
    BY <1>2 DEF Retrying
  <2>2. ASSUME NEW h \in Handler, thread'[h].at = "retry"
        PROVE  /\ thread'[h].task \in Task /\ state'[thread'[h].task] = "FAILED"
               /\ attempt'[thread'[h].task] < MaxAttempts
               /\ Metered /\ thread'[h].task \in Child => hold'[thread'[h].task].status = "held"
    <3>1. /\ thread[h].task \in Task /\ state[thread[h].task] = "FAILED"
          /\ attempt[thread[h].task] < MaxAttempts
          /\ Metered /\ thread[h].task \in Child => hold[thread[h].task].status = "held"
      BY <1>2, <2>2 DEF IInv, Retries
    <3>2. thread[h].task \in Task \ {t}
      BY <3>1 DEF Live
    <3> QED BY <1>1, <1>2, <1>3, <3>1, <3>2
  <2>3. \A g, h \in Handler, u \in Task : Retrying(g, u)' /\ Retrying(h, u)' => g = h
    BY <2>1 DEF IInv, Retries
  <2> QED BY <2>2, <2>3 DEF Retries
<1>9. Holds'
  <2>1. ASSUME NEW u \in Task PROVE HoldFits(u)'
    <3>1. CASE u = t
      BY <3>1
    <3>2. CASE u # t
      BY <1>1, <3>2 DEF IInv, Holds, HoldFits
    <3> QED BY <3>1, <3>2
  <2> QED BY <2>1 DEF Holds, HoldFits
<1> QED BY <1>4, <1>5, <1>7, <1>8, <1>9 DEF IInv, Balanced

LEMMA ABegin == ASSUME IInv, NEW t \in Task, Begin(t) \/ Requeue(t) PROVE IInv'
<1>1. PICK s \in Live : /\ state[t] \in Live /\ Move(t, s) /\ UNCHANGED <<attempt, tree, account, hold>>
  BY DEF Begin, Requeue, Live
<1>2. Enters(t, s) /\ thread' = Overtaken(t) /\ UNCHANGED <<account, hold>>
  BY <1>1 DEF Enters, Move, Live, States
<1>3. HoldFits(t)'
  <2>1. HoldFits(t)
    BY DEF IInv, Holds, HoldFits
  <2>2. state'[t] = s /\ s # "ABSENT" /\ state[t] # "ABSENT"
    BY <1>1, <1>2, EntersFacts DEF Live
  <2> QED BY <1>1, <2>1, <2>2 DEF HoldFits, HoldOf
<1> QED BY <1>1, <1>2, <1>3, BudgetStays, LifeStep

LEMMA AFailOutright == ASSUME IInv, NEW t \in Task, FailOutright(t) PROVE IInv'
<1>1. state[t] \in Live /\ Enters(t, "FAILED") /\ thread' = Overtaken(t)
  BY DEF FailOutright, Move, Enters, Live, States
<1>2. UNCHANGED <<account, hold>> /\ UNCHANGED <<attempt, tree>>
  BY DEF FailOutright
<1>3. HoldFits(t)'
  <2>1. HoldFits(t)
    BY DEF IInv, Holds, HoldFits
  <2>2. state'[t] = "FAILED" /\ state[t] # "ABSENT"
    BY <1>1, EntersFacts DEF Live
  <2> QED BY <1>1, <1>2, <2>1, <2>2 DEF HoldFits, HoldOf, Live
<1> QED BY <1>1, <1>2, <1>3, BudgetStays, LifeStep

LEMMA AComplete == ASSUME IInv, NEW t \in Task, NEW u \in Usage, Complete(t, u) PROVE IInv'
<1>1. /\ state[t] \in Live /\ Enters(t, "SUCCEEDED") /\ thread' = Overtaken(t)
      /\ UNCHANGED <<attempt, tree>> /\ u \in Nat
  BY DelegationRequests DEF Complete, Move, Enters, Live, States
<1>2. /\ Balanced /\ \A v \in Task \ {t} : hold'[v] = hold[v]
      /\ hold'[t].status = IF hold[t].status = "held" THEN "settled" ELSE hold[t].status
  BY <1>1, SettleBalances DEF Complete
<1>3. HoldFits(t)'
  <2>1. HoldFits(t)
    BY DEF IInv, Holds, HoldFits
  <2>2. state'[t] = "SUCCEEDED" /\ state[t] # "ABSENT"
    BY <1>1, EntersFacts DEF Live
  <2> QED BY <1>1, <1>2, <2>1, <2>2 DEF HoldFits, HoldOf, Live
<1> QED BY <1>1, <1>2, <1>3, LifeStep

\* A live task that gives its hold back.
LEMMA LastStep ==
  ASSUME IInv, NEW t \in Task, NEW s \in {"FAILED", "CANCELLED"}, state[t] \in Live, Enter(t, s),
         Release(t), thread' = Overtaken(t), UNCHANGED <<attempt, tree>>,
         s = "FAILED" => attempt[t] = MaxAttempts
  PROVE  IInv'
<1>1. Enters(t, s)
  BY DEF Enters, Live, States
<1>2. /\ Balanced /\ \A v \in Task \ {t} : hold'[v] = hold[v]
      /\ hold'[t].status = IF hold[t].status = "held" THEN "released" ELSE hold[t].status
  BY ReleaseBalances
<1>3. HoldFits(t)'
  <2>1. HoldFits(t)
    BY DEF IInv, Holds, HoldFits
  <2>2. state'[t] = s /\ state[t] # "ABSENT"
    BY <1>1, EntersFacts DEF Live
  <2> QED BY <1>1, <1>2, <2>1, <2>2 DEF HoldFits, HoldOf, Live
<1> QED BY <1>1, <1>2, <1>3, LifeStep

LEMMA ACancel == ASSUME IInv, NEW t \in Task, Cancel(t) PROVE IInv'
<1>1. /\ state[t] \in Live /\ Enter(t, "CANCELLED") /\ Release(t)
      /\ thread' = Overtaken(t) /\ UNCHANGED <<attempt, tree>>
  BY DEF Cancel, Move
<1> QED BY <1>1, LastStep

\* A call that moves a task and starts or ends a retry; the holds stay.
LEMMA RetryStep ==
  ASSUME IInv, NEW t, NEW s, Enters(t, s), NEW h \in Handler, NEW l \in Local, l.at # "spawn",
         thread' = [Overtaken(t) EXCEPT ![h] = l],
         UNCHANGED <<tree, account, hold>>, attempt' \in [Task -> 0..MaxAttempts],
         \A u \in Task \ {t} : attempt'[u] = attempt[u], HoldFits(t)', Retries'
  PROVE  IInv'
<1>1. /\ state' \in [Task -> States] /\ SameTasks /\ t \in Task
      /\ state'[t] = s /\ \A u \in Task \ {t} : state'[u] = state[u]
  BY EntersFacts DEF Enters
<1>2. /\ thread' \in [Handler -> Local] /\ thread'[h] = l
      /\ \A g \in Handler \ {h} : thread'[g].at = thread[g].at /\ thread'[g].req = thread[g].req
  <2>1. TypeOK
    BY DEF IInv
  <2>2. /\ Overtaken(t) \in [Handler -> Local]
        /\ \A g \in Handler : /\ Overtaken(t)[g].at = thread[g].at
                              /\ Overtaken(t)[g].req = thread[g].req
    BY <1>1, <2>1, OvertakenFacts
  <2> QED BY <2>2
<1>3. UNCHANGED tree /\ UNCHANGED <<account, hold>>
  OBVIOUS
<1>4. Balanced
  BY <1>3, BudgetStays
<1>5. TypeOK'
  BY <1>1, <1>2, <1>3, <1>4 DEF IInv, TypeOK, tree, States, Balanced, AccountType, HoldType, Statuses
<1>6. Linked' /\ Tree' /\ Envelopes' /\ OneChildPerKey'
  BY <1>1, <1>3, SettledTree
<1>7. NoNewSpawn
  BY <1>2 DEF NoNewSpawn, Kept
<1>8. Spawns' /\ Fanout'
  BY <1>1, <1>3, <1>7, SpawnsStay, FanoutStays DEF NoNewSpawn
<1>9. Holds'
  <2>1. ASSUME NEW u \in Task PROVE HoldFits(u)'
    <3>1. CASE u = t
      BY <3>1
    <3>2. CASE u # t
      BY <1>1, <1>3, <3>2 DEF IInv, Holds, HoldFits
    <3> QED BY <3>1, <3>2
  <2> QED BY <2>1 DEF Holds, HoldFits
<1> QED BY <1>4, <1>5, <1>6, <1>8, <1>9 DEF IInv, Balanced

LEMMA AFail == ASSUME IInv, NEW h \in Handler, NEW t \in Task, Fail(h, t) PROVE IInv'
<1>1. /\ thread[h].at = "idle" /\ state[t] = "RUNNING" /\ Enter(t, "FAILED")
      /\ UNCHANGED tree /\ UNCHANGED attempt
  BY DEF Fail
<1>2. CASE ~ attempt[t] < MaxAttempts
  <2>1. Release(t) /\ thread' = Overtaken(t)
    BY <1>2 DEF Fail
  <2>2. attempt[t] = MaxAttempts
    <3>1. attempt[t] \in 0..MaxAttempts
      BY DEF IInv, TypeOK
    <3> QED BY <1>2, <3>1, DelegationBounds
  <2> QED BY <1>1, <2>1, <2>2, LastStep DEF Live
<1>3. CASE attempt[t] < MaxAttempts
  <2> DEFINE l == [Idle EXCEPT !.at = "retry", !.task = t]
  <2>1. thread' = [Overtaken(t) EXCEPT ![h] = l] /\ UNCHANGED <<account, hold>>
    BY <1>3 DEF Fail
  <2>2. l \in Local /\ l.at = "retry" /\ l.task = t
    BY DEF Idle, Local
  <2> HIDE DEF l
  <2>3. Enters(t, "FAILED")
    BY <1>1 DEF Enters, Live, States
  <2>4. state'[t] = "FAILED" /\ \A u \in Task \ {t} : state'[u] = state[u]
    BY <2>3, EntersFacts
  <2>5. HoldFits(t) /\ (Metered /\ t \in Child => hold[t].status = "held")
    BY <1>1 DEF IInv, Holds, HoldFits, HoldOf, Live
  <2>6. HoldFits(t)'
    BY <1>1, <2>1, <2>4, <2>5 DEF HoldFits, HoldOf, Live
  <2>7. /\ thread'[h].at = "retry" /\ thread'[h].task = t
        /\ \A g \in Handler \ {h} : thread'[g].at = thread[g].at /\ thread'[g].task = thread[g].task
    <3>1. TypeOK
      BY DEF IInv
    <3>2. /\ Overtaken(t) \in [Handler -> Local]
          /\ \A g \in Handler : /\ Overtaken(t)[g].at = thread[g].at
                                /\ Overtaken(t)[g].task = thread[g].task
      BY <3>1, OvertakenFacts
    <3> QED BY <2>1, <2>2, <3>2
  <2>8. Retries'
    <3>1. ASSUME NEW g \in Handler, thread'[g].at = "retry"
          PROVE  /\ thread'[g].task \in Task /\ state'[thread'[g].task] = "FAILED"
                 /\ attempt'[thread'[g].task] < MaxAttempts
                 /\ Metered /\ thread'[g].task \in Child => hold'[thread'[g].task].status = "held"
                 /\ g # h => thread'[g].task # t
      <4>1. CASE g = h
        BY <1>1, <1>3, <2>1, <2>4, <2>5, <2>7, <4>1
      <4>2. CASE g # h
        <5>1. /\ thread[g].task \in Task /\ state[thread[g].task] = "FAILED"
              /\ attempt[thread[g].task] < MaxAttempts
              /\ Metered /\ thread[g].task \in Child => hold[thread[g].task].status = "held"
          BY <2>7, <3>1, <4>2 DEF IInv, Retries
        <5>2. thread[g].task # t
          BY <1>1, <5>1
        <5> QED BY <1>1, <2>1, <2>4, <2>7, <4>2, <5>1, <5>2
      <4> QED BY <4>1, <4>2
    <3>2. ASSUME NEW f \in Handler, NEW g \in Handler, NEW u \in Task,
                 Retrying(f, u)', Retrying(g, u)'
          PROVE  f = g
      <4>1. /\ thread'[f].at = "retry" /\ thread'[f].task = u
            /\ thread'[g].at = "retry" /\ thread'[g].task = u
        BY <3>2 DEF Retrying
      <4>2. f = h <=> g = h
        BY <2>7, <3>1, <4>1
      <4>3. CASE f # h
        BY <2>7, <4>1, <4>2, <4>3 DEF IInv, Retries, Retrying
      <4> QED BY <4>2, <4>3
    <3> QED BY <3>1, <3>2 DEF Retries
  <2>9. attempt' \in [Task -> 0..MaxAttempts]
    BY <1>1 DEF IInv, TypeOK
  <2> QED BY <1>1, <2>1, <2>2, <2>3, <2>6, <2>8, <2>9, RetryStep
<1> QED BY <1>2, <1>3

LEMMA ARetry == ASSUME IInv, NEW h \in Handler, Retry(h) PROVE IInv'
<1> DEFINE t == thread[h].task
<1>1. /\ t \in Task /\ state[t] = "FAILED" /\ attempt[t] < MaxAttempts
      /\ Metered /\ t \in Child => hold[t].status = "held"
      /\ thread[h].at = "retry"
  BY DEF IInv, Retries, Retry
<1>2. /\ Enter(t, "READY") /\ attempt' = [attempt EXCEPT ![t] = @ + 1]
      /\ thread' = [Overtaken(t) EXCEPT ![h] = Idle] /\ UNCHANGED <<tree, account, hold>>
  BY DEF Retry
<1>3. PICK u \in Task : u = t
  BY <1>1
<1> HIDE DEF t
<1>4. /\ state[u] = "FAILED" /\ attempt[u] < MaxAttempts /\ thread[h].task = u
      /\ Metered /\ u \in Child => hold[u].status = "held"
      /\ Enter(u, "READY") /\ attempt' = [attempt EXCEPT ![u] = @ + 1]
      /\ thread' = [Overtaken(u) EXCEPT ![h] = Idle] /\ UNCHANGED <<tree, account, hold>>
  BY <1>1, <1>2, <1>3 DEF t
<1>5. Enters(u, "READY")
  BY <1>4 DEF Enters, Live, States
<1>6. state'[u] = "READY" /\ \A v \in Task \ {u} : state'[v] = state[v]
  BY <1>5, EntersFacts
<1>7. HoldFits(u)'
  <2>1. HoldFits(u)
    BY DEF IInv, Holds, HoldFits
  <2> QED BY <1>4, <1>6, <2>1 DEF HoldFits, HoldOf, Live
<1>8. Idle \in Local /\ Idle.at = "idle"
  BY DEF Idle, Local
<1>9. attempt' \in [Task -> 0..MaxAttempts] /\ \A v \in Task \ {u} : attempt'[v] = attempt[v]
  BY <1>4, DelegationBounds DEF IInv, TypeOK
<1>10. /\ thread'[h].at = "idle"
       /\ \A g \in Handler \ {h} : thread'[g].at = thread[g].at /\ thread'[g].task = thread[g].task
  <2>1. TypeOK
    BY DEF IInv
  <2>2. /\ Overtaken(u) \in [Handler -> Local]
        /\ \A g \in Handler : /\ Overtaken(u)[g].at = thread[g].at
                              /\ Overtaken(u)[g].task = thread[g].task
    BY <2>1, OvertakenFacts
  <2> QED BY <1>4, <1>8, <2>2
<1>11. Retries'
  <2>1. ASSUME NEW g \in Handler, thread'[g].at = "retry"
        PROVE  /\ g # h /\ Retrying(g, thread'[g].task)
               /\ thread'[g].task \in Task /\ state'[thread'[g].task] = "FAILED"
               /\ attempt'[thread'[g].task] < MaxAttempts
               /\ Metered /\ thread'[g].task \in Child => hold'[thread'[g].task].status = "held"
    <3>1. g # h /\ thread'[g].at = thread[g].at /\ thread'[g].task = thread[g].task
      BY <1>10, <2>1
    <3>2. /\ thread[g].task \in Task /\ state[thread[g].task] = "FAILED"
          /\ attempt[thread[g].task] < MaxAttempts
          /\ Metered /\ thread[g].task \in Child => hold[thread[g].task].status = "held"
      BY <2>1, <3>1 DEF IInv, Retries
    <3>3. thread[g].task # u
      BY <1>1, <1>4, <2>1, <3>1 DEF IInv, Retries, Retrying
    <3> QED BY <1>4, <1>6, <1>9, <2>1, <3>1, <3>2, <3>3 DEF Retrying
  <2>2. ASSUME NEW f \in Handler, NEW g \in Handler, NEW v \in Task,
               Retrying(f, v)', Retrying(g, v)'
        PROVE  f = g
    <3>1. /\ thread'[f].at = "retry" /\ thread'[f].task = v
          /\ thread'[g].at = "retry" /\ thread'[g].task = v
      BY <2>2 DEF Retrying
    <3>2. Retrying(f, v) /\ Retrying(g, v)
      BY <2>1, <3>1
    <3> QED BY <3>2 DEF IInv, Retries
  <2> QED BY <2>1, <2>2 DEF Retries
<1> QED BY <1>4, <1>5, <1>7, <1>8, <1>9, <1>11, RetryStep

-----------------------------------------------------------------------------
(* Delegation keeps the invariant.                                         *)

\* A step of one call that changes nothing else and has to do with no retry.
LEMMA CallStep ==
  ASSUME IInv, NEW h \in Handler, NEW l \in Local, thread' = [thread EXCEPT ![h] = l],
         thread[h].at # "retry", l.at # "retry", l.at = "spawn" => Checked(l.req),
         UNCHANGED <<state, attempt, tree, account, hold>>, Fanout'
  PROVE  IInv'
<1>1. /\ UNCHANGED tree /\ UNCHANGED <<account, hold>> /\ state' = state /\ attempt' = attempt
      /\ SameTasks
  BY DEF SameTasks
<1>2. /\ thread' \in [Handler -> Local] /\ thread'[h] = l
      /\ \A g \in Handler \ {h} : thread'[g] = thread[g]
  BY DEF IInv, TypeOK
<1>3. Balanced
  BY <1>1, BudgetStays
<1>4. TypeOK'
  BY <1>1, <1>2 DEF IInv, TypeOK, tree
<1>5. Linked' /\ Tree' /\ Envelopes' /\ OneChildPerKey'
  BY <1>1, SettledTree
<1>6. Spawns'
  <2>1. ASSUME NEW g \in Handler, thread'[g].at = "spawn"
        PROVE  Kept(g) \/ Checked(thread'[g].req)
    <3>1. CASE g = h
      BY <1>2, <2>1, <3>1
    <3>2. CASE g # h
      BY <1>2, <2>1, <3>2 DEF Kept
    <3> QED BY <3>1, <3>2
  <2> QED BY <1>1, <2>1, SpawnsStay
<1>7. Retries'
  <2>1. \A g \in Handler : thread'[g].at = "retry" => g # h /\ thread'[g] = thread[g]
    BY <1>2
  <2> QED BY <1>1, <2>1 DEF IInv, Retries, Retrying
<1>8. Holds'
  BY <1>1 DEF IInv, Holds
<1> QED BY <1>3, <1>4, <1>5, <1>6, <1>7, <1>8 DEF IInv, Balanced

LEMMA ADelegate == ASSUME IInv, NEW h \in Handler, NEW r \in Request, Delegate(h, r) PROVE IInv'
<1> DEFINE l == [Idle EXCEPT !.at = "spawn", !.req = r, !.fresh = TRUE]
<1>1. /\ thread[h].at = "idle" /\ thread' = [thread EXCEPT ![h] = l]
      /\ UNCHANGED <<state, attempt, tree, account, hold>>
      /\ state[r.parent] = "RUNNING" /\ Within(grants[r.parent], r.grants) /\ WithinLimits(r)
  BY DEF Delegate
<1>2. l \in Local /\ l.at = "spawn" /\ l.req = r
  BY DEF Idle, Local
<1> HIDE DEF l
<1>3. Checked(r)
  BY <1>1 DEF Checked, WithinLimits, WithinRework
<1>4. Fanout'
  <2> SUFFICES ASSUME NEW p \in Task
               PROVE  /\ IsFiniteSet(Children(p)')
                      /\ Cardinality(Children(p)') + Cardinality(Spawning(p)')
                           < MaxFanout + Cardinality(Handler)
    BY DEF Fanout
  <2>1. Children(p)' = Children(p)
    BY <1>1 DEF Children, tree
  <2>2. /\ IsFiniteSet(Children(p)) /\ Cardinality(Children(p)) \in Nat
        /\ Cardinality(Handler) \in Nat
    BY DelegationHandlers, FS_CardinalityType DEF IInv, Fanout
  <2>3. thread' \in [Handler -> Local] /\ thread'[h] = l
        /\ \A g \in Handler \ {h} : thread'[g] = thread[g]
    BY <1>1, <1>2 DEF IInv, TypeOK
  <2>4. CASE p = r.parent
    <3>1. Spawning(p)' \subseteq Handler
      BY DEF Spawning
    <3>2. /\ Cardinality(Spawning(p)') \in Nat
          /\ Cardinality(Spawning(p)') <= Cardinality(Handler)
      BY <3>1, DelegationHandlers, FS_Subset, FS_CardinalityType
    <3>3. Cardinality(Children(p)) < MaxFanout
      BY <1>1, <2>4 DEF WithinLimits
    <3> QED BY <2>1, <2>2, <3>2, <3>3, DelegationBounds
  <2>5. CASE p # r.parent
    <3>1. Spawning(p)' = Spawning(p)
      BY <1>1, <1>2, <2>3, <2>5 DEF Spawning
    <3> QED BY <2>1, <3>1 DEF IInv, Fanout
  <2> QED BY <2>4, <2>5
<1> QED BY <1>1, <1>2, <1>3, <1>4, CallStep

LEMMA ASpawnEnds == ASSUME IInv, NEW h \in Handler, SpawnEnds(h) PROVE IInv'
<1>1. /\ thread[h].at = "spawn" /\ thread' = [thread EXCEPT ![h] = Idle]
      /\ UNCHANGED <<state, attempt, tree, account, hold>>
  BY DEF SpawnEnds
<1>2. Idle \in Local /\ Idle.at = "idle"
  BY DEF Idle, Local
<1>3. Fanout'
  <2>1. thread' \in [Handler -> Local] /\ thread'[h] = Idle
        /\ \A g \in Handler \ {h} : thread'[g] = thread[g]
    BY <1>1, <1>2 DEF IInv, TypeOK
  <2>2. NoNewSpawn /\ SameTasks /\ UNCHANGED tree
    BY <1>1, <1>2, <2>1 DEF NoNewSpawn, Kept, SameTasks
  <2> QED BY <2>2, FanoutStays
<1> QED BY <1>1, <1>2, <1>3, CallStep

\* SpawnSubtask answering r with a new child, in the invariant's terms.
Spawned(h, r) ==
  /\ h \in Handler /\ r \in Request /\ thread[h].at = "spawn" /\ thread[h].req = r
  /\ Checked(r) /\ idem[r.key] = NoTask
  /\ state[r.parent] = "RUNNING" /\ state[r.child] = "ABSENT"
  /\ r.key \in Key /\ r.parent \in Task /\ r.child \in Child /\ r.child \in Task
  /\ r.amount \in Nat /\ r.rework \in Task \cup {NoTask} /\ r.grants \in Envelope
  /\ r.child # NoTask /\ r.parent # NoTask /\ r.parent # r.child /\ r.rework # r.child
  /\ state' = [state EXCEPT ![r.child] = "READY"]
  /\ parent' = [parent EXCEPT ![r.child] = r.parent]
  /\ reworkOf' = [reworkOf EXCEPT ![r.child] = r.rework]
  /\ grants' = [grants EXCEPT ![r.child] = Normalize(r.grants)]
  /\ idem' = [idem EXCEPT ![r.key] = r.child]
  /\ thread' = [thread EXCEPT ![h] = Idle] /\ attempt' = attempt

LEMMA SpawnedFacts ==
  ASSUME IInv, NEW h \in Handler, SpawnSubtask(h)
  PROVE  \E r : Spawned(h, r)
<1>1. PICK r : r = thread[h].req
  OBVIOUS
<1>2. /\ thread[h].at = "spawn" /\ idem[r.key] = NoTask
      /\ state[r.parent] = "RUNNING" /\ state[r.child] = "ABSENT"
      /\ Enter(r.child, "READY")
      /\ parent' = [parent EXCEPT ![r.child] = r.parent]
      /\ reworkOf' = [reworkOf EXCEPT ![r.child] = r.rework]
      /\ grants' = [grants EXCEPT ![r.child] = Normalize(r.grants)]
      /\ idem' = [idem EXCEPT ![r.key] = r.child]
      /\ thread' = [thread EXCEPT ![h] = Idle] /\ attempt' = attempt
  BY <1>1, Zenon DEF SpawnSubtask, Admitted
<1>3. Checked(r)
  BY <1>1, <1>2 DEF IInv, Spawns
<1>4. r \in Request
  BY <1>3 DEF Checked
<1>5. /\ r.key \in Key /\ r.parent \in Task /\ r.child \in Child
      /\ r.amount \in Nat /\ r.rework \in Task \cup {NoTask} /\ r.grants \in Envelope
  BY <1>4, DelegationRequests
<1>6. r.child \in Task /\ r.child # NoTask /\ r.parent # NoTask
  BY <1>5, DelegationTasks DEF Task
<1>7. r.parent # r.child
  BY <1>2
<1>8. r.rework # r.child
  BY <1>2, <1>3, <1>6 DEF Checked
<1>9. state' = [state EXCEPT ![r.child] = "READY"]
  BY <1>2 DEF Enter
<1>10. Spawned(h, r)
  BY <1>1, <1>2, <1>3, <1>4, <1>5, <1>6, <1>7, <1>8, <1>9, Zenon DEF Spawned
<1> QED BY <1>10

\* What the step changes, task by task and call by call.
LEMMA SpawnedEffect ==
  ASSUME IInv, NEW h, NEW r, Spawned(h, r)
  PROVE  /\ state'[r.child] = "READY" /\ \A t \in Task \ {r.child} : state'[t] = state[t]
         /\ parent'[r.child] = r.parent /\ \A t \in Task \ {r.child} : parent'[t] = parent[t]
         /\ reworkOf'[r.child] = r.rework /\ \A t \in Task \ {r.child} : reworkOf'[t] = reworkOf[t]
         /\ grants'[r.child] = Normalize(r.grants)
         /\ \A t \in Task \ {r.child} : grants'[t] = grants[t]
         /\ idem'[r.key] = r.child /\ \A k \in Key \ {r.key} : idem'[k] = idem[k]
         /\ thread'[h] = Idle /\ \A g \in Handler \ {h} : thread'[g] = thread[g]
         /\ \A t \in Task : parent[t] # r.child /\ reworkOf[t] # r.child
         /\ parent[r.child] = NoTask /\ reworkOf[r.child] = NoTask
<1>1. \A t \in Task : parent[t] # r.child /\ reworkOf[t] # r.child
  BY DEF IInv, Linked, Spawned
<1>2. parent[r.child] = NoTask /\ reworkOf[r.child] = NoTask
  BY DEF IInv, Linked, Spawned
<1> QED BY <1>1, <1>2 DEF IInv, TypeOK, Spawned

LEMMA SpawnedTree ==
  ASSUME IInv, NEW h, NEW r, Spawned(h, r)
  PROVE  /\ Tree'
         /\ \A t \in Task \ {r.child} : Depth'[t] = Depth[t] /\ Chain'[t] = Chain[t]
         /\ RootOf'[r.child] = RootOf[r.parent]
         /\ \A t \in Task \ {r.child} : RootOf'[t] = RootOf[t]
         /\ RootOf \in [Task -> Task]
<1> DEFINE c == r.child
           p == r.parent
           q == r.rework
           d == [Depth EXCEPT ![c] = IF p = NoTask THEN 1 ELSE 1 + Depth[p]]
           e == [Chain EXCEPT ![c] = IF q = NoTask THEN 0 ELSE 1 + Chain[q]]
           o == [RootOf EXCEPT ![c] = RootOf[p]]
<1>1. /\ c \in Task /\ p \in Task /\ q \in Task \cup {NoTask} /\ p # c /\ q # c /\ p # NoTask
      /\ parent' = [parent EXCEPT ![c] = p] /\ reworkOf' = [reworkOf EXCEPT ![c] = q]
  BY DEF Spawned
<1>2. /\ Counts(parent, 1, Depth) /\ Counts(reworkOf, 0, Chain) /\ Leads(parent, RootOf)
      /\ \A t \in Task : Depth[t] <= MaxDepth + 1 /\ Chain[t] <= MaxRework
  BY DEF IInv, Tree
<1>3. parent \in [Task -> Task \cup {NoTask}] /\ reworkOf \in [Task -> Task \cup {NoTask}]
  BY DEF IInv, TypeOK
<1>4. \A t \in Task : parent[t] # c /\ reworkOf[t] # c
  BY SpawnedEffect
<1>5. /\ Depth \in [Task -> Nat] /\ Chain \in [Task -> Nat] /\ RootOf \in [Task -> Task]
  BY <1>2 DEF Counts, Leads
<1>6. Depth[p] <= MaxDepth /\ (q # NoTask => Chain[q] + 1 <= MaxRework)
  BY DEF Spawned, Checked
<1> HIDE DEF c, p, q
<1>7. 0 \in Nat /\ 1 \in Nat
  OBVIOUS
<1>8. Counts(parent', 1, d) /\ Counts(reworkOf', 0, e) /\ Leads(parent', o)
  <2>1. Counts([parent EXCEPT ![c] = p], 1, d)
    BY <1>1, <1>2, <1>3, <1>4, <1>7, CountsGrow
  <2>2. Counts([reworkOf EXCEPT ![c] = q], 0, e)
    BY <1>1, <1>2, <1>3, <1>4, <1>7, CountsGrow
  <2>3. Leads([parent EXCEPT ![c] = p], o)
    BY <1>1, <1>2, <1>3, <1>4, LeadsGrow
  <2> QED BY <1>1, <2>1, <2>2, <2>3
<1>9. parent' \in [Task -> Task \cup {NoTask}] /\ reworkOf' \in [Task -> Task \cup {NoTask}]
  BY <1>1, <1>3
<1>10. /\ d \in [Task -> Nat] /\ d[c] = 1 + Depth[p] /\ \A t \in Task \ {c} : d[t] = Depth[t]
       /\ e \in [Task -> Nat] /\ e[c] = (IF q = NoTask THEN 0 ELSE 1 + Chain[q])
       /\ \A t \in Task \ {c} : e[t] = Chain[t]
       /\ o[c] = RootOf[p] /\ \A t \in Task \ {c} : o[t] = RootOf[t]
  BY <1>1, <1>5
<1> HIDE DEF d, e, o
<1>11. Depth' = d /\ Chain' = e /\ RootOf' = o
  <2>1. Count(parent', 1) = d /\ Leader(parent') = o
    BY <1>7, <1>8, <1>9, CountIs, LeaderIs
  <2>2. Count(reworkOf', 0) = e
    BY <1>7, <1>8, <1>9, CountIs
  <2> QED BY <2>1, <2>2, Recursions, Zenon
<1>12. ASSUME NEW t \in Task PROVE d[t] <= MaxDepth + 1 /\ e[t] <= MaxRework
  <2>1. CASE t = c
    <3>1. Depth[p] \in Nat /\ (q # NoTask => Chain[q] \in Nat)
      BY <1>1, <1>5
    <3> QED BY <1>6, <1>10, <2>1, <3>1, DelegationBounds
  <2>2. CASE t # c
    BY <1>2, <1>10, <2>2
  <2> QED BY <2>1, <2>2
<1>13. Tree'
  BY <1>8, <1>11, <1>12 DEF Tree
<1> QED BY <1>5, <1>10, <1>11, <1>13 DEF c, p

LEMMA SpawnedLinks ==
  ASSUME IInv, NEW h, NEW r, Spawned(h, r)
  PROVE  Linked' /\ OneChildPerKey'
<1>1. Linked'
  <2>1. \A t \in Root : t \in Task
    BY DEF Task
  <2>2. \A t \in Task : t # r.child => state'[t] = state[t]
    BY SpawnedEffect
  <2>3. r.parent \in Task /\ r.child \in Task /\ state[r.parent] # "ABSENT" /\ r.parent # r.child
        /\ r.rework # r.child /\ r.rework \in Task \cup {NoTask}
        /\ (r.rework # NoTask => state[r.rework] # "ABSENT")
    BY DEF Spawned, Checked
  <2>4. parent \in [Task -> Task \cup {NoTask}] /\ reworkOf \in [Task -> Task \cup {NoTask}]
    BY DEF IInv, TypeOK
  <2>5. \A t \in Root : state'[t] # "ABSENT"
    BY <2>1, <2>2, SpawnedEffect DEF IInv, Linked
  <2>6. \A t \in Task : state'[t] = "ABSENT" => parent'[t] = NoTask /\ reworkOf'[t] = NoTask
    BY SpawnedEffect DEF IInv, Linked
  <2>7. ASSUME NEW t \in Task
        PROVE  /\ parent'[t] # NoTask => state'[parent'[t]] # "ABSENT"
               /\ reworkOf'[t] # NoTask => state'[reworkOf'[t]] # "ABSENT"
    <3>1. CASE t = r.child
      BY <2>2, <2>3, <3>1, SpawnedEffect
    <3>2. CASE t # r.child
      <4>1. parent'[t] = parent[t] /\ reworkOf'[t] = reworkOf[t]
            /\ parent[t] # r.child /\ reworkOf[t] # r.child
        BY <3>2, SpawnedEffect
      <4> QED BY <2>2, <2>4, <4>1 DEF IInv, Linked
    <3> QED BY <3>1, <3>2
  <2> QED BY <2>5, <2>6, <2>7 DEF Linked
<1>2. OneChildPerKey'
  <2>1. /\ r.key \in Key /\ r.child \in Child /\ state[r.child] = "ABSENT" /\ r.child # NoTask
        /\ idem[r.key] = NoTask
    BY DEF Spawned
  <2>2. \A c \in Child : c \in Task /\ c # NoTask
    BY DelegationTasks DEF Task
  <2>3. /\ \A j, k \in Key : idem[j] # NoTask /\ idem[j] = idem[k] => j = k
        /\ \A c \in Child : state[c] # "ABSENT" <=> \E k \in Key : idem[k] = c
    BY DEF IInv, OneChildPerKey
  <2>4. /\ idem'[r.key] = r.child /\ \A k \in Key \ {r.key} : idem'[k] = idem[k]
        /\ \A k \in Key : idem[k] # r.child
    BY <2>1, <2>3, SpawnedEffect
  <2>5. ASSUME NEW j \in Key, NEW k \in Key, idem'[j] # NoTask, idem'[j] = idem'[k] PROVE j = k
    BY <2>3, <2>4, <2>5
  <2>6. ASSUME NEW c \in Child
        PROVE  state'[c] # "ABSENT" <=> \E k \in Key : idem'[k] = c
    <3>1. CASE c = r.child
      BY <2>1, <2>4, <3>1, SpawnedEffect
    <3>2. CASE c # r.child
      <4>1. state'[c] = state[c]
        BY <2>2, <3>2, SpawnedEffect
      <4>2. (\E k \in Key : idem'[k] = c) <=> (\E k \in Key : idem[k] = c)
        BY <2>1, <2>2, <2>4, <3>2
      <4> QED BY <2>3, <4>1, <4>2
    <3> QED BY <3>1, <3>2
  <2> QED BY <2>5, <2>6 DEF OneChildPerKey
<1> QED BY <1>1, <1>2

LEMMA SpawnedEnvelopes ==
  ASSUME IInv, NEW h, NEW r, Spawned(h, r)
  PROVE  Envelopes'
<1> DEFINE c == r.child
           p == r.parent
           n == Normalize(r.grants)
<1>1. /\ c \in Task /\ p \in Task /\ p # c /\ r.grants \in Envelope
      /\ state[p] # "ABSENT" /\ Within(grants[p], r.grants) /\ c \in Child
  BY DEF Spawned, Checked
<1>2. \A t \in Root : t # c /\ t \in Task
  BY <1>1, DelegationTasks DEF Task
<1>3. \A t \in Task : /\ Plain(grants[t])
                      /\ state[t] # "ABSENT" => /\ RootOf[t] \in Root
                                                /\ Below(grants[t], grants[RootOf[t]])
  BY DEF IInv, Envelopes
<1>4. Plain(n) /\ Below(n, grants[p])
  BY <1>1, <1>3, NormalizeIsPlain, WithinIsBelow
<1>5. /\ grants'[c] = n /\ \A t \in Task \ {c} : grants'[t] = grants[t]
      /\ RootOf'[c] = RootOf[p] /\ \A t \in Task \ {c} : RootOf'[t] = RootOf[t]
      /\ \A t \in Task \ {c} : state'[t] = state[t]
  BY SpawnedEffect, SpawnedTree
<1>6. RootOf[p] \in Root /\ Below(grants[p], grants[RootOf[p]])
  BY <1>1, <1>3
<1> HIDE DEF c, p, n
<1>7. Below(n, grants[RootOf[p]])
  <2>1. {n.class, grants[p].class, grants[RootOf[p]].class} \subseteq DOMAIN Rank
    BY <1>1, <1>2, <1>3, <1>4, <1>6 DEF Plain
  <2> QED BY <1>4, <1>6, <2>1, BelowIsTransitive
<1>8. ASSUME NEW t \in Task
      PROVE  /\ Plain(grants'[t])
             /\ state'[t] # "ABSENT" => RootOf'[t] \in Root /\ Below(grants'[t], grants'[RootOf'[t]])
  <2>1. CASE t = c
    <3>1. grants'[RootOf[p]] = grants[RootOf[p]]
      BY <1>2, <1>5, <1>6
    <3> QED BY <1>4, <1>5, <1>6, <1>7, <2>1, <3>1
  <2>2. CASE t # c
    <3>1. /\ grants'[t] = grants[t] /\ RootOf'[t] = RootOf[t] /\ state'[t] = state[t]
      BY <1>5, <2>2
    <3>2. RootOf[t] \in Root => grants'[RootOf[t]] = grants[RootOf[t]]
      BY <1>2, <1>5
    <3> QED BY <1>3, <3>1, <3>2
  <2> QED BY <2>1, <2>2
<1>9. Envelopes' <=>
        \A t \in Task :
           /\ Plain(grants'[t])
           /\ state'[t] # "ABSENT" => RootOf'[t] \in Root /\ Below(grants'[t], grants'[RootOf'[t]])
  BY DEF Envelopes
<1> QED BY <1>8, <1>9

LEMMA SpawnedCalls ==
  ASSUME IInv, NEW h, NEW r, Spawned(h, r)
  PROVE  Spawns' /\ Fanout'
<1>1. /\ h \in Handler /\ r.child \in Task /\ r.parent \in Task /\ state[r.child] = "ABSENT"
      /\ thread[h].at = "spawn" /\ thread[h].req = r /\ r.child # NoTask
  BY DEF Spawned
<1>2. thread'[h].at = "idle" /\ \A g \in Handler \ {h} : thread'[g] = thread[g]
  BY SpawnedEffect DEF Idle
<1>3. Spawns'
  <2>1. ASSUME NEW g \in Handler, NEW x, thread'[g].at = "spawn", x = thread'[g].req
        PROVE  Checked(x)'
    <3>1. Checked(x)
      BY <1>2, <2>1 DEF IInv, Spawns
    <3>2. /\ x \in Request /\ state[x.parent] # "ABSENT"
          /\ Depth[x.parent] <= MaxDepth /\ Within(grants[x.parent], x.grants)
          /\ x.rework # NoTask => state[x.rework] # "ABSENT" /\ Chain[x.rework] + 1 <= MaxRework
      BY <3>1 DEF Checked
    <3>3. x.parent \in Task \ {r.child} /\ (x.rework # NoTask => x.rework \in Task \ {r.child})
      BY <1>1, <3>2, DelegationRequests
    <3>4. /\ state'[x.parent] = state[x.parent] /\ Depth'[x.parent] = Depth[x.parent]
          /\ grants'[x.parent] = grants[x.parent]
          /\ x.rework # NoTask => /\ state'[x.rework] = state[x.rework]
                                  /\ Chain'[x.rework] = Chain[x.rework]
      BY <3>3, SpawnedEffect, SpawnedTree
    <3> QED BY <3>2, <3>4 DEF Checked
  <2> QED BY <2>1, Zenon DEF Spawns, Checked
<1>4. Fanout'
  <2> SUFFICES ASSUME NEW p \in Task
               PROVE  /\ IsFiniteSet(Children(p)')
                      /\ Cardinality(Children(p)') + Cardinality(Spawning(p)')
                           < MaxFanout + Cardinality(Handler)
    BY DEF Fanout
  <2>1. /\ IsFiniteSet(Children(p)) /\ Cardinality(Children(p)) \in Nat
        /\ Cardinality(Children(p)) + Cardinality(Spawning(p)) < MaxFanout + Cardinality(Handler)
    BY FS_CardinalityType DEF IInv, Fanout
  <2>2. IsFiniteSet(Spawning(p))
    <3>1. Spawning(p) \subseteq Handler
      BY DEF Spawning
    <3> QED BY <3>1, DelegationHandlers, FS_Subset
  <2>3. CASE p = r.parent
    <3>1. Children(p)' = Children(p) \cup {r.child} /\ r.child \notin Children(p)
      BY <1>1, <2>3, SpawnedEffect, DelegationTasks DEF Children
    <3>2. Spawning(p)' = Spawning(p) \ {h} /\ h \in Spawning(p)
      BY <1>1, <1>2, <2>3 DEF Spawning
    <3>3. /\ Cardinality(Children(p)') = Cardinality(Children(p)) + 1
          /\ IsFiniteSet(Children(p)')
      BY <2>1, <3>1, FS_AddElement
    <3>4. Cardinality(Spawning(p)') = Cardinality(Spawning(p)) - 1 /\ Cardinality(Spawning(p)) \in Nat
      BY <2>2, <3>2, FS_RemoveElement, FS_CardinalityType
    <3>5. Cardinality(Handler) \in Nat
      BY DelegationHandlers, FS_CardinalityType
    <3> QED BY <2>1, <3>3, <3>4, <3>5, DelegationBounds
  <2>4. CASE p # r.parent
    <3>1. Children(p)' = Children(p)
      BY <1>1, <2>4, SpawnedEffect, DelegationTasks DEF Children
    <3>2. Spawning(p)' = Spawning(p)
      BY <1>1, <1>2, <2>4 DEF Spawning
    <3> QED BY <2>1, <3>1, <3>2
  <2> QED BY <2>3, <2>4
<1> QED BY <1>3, <1>4

LEMMA ASpawnSubtask == ASSUME IInv, NEW h \in Handler, SpawnSubtask(h) PROVE IInv'
<1>1. PICK r : Spawned(h, r)
  BY SpawnedFacts
<1>2. /\ r.child \in Task /\ r.child \in Child /\ state[r.child] = "ABSENT"
      /\ r.amount \in Nat /\ thread[h].req = r
  BY <1>1 DEF Spawned
<1>3. hold[r.child].status = "none"
  <2>1. HoldFits(r.child)
    BY <1>2 DEF IInv, Holds, HoldFits
  <2> QED BY <1>2, <2>1 DEF HoldFits, HoldOf
<1>4. /\ Balanced /\ \A t \in Task \ {r.child} : hold'[t] = hold[t]
      /\ hold'[r.child].status = IF Metered THEN "held" ELSE "none"
  <2>1. CASE Metered
    <3>1. /\ hold' = [hold EXCEPT ![r.child] = [status |-> "held", amount |-> r.amount, actual |-> 0]]
          /\ account' = [account EXCEPT !.held = @ + r.amount]
          /\ r.amount <= Available
      BY <1>2, <2>1 DEF SpawnSubtask, Admitted
    <3> QED BY <1>2, <1>3, <2>1, <3>1, ReserveBalances
  <2>2. CASE ~ Metered
    <3>1. UNCHANGED <<account, hold>>
      BY <2>2 DEF SpawnSubtask
    <3> QED BY <1>3, <2>2, <3>1, BudgetStays
  <2> QED BY <2>1, <2>2
<1>5. TypeOK'
  <2>1. Normalize(r.grants) \in Envelope
    BY <1>1, NormalizeIsPlain DEF Spawned, Plain
  <2>2. Idle \in Local
    BY DEF Idle, Local
  <2>3. "READY" \in Live
    BY DEF Live
  <2>4. account' \in AccountType /\ hold' \in [Task -> HoldType]
    BY <1>4 DEF Balanced
  <2>5. /\ state' \in [Task -> {"ABSENT", "SUCCEEDED", "FAILED", "CANCELLED"} \cup Live]
        /\ attempt' \in [Task -> 0..MaxAttempts]
    BY <1>1, <2>3 DEF IInv, TypeOK, Spawned
  <2>6. parent' \in [Task -> Task \cup {NoTask}] /\ reworkOf' \in [Task -> Task \cup {NoTask}]
    BY <1>1 DEF IInv, TypeOK, Spawned
  <2>7. grants' \in [Task -> Envelope] /\ idem' \in [Key -> Child \cup {NoTask}]
    BY <1>1, <2>1 DEF IInv, TypeOK, Spawned
  <2>8. thread' \in [Handler -> Local]
    BY <1>1, <2>2 DEF IInv, TypeOK, Spawned
  <2> QED BY <2>4, <2>5, <2>6, <2>7, <2>8 DEF TypeOK, AccountType, HoldType, Statuses
<1>6. Retries'
  <2>1. /\ thread'[h].at = "idle" /\ \A g \in Handler \ {h} : thread'[g] = thread[g]
        /\ attempt' = attempt
    <3>1. thread'[h] = Idle /\ \A g \in Handler \ {h} : thread'[g] = thread[g]
      BY <1>1, SpawnedEffect
    <3>2. attempt' = attempt
      BY <1>1 DEF Spawned
    <3>3. Idle.at = "idle"
      BY DEF Idle
    <3> QED BY <3>1, <3>2, <3>3
  <2>2. ASSUME NEW g \in Handler, thread'[g].at = "retry"
        PROVE  /\ thread'[g] = thread[g] /\ thread[g].task \in Task
               /\ state'[thread'[g].task] = "FAILED"
               /\ attempt'[thread'[g].task] < MaxAttempts
               /\ Metered /\ thread'[g].task \in Child => hold'[thread'[g].task].status = "held"
    <3>1. thread'[g] = thread[g]
      BY <2>1, <2>2
    <3>2. /\ thread[g].task \in Task /\ state[thread[g].task] = "FAILED"
          /\ attempt[thread[g].task] < MaxAttempts
          /\ Metered /\ thread[g].task \in Child => hold[thread[g].task].status = "held"
      BY <2>2, <3>1 DEF IInv, Retries
    <3>3. thread[g].task # r.child
      BY <1>2, <3>2
    <3> QED BY <1>1, <1>4, <2>1, <3>1, <3>2, <3>3, SpawnedEffect
  <2>3. \A f, g \in Handler, t \in Task : Retrying(f, t)' /\ Retrying(g, t)' => f = g
    BY <2>2 DEF IInv, Retries, Retrying
  <2> QED BY <2>2, <2>3 DEF Retries
<1>7. Holds'
  <2>1. ASSUME NEW t \in Task PROVE HoldFits(t)'
    <3>1. CASE t = r.child
      <4>1. state'[r.child] = "READY"
        BY <1>1, SpawnedEffect
      <4> QED BY <1>2, <1>4, <3>1, <4>1 DEF HoldFits, HoldOf, Live
    <3>2. CASE t # r.child
      <4>1. state'[t] = state[t] /\ hold'[t] = hold[t] /\ attempt'[t] = attempt[t]
        BY <1>1, <1>4, <3>2, SpawnedEffect DEF Spawned
      <4> QED BY <4>1 DEF IInv, Holds, HoldFits
    <3> QED BY <3>1, <3>2
  <2> QED BY <2>1 DEF Holds, HoldFits
<1>8. Tree' /\ Linked' /\ OneChildPerKey' /\ Envelopes' /\ Spawns' /\ Fanout'
  BY <1>1, SpawnedTree, SpawnedLinks, SpawnedEnvelopes, SpawnedCalls
<1> QED BY <1>4, <1>5, <1>6, <1>7, <1>8 DEF IInv, Balanced

LEMMA Stutters == ASSUME IInv, UNCHANGED vars PROVE IInv'
<1>1. /\ UNCHANGED tree /\ UNCHANGED <<account, hold>> /\ state' = state /\ attempt' = attempt
      /\ thread' = thread
  BY DEF vars
<1>2. SameTasks /\ NoNewSpawn
  BY <1>1 DEF SameTasks, NoNewSpawn, Kept
<1>3. Balanced
  BY <1>1, BudgetStays
<1>4. TypeOK' /\ Retries' /\ Holds'
  BY <1>1 DEF IInv, TypeOK, tree, Retries, Retrying, Holds
<1>5. Linked' /\ Tree' /\ Envelopes' /\ OneChildPerKey'
  BY <1>1, <1>2, SettledTree
<1>6. Spawns' /\ Fanout'
  BY <1>1, <1>2, SpawnsStay, FanoutStays DEF NoNewSpawn
<1> QED BY <1>3, <1>4, <1>5, <1>6 DEF IInv, Balanced

LEMMA Inductive == IInv /\ [Next]_vars => IInv'
<1> SUFFICES ASSUME IInv, [Next]_vars PROVE IInv'
  OBVIOUS
<1>1. ASSUME NEW t \in Task,
             \/ Begin(t) \/ Requeue(t) \/ FailOutright(t) \/ Cancel(t)
             \/ \E u \in Usage : Complete(t, u)
      PROVE  IInv'
  BY <1>1, ABegin, AFailOutright, ACancel, AComplete
<1>2. ASSUME NEW h \in Handler,
             \/ Retry(h) \/ SpawnSubtask(h) \/ SpawnEnds(h)
             \/ \E t \in Task : Fail(h, t)
             \/ \E r \in Request : Delegate(h, r)
      PROVE  IInv'
  BY <1>2, ARetry, ASpawnSubtask, ASpawnEnds, AFail, ADelegate
<1>3. CASE UNCHANGED vars
  BY <1>3, Stutters
<1> QED BY <1>1, <1>2, <1>3 DEF Next

-----------------------------------------------------------------------------
(* The theorems.                                                           *)

\* Every reachable state satisfies the inductive invariant.
THEOREM Invariance == Spec => []IInv
<1>1. Init => IInv
  BY Initially
<1>2. IInv /\ [Next]_vars => IInv'
  BY Inductive
<1> QED BY <1>1, <1>2, PTL DEF Spec

\* Every variable keeps to its type: no attempt beyond MaxAttempts, no account or hold
\* below zero (settleBudgetHold and releaseBudgetHold subtract).
THEOREM TypeCorrect == Spec => []TypeOK
<1>1. IInv => TypeOK
  BY DEF IInv
<1> QED BY <1>1, Invariance, PTL

\* One key, one child: SpawnSubtask looks the key up in its own transaction.
THEOREM KeysMakeOneChild == Spec => []OneChildPerKey
<1>1. IInv => OneChildPerKey
  BY DEF IInv
<1> QED BY <1>1, Invariance, PTL

\* The account is the sum of its holds and stays within the budget, for any number of
\* tasks, amounts and usages.
THEOREM BudgetIsKept == Spec => []BudgetBalances
<1>1. IInv => BudgetBalances
  BY DEF IInv, Budget
<1> QED BY <1>1, Invariance, PTL

\* A delegated task holds its reservation for as long as it can still run, and while a
\* failure can still be retried; it gives it back only by completing, by being cancelled,
\* or by failing with no attempt left.
THEOREM HoldsFollowTasks == Spec => []HoldFollowsTask
<1>1. ASSUME IInv, Metered, NEW c \in Child
      PROVE  CASE state[c] = "ABSENT" -> hold[c].status = "none"
               [] state[c] \in Live -> hold[c].status = "held"
               [] state[c] = "SUCCEEDED" -> hold[c].status = "settled"
               [] state[c] = "CANCELLED" -> hold[c].status = "released"
               [] state[c] = "FAILED" ->
                    \/ hold[c].status = "held"
                    \/ hold[c].status = "released" /\ attempt[c] = MaxAttempts
  <2>1. c \in Task /\ hold[c].status \in HoldOf(state[c], attempt[c])
    BY <1>1 DEF IInv, Holds, Task
  <2>2. state[c] \in {"ABSENT", "SUCCEEDED", "FAILED", "CANCELLED"} \cup Live
    BY <1>1, <2>1 DEF IInv, TypeOK
  <2>3. CASE state[c] = "ABSENT"
    BY <2>1, <2>3 DEF HoldOf, Live
  <2>4. CASE state[c] \in Live
    BY <2>1, <2>4 DEF HoldOf, Live
  <2>5. CASE state[c] = "SUCCEEDED"
    BY <2>1, <2>5 DEF HoldOf, Live
  <2>6. CASE state[c] = "CANCELLED"
    BY <2>1, <2>6 DEF HoldOf, Live
  <2>7. CASE state[c] = "FAILED"
    BY <2>1, <2>7 DEF HoldOf, Live
  <2> QED BY <2>2, <2>3, <2>4, <2>5, <2>6, <2>7
<1>2. IInv => HoldFollowsTask
  BY <1>1, Zenon DEF HoldFollowsTask
<1> QED BY <1>2, Invariance, PTL

\* Depth and rework never exceed their limits, though checkDelegateLimits has read them
\* before the transaction; the fan-out exceeds its own by less than one child per call.
THEOREM DelegationIsBounded == Spec => []DelegationBounded
<1>1. ASSUME IInv, NEW t \in Task
      PROVE  /\ Depth[t] <= MaxDepth + 1 /\ Chain[t] <= MaxRework
             /\ Cardinality(Children(t)) < MaxFanout + Cardinality(Handler)
  <2>1. Depth[t] <= MaxDepth + 1 /\ Chain[t] <= MaxRework
    BY <1>1 DEF IInv, Tree
  <2>2. /\ IsFiniteSet(Children(t))
        /\ Cardinality(Children(t)) + Cardinality(Spawning(t)) < MaxFanout + Cardinality(Handler)
    BY <1>1 DEF IInv, Fanout
  <2>3. Spawning(t) \subseteq Handler
    BY DEF Spawning
  <2>4. /\ Cardinality(Spawning(t)) \in Nat /\ Cardinality(Children(t)) \in Nat
        /\ Cardinality(Handler) \in Nat
    BY <2>2, <2>3, DelegationHandlers, FS_Subset, FS_CardinalityType
  <2> QED BY <2>1, <2>2, <2>4, DelegationBounds
<1>2. IInv => DelegationBounded
  BY <1>1 DEF DelegationBounded
<1> QED BY <1>2, Invariance, PTL

\* However long the chain, a context package holds only what the envelope of the task the
\* chain began with allows: boardGrantCovers composes along the chain, and the package
\* never widens a view.
THEOREM PackagesKeepToTheRoot == Spec => []ContextWithinRootGrants
<1>1. ASSUME IInv, NEW t \in Child, state[t] # "ABSENT"
      PROVE  LET root == grants[RootOf[t]]
                 pkg  == Package(grants[t], Space \X Entry, Artifact)
             IN /\ \A b \in pkg.board : May(root, b.entry, b.mode)
                /\ pkg.artifacts \subseteq root.artifacts
                /\ Rank[grants[t].class] <= Rank[root.class]
  <2> DEFINE root == grants[RootOf[t]]
             pkg  == Package(grants[t], Space \X Entry, Artifact)
  <2>1. Plain(grants[t]) /\ Below(grants[t], root)
    BY <1>1 DEF IInv, Envelopes, Task
  <2>2. /\ pkg.board = BoardView(grants[t], Space \X Entry)
        /\ pkg.artifacts = grants[t].artifacts \cap Artifact
    BY DEF Package
  <2> HIDE DEF root, pkg
  <2>3. ASSUME NEW b \in pkg.board PROVE May(root, b.entry, b.mode)
    <3>1. /\ b.entry \in Space \X Entry /\ b.mode \in {"ro", "rw"}
          /\ May(grants[t], b.entry, b.mode)
      BY <2>1, <2>2, <2>3, PackageIsAllowed
    <3> QED BY <2>1, <3>1 DEF Below
  <2>4. /\ pkg.artifacts \subseteq root.artifacts /\ Rank[grants[t].class] <= Rank[root.class]
    BY <2>1, <2>2 DEF Below
  <2> QED BY <2>3, <2>4 DEF root, pkg
<1>2. IInv => ContextWithinRootGrants
  BY <1>1, Zenon DEF ContextWithinRootGrants
<1> QED BY <1>2, Invariance, PTL
=============================================================================
