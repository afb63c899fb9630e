---------------------------- MODULE ScopesProofs ----------------------------
(***************************************************************************)
(* The tree of scopes, for any source file: as seen from CurrentScope it is*)
(* a stack of frames, and a search upwards finds the innermost declaration.*)
(*                                                                         *)
(* Along the path from the root to a scope the scopes have growing numbers,*)
(* since a scope is made after its parent.  Hence only the last frame of a *)
(* path changes when a name is entered in its scope, and the paths to old  *)
(* scopes stay when scopes are added.                                      *)
(***************************************************************************)
EXTENDS Scopes, SeqFacts

-----------------------------------------------------------------------------
(* Types *)

\* Maps from some of the names to numbers.
Maps(names) == UNION {[S -> Nat] : S \in SUBSET names}

ScopeSet(names) == [parent : Nat, varMap : Maps(names)]

VariableSet(names) == [name : names, global : BOOLEAN]

\* parent leads from each scope of a tree to an older one, and to the first.
Rooted(tree) ==
  /\ Len(tree) \in Nat \ {0} /\ DOMAIN tree = 1 .. Len(tree)
  /\ \A s \in 1 .. Len(tree) : tree[s].parent \in 0 .. s - 1 /\ (tree[s].parent = 0 <=> s = 1)

\* Every name of a tree is one of a variable in vs, and the variables of the
\* root, and no others, are global.
Named(tree, vs) ==
  /\ \A s \in DOMAIN tree : \A x \in DOMAIN tree[s].varMap :
       tree[s].varMap[x] \in DOMAIN vs /\ vs[tree[s].varMap[x]].name = x
  /\ \A i \in DOMAIN vs : vs[i].global <=> \E x \in DOMAIN tree[1].varMap : tree[1].varMap[x] = i

ScopeInv ==
  /\ unit \in Units
  /\ scopes \in Seq(ScopeSet(Names)) /\ Rooted(scopes)
  /\ variables \in Seq(VariableSet(Names)) /\ Named(scopes, variables)
  /\ current \in 1 .. Len(scopes)

LEMMA MapFacts ==
  ASSUME NEW names, NEW f \in Maps(names)
  PROVE  /\ DOMAIN f \subseteq names
         /\ \A x \in DOMAIN f : f[x] \in Nat
         /\ f = [x \in DOMAIN f |-> f[x]]
  BY DEF Maps

LEMMA EmptyMap == \A names : << >> \in Maps(names) /\ DOMAIN << >> = {}
<1>. SUFFICES ASSUME NEW names PROVE << >> \in Maps(names) /\ DOMAIN << >> = {}
  OBVIOUS
<1>1. << >> \in [{} -> Nat]
  OBVIOUS
<1>. QED  BY <1>1 DEF Maps

\* The effect of insertVariable on a name that is not there.
WithName(names, sc, x, i, new) ==
  /\ new \in ScopeSet(names) /\ new.parent = sc.parent
  /\ new.varMap = [y \in DOMAIN sc.varMap \union {x} |-> IF y = x THEN i ELSE sc.varMap[y]]
  /\ DOMAIN new.varMap = DOMAIN sc.varMap \union {x} /\ new.varMap[x] = i
  /\ \A y \in DOMAIN sc.varMap : new.varMap[y] = sc.varMap[y]

LEMMA InsertedName ==
  ASSUME NEW names, NEW sc \in ScopeSet(names), NEW x \in names, NEW i \in Nat, x \notin DOMAIN sc.varMap
  PROVE  WithName(names, sc, x, i, InsertVariable(sc, x, i))
<1>. DEFINE f == sc.varMap
            g == [y \in DOMAIN f \union {x} |-> IF y = x THEN i ELSE f[y]]
<1>1. f \in Maps(names) /\ sc.parent \in Nat
  BY DEF ScopeSet
<1>2. DOMAIN f \subseteq names /\ \A y \in DOMAIN f : f[y] \in Nat
  BY <1>1, MapFacts
<1>3. g \in [DOMAIN f \union {x} -> Nat]
  BY <1>2
<1>4. g \in Maps(names)
  BY <1>2, <1>3 DEF Maps
<1>5. InsertVariable(sc, x, i) = [parent |-> sc.parent, varMap |-> g]
  BY DEF InsertVariable, ScopeSet
<1>. QED  BY <1>1, <1>4, <1>5 DEF ScopeSet, WithName

-----------------------------------------------------------------------------
(* Paths *)

\* What the recursion of Paths says.
ArePaths(p, tree) ==
  /\ p \in [0 .. Len(tree) -> Seq(Nat)] /\ p[0] = << >>
  /\ \A s \in 1 .. Len(tree) : p[s] = Append(p[tree[s].parent], s)

LEMMA PathsAre ==
  ASSUME NEW tree, Rooted(tree)
  PROVE  ArePaths(Paths(tree), tree)
<1>. DEFINE n == Len(tree)
            D == Seq(Nat)
            parent == [k \in 1 .. n |-> tree[k].parent]
            F == [kd \in (1 .. n) \X D |-> Append(kd[2], kd[1])]
            Def(path) == path = [s \in 0 .. n |-> IF s = 0 THEN << >> ELSE Append(path[tree[s].parent], s)]
<1>1. n \in Nat /\ parent \in [1 .. n -> Nat] /\ \A k \in 1 .. n : parent[k] < k
  BY DEF Rooted
<1>2. << >> \in D
  BY EmptySeq
<1>3. F \in [(1 .. n) \X D -> D]
  <2>1. \A k \in 1 .. n : \A d \in D : Append(d, k) \in D
    <3>1. \A k \in 1 .. n : k \in Nat
      BY <1>1
    <3>. QED  BY <3>1, AppendFact
  <2>. QED  BY <2>1
<1>4. PICK h : IsTreeRecursion(h, n, D, << >>, F, parent)
  <2>. HIDE DEF n, D, parent, F
  <2>. QED  BY <1>1, <1>2, <1>3, TreeRecursion
<1>5. h \in [0 .. n -> D] /\ h[0] = << >> /\ \A k \in 1 .. n : h[k] = Append(h[tree[k].parent], k)
  <2>1. h \in [0 .. n -> D] /\ h[0] = << >> /\ \A k \in 1 .. n : h[k] = F[<<k, h[parent[k]]>>]
    BY <1>4 DEF IsTreeRecursion
  <2>2. \A k \in 1 .. n : parent[k] \in 0 .. n
    BY <1>1
  <2>3. \A k \in 1 .. n : <<k, h[parent[k]]>> \in (1 .. n) \X D
    BY <2>1, <2>2
  <2>. QED  BY <2>1, <2>3
<1>6. Def(h)
  <2>1. \A s \in 0 .. n : h[s] = IF s = 0 THEN << >> ELSE Append(h[tree[s].parent], s)
    BY <1>1, <1>5
  <2>. QED  BY <1>5, <2>1
<1>7. Def(Paths(tree))
  <2>1. Paths(tree) = CHOOSE path : Def(path)
    BY DEF Paths
  <2>. HIDE DEF Def
  <2>. QED  BY <1>6, <2>1
<1>8. PICK p : p = Paths(tree)
  OBVIOUS
<1>9. /\ p = [s \in 0 .. n |-> p[s]] /\ p[0] = << >>
      /\ \A s \in 1 .. n : p[s] = Append(p[tree[s].parent], s)
  <2>1. p = [s \in 0 .. n |-> IF s = 0 THEN << >> ELSE Append(p[tree[s].parent], s)]
    BY <1>7, <1>8
  <2>2. 0 \in 0 .. n
    BY <1>1
  <2>3. DOMAIN p = 0 .. n /\ p = [s \in DOMAIN p |-> p[s]]
    BY <2>1
  <2>4. \A s \in 0 .. n : p[s] = IF s = 0 THEN << >> ELSE Append(p[tree[s].parent], s)
    BY <2>1
  <2>. HIDE DEF n
  <2>5. \A s \in 1 .. n : s \in 0 .. n /\ s # 0
    BY <1>1
  <2>. QED  BY <2>2, <2>3, <2>4, <2>5
<1>10. \A s \in 0 .. n : p[s] \in D
  <2>. DEFINE Bad == {s \in 0 .. n : p[s] \notin D}
  <2>. SUFFICES ASSUME Bad # {} PROVE FALSE
    OBVIOUS
  <2>1. PICK s \in Bad : \A t \in Bad : s <= t
    <3>1. Bad \subseteq Nat
      OBVIOUS
    <3>. HIDE DEF Bad
    <3>. QED  BY <3>1, LeastNat
  <2>2. s \in 1 .. n
    <3>1. s \in 0 .. n /\ p[s] \notin D
      OBVIOUS
    <3>2. s # 0
      BY <1>2, <1>9, <3>1
    <3>. HIDE DEF n
    <3>. QED  BY <1>1, <3>1, <3>2
  <2>3. tree[s].parent \in 0 .. n /\ tree[s].parent < s
    BY <2>2 DEF Rooted
  <2>4. p[tree[s].parent] \in D
    BY <2>1, <2>3
  <2>5. Append(p[tree[s].parent], s) \in D
    BY <2>2, <2>4, AppendFact
  <2>. QED  BY <1>9, <2>2, <2>5
<1>. QED  BY <1>8, <1>9, <1>10 DEF ArePaths

\* A path ends with its scope, and the scopes before it are older.
LEMMA PathShape ==
  ASSUME NEW tree, Rooted(tree), NEW s \in 1 .. Len(tree)
  PROVE  LET p == Paths(tree)[s] IN
         /\ p \in Seq(Nat) /\ Len(p) \in Nat \ {0} /\ p[Len(p)] = s
         /\ \A k \in 1 .. Len(p) : p[k] \in 1 .. s /\ (k # Len(p) => p[k] # s)
<1>. DEFINE q(t) == Paths(tree)[t]
            Good(t) == /\ q(t) \in Seq(Nat) /\ Len(q(t)) \in Nat \ {0} /\ q(t)[Len(q(t))] = t
                       /\ \A k \in 1 .. Len(q(t)) : q(t)[k] \in 1 .. t /\ (k # Len(q(t)) => q(t)[k] # t)
            Bad == {t \in 1 .. Len(tree) : ~Good(t)}
<1>. SUFFICES ASSUME Bad # {} PROVE FALSE
  OBVIOUS
<1>1. PICK t \in Bad : \A u \in Bad : t <= u
  <2>1. Bad \subseteq Nat
    OBVIOUS
  <2>. HIDE DEF Bad
  <2>. QED  BY <2>1, LeastNat
<1>a. ArePaths(Paths(tree), tree) /\ Len(tree) \in Nat
  BY PathsAre DEF Rooted
<1>2. PICK u : u = tree[t].parent
  OBVIOUS
<1>3. u \in 0 .. t - 1 /\ t \in 1 .. Len(tree)
  BY <1>1, <1>2 DEF Rooted
<1>4. q(t) = Append(q(u), t) /\ q(u) \in Seq(Nat)
  BY <1>a, <1>2, <1>3 DEF ArePaths
<1>5. /\ q(t) \in Seq(Nat) /\ Len(q(u)) \in Nat /\ Len(q(t)) = Len(q(u)) + 1 /\ q(t)[Len(q(u)) + 1] = t
      /\ \A k \in 1 .. Len(q(u)) : q(t)[k] = q(u)[k]
  BY <1>3, <1>4, AppendFact, LenProperties
<1>6. \A k \in 1 .. Len(q(u)) : q(u)[k] \in 1 .. u
  <2>1. CASE u = 0
    <3>1. q(u) = << >>
      BY <1>a, <2>1 DEF ArePaths
    <3>. QED  BY <3>1, EmptySeq
  <2>2. CASE u # 0
    <3>1. Good(u)
      BY <1>1, <1>3, <2>2, <1>a
    <3>. QED  BY <3>1
  <2>. QED  BY <2>1, <2>2
<1>7. Good(t)
  <2>1. ASSUME NEW k \in 1 .. Len(q(t)) PROVE q(t)[k] \in 1 .. t /\ (k # Len(q(t)) => q(t)[k] # t)
    <3>1. k = Len(q(t)) \/ k \in 1 .. Len(q(u))
      BY <1>5
    <3>2. CASE k = Len(q(t))
      <4>1. q(t)[k] = t
        BY <1>5, <3>2
      <4>2. t \in 1 .. t
        BY <1>3
      <4>. HIDE DEF q
      <4>. QED  BY <3>2, <4>1, <4>2
    <3>3. CASE k \in 1 .. Len(q(u))
      <4>1. q(t)[k] \in 1 .. u
        BY <1>5, <1>6, <3>3
      <4>2. \A v, w, z \in Nat : v \in 0 .. w - 1 /\ z \in 1 .. v => z \in 1 .. w /\ z # w
        OBVIOUS
      <4>3. u \in Nat /\ t \in Nat /\ q(t)[k] \in Nat
        BY <1>3, <4>1
      <4>. HIDE DEF q
      <4>. QED  BY <1>3, <4>1, <4>2, <4>3
    <3>. QED  BY <3>1, <3>2, <3>3
  <2>. QED  BY <1>5, <2>1
<1>. QED  BY <1>1, <1>7

\* Of trees that agree on the parents of the scopes up to s, the path is the same.
LEMMA SamePath ==
  ASSUME NEW tree, Rooted(tree), NEW other, Rooted(other), NEW n \in Nat, n <= Len(tree), n <= Len(other),
         \A t \in 1 .. n : other[t].parent = tree[t].parent,
         NEW s \in 1 .. n
  PROVE  Paths(other)[s] = Paths(tree)[s]
<1>. DEFINE Bad == {t \in 0 .. n : Paths(other)[t] # Paths(tree)[t]}
<1>. SUFFICES ASSUME Bad # {} PROVE FALSE
  OBVIOUS
<1>1. PICK t \in Bad : \A u \in Bad : t <= u
  <2>1. Bad \subseteq Nat
    OBVIOUS
  <2>. HIDE DEF Bad
  <2>. QED  BY <2>1, LeastNat
<1>2. ArePaths(Paths(tree), tree) /\ ArePaths(Paths(other), other)
  BY PathsAre
<1>3. t \in 1 .. n
  BY <1>1, <1>2 DEF ArePaths
<1>4. t \in 1 .. Len(tree) /\ t \in 1 .. Len(other)
  BY <1>3 DEF Rooted
<1>5. PICK u : u = tree[t].parent
  OBVIOUS
<1>6. u \in 0 .. n /\ ~(t <= u) /\ other[t].parent = u
  BY <1>3, <1>4, <1>5 DEF Rooted
<1>7. Paths(other)[u] = Paths(tree)[u]
  BY <1>1, <1>6
<1>8. Paths(tree)[t] = Append(Paths(tree)[u], t) /\ Paths(other)[t] = Append(Paths(other)[u], t)
  BY <1>2, <1>4, <1>5, <1>6 DEF ArePaths
<1>. QED  BY <1>1, <1>7, <1>8

-----------------------------------------------------------------------------
(* Frames *)

LEMMA FramesShape ==
  ASSUME NEW names, NEW tree \in Seq(ScopeSet(names)), Rooted(tree), NEW s \in 1 .. Len(tree)
  PROVE  LET fs == FramesOf(tree, s)  p == Paths(tree)[s] IN
         /\ fs \in Seq(Maps(names)) /\ Len(fs) = Len(p) /\ Len(fs) \in Nat \ {0}
         /\ DOMAIN fs = 1 .. Len(p)
         /\ \A k \in 1 .. Len(p) : fs[k] = tree[p[k]].varMap
         /\ fs[Len(fs)] = tree[s].varMap
<1>. DEFINE p == Paths(tree)[s]
            fs == FramesOf(tree, s)
<1>1. /\ p \in Seq(Nat) /\ Len(p) \in Nat \ {0} /\ p[Len(p)] = s
      /\ \A k \in 1 .. Len(p) : p[k] \in 1 .. s
  BY PathShape
<1>2. DOMAIN p = 1 .. Len(p)
  BY <1>1, LenProperties
<1>3. \A k \in 1 .. Len(p) : p[k] \in 1 .. Len(tree)
  BY <1>1 DEF Rooted
<1>4. \A t \in 1 .. Len(tree) : tree[t].varMap \in Maps(names)
  <2>1. \A t \in 1 .. Len(tree) : tree[t] \in ScopeSet(names)
    BY ElementOfSeq
  <2>. QED  BY <2>1 DEF ScopeSet
<1>5. fs = [k \in 1 .. Len(p) |-> tree[p[k]].varMap]
  BY <1>2 DEF FramesOf
<1>6. fs \in [1 .. Len(p) -> Maps(names)]
  BY <1>3, <1>4, <1>5
<1>7. fs \in Seq(Maps(names)) /\ Len(fs) = Len(p)
  BY <1>1, <1>6, SeqOfFunction
<1>8. DOMAIN fs = 1 .. Len(p) /\ \A k \in 1 .. Len(p) : fs[k] = tree[p[k]].varMap
  BY <1>5
<1>9. Len(p) \in 1 .. Len(p)
  BY <1>1
<1>. QED  BY <1>1, <1>7, <1>8, <1>9

\* Two sequences with the same elements.
LEMMA SameSeq ==
  ASSUME NEW S, NEW a \in Seq(S), NEW b \in Seq(S), Len(a) = Len(b), \A k \in 1 .. Len(a) : a[k] = b[k]
  PROVE  a = b
  BY SeqEqual, LenProperties

\* The frames of a scope are those of its parent, and its own.
LEMMA FramesAppend ==
  ASSUME NEW names, NEW tree \in Seq(ScopeSet(names)), Rooted(tree), NEW s \in 2 .. Len(tree)
  PROVE  /\ tree[s].parent \in 1 .. Len(tree)
         /\ FramesOf(tree, s) = Append(FramesOf(tree, tree[s].parent), tree[s].varMap)
         /\ Len(FramesOf(tree, s)) = Len(FramesOf(tree, tree[s].parent)) + 1
<1>1. PICK u : u = tree[s].parent
  OBVIOUS
<1>2. s \in 1 .. Len(tree) /\ u \in 1 .. Len(tree) /\ s # 1
  BY <1>1 DEF Rooted
<1>3. PICK p, q, f, g : p = Paths(tree)[s] /\ q = Paths(tree)[u] /\ f = FramesOf(tree, s) /\ g = FramesOf(tree, u)
  OBVIOUS
<1>4. p = Append(q, s)
  <2>1. ArePaths(Paths(tree), tree)
    BY PathsAre
  <2>. QED  BY <1>1, <1>2, <1>3, <2>1 DEF ArePaths
<1>5. /\ f \in Seq(Maps(names)) /\ Len(f) = Len(p) /\ f[Len(f)] = tree[s].varMap
      /\ \A k \in 1 .. Len(p) : f[k] = tree[p[k]].varMap
  BY <1>2, <1>3, FramesShape
<1>6. /\ g \in Seq(Maps(names)) /\ Len(g) = Len(q) /\ Len(g) \in Nat
      /\ \A k \in 1 .. Len(q) : g[k] = tree[q[k]].varMap
  BY <1>2, <1>3, FramesShape
<1>7. q \in Seq(Nat) /\ s \in Nat
  BY <1>2, <1>3, PathShape
<1>8. Len(p) = Len(q) + 1 /\ \A k \in 1 .. Len(q) : p[k] = q[k]
  BY <1>4, <1>7, AppendFact
<1>9. tree[s].varMap \in Maps(names)
  <2>1. tree[s] \in ScopeSet(names)
    BY <1>2, ElementOfSeq
  <2>. QED  BY <2>1 DEF ScopeSet
<1>10. PICK h : h = Append(g, tree[s].varMap)
  OBVIOUS
<1>11. /\ h \in Seq(Maps(names)) /\ Len(h) = Len(g) + 1 /\ h[Len(g) + 1] = tree[s].varMap
       /\ \A k \in 1 .. Len(g) : h[k] = g[k]
  BY <1>6, <1>9, <1>10, AppendFact
<1>12. f = h
  <2>1. ASSUME NEW k \in 1 .. Len(f) PROVE f[k] = h[k]
    <3>1. k = Len(f) \/ k \in 1 .. Len(q)
      BY <1>5, <1>6, <1>8
    <3>2. CASE k = Len(f)
      BY <1>5, <1>6, <1>8, <1>11, <3>2
    <3>3. CASE k \in 1 .. Len(q)
      <4>1. k \in 1 .. Len(p)
        BY <1>6, <1>8, <3>3
      <4>. QED  BY <1>5, <1>6, <1>8, <1>11, <3>3, <4>1
    <3>. QED  BY <3>1, <3>2, <3>3
  <2>. QED  BY <1>5, <1>6, <1>8, <1>11, <2>1, SameSeq
<1>. QED  BY <1>1, <1>2, <1>3, <1>5, <1>6, <1>8, <1>10, <1>12

LEMMA FramesOfRoot ==
  ASSUME NEW names, NEW tree \in Seq(ScopeSet(names)), Rooted(tree)
  PROVE  /\ FramesOf(tree, 1) = <<tree[1].varMap>> /\ Len(FramesOf(tree, 1)) = 1
         /\ \A s \in 1 .. Len(tree) : Len(FramesOf(tree, s)) = 1 <=> s = 1
<1>1. 1 \in 1 .. Len(tree) /\ tree[1].parent = 0
  BY DEF Rooted
<1>2. Paths(tree)[1] = Append(<< >>, 1)
  <2>1. ArePaths(Paths(tree), tree)
    BY PathsAre
  <2>. QED  BY <1>1, <2>1 DEF ArePaths
<1>3. Len(Paths(tree)[1]) = 1
  BY <1>2, EmptySeq, AppendFact
<1>4. PICK f : f = FramesOf(tree, 1)
  OBVIOUS
<1>5. f \in Seq(Maps(names)) /\ Len(f) = 1 /\ f[1] = tree[1].varMap
  BY <1>1, <1>3, <1>4, FramesShape
<1>6. f = <<tree[1].varMap>>
  <2>1. DOMAIN f = 1 .. 1
    BY <1>5, LenProperties
  <2>. QED  BY <1>5, <2>1
<1>7. ASSUME NEW s \in 1 .. Len(tree), s # 1 PROVE Len(FramesOf(tree, s)) # 1
  <2>1. s \in 2 .. Len(tree)
    BY <1>7 DEF Rooted
  <2>2. PICK u : u = tree[s].parent
    OBVIOUS
  <2>3. u \in 1 .. Len(tree) /\ Len(FramesOf(tree, s)) = Len(FramesOf(tree, u)) + 1
    BY <2>1, <2>2, FramesAppend
  <2>4. Len(FramesOf(tree, u)) \in Nat \ {0}
    BY <2>3, FramesShape
  <2>. QED  BY <2>3, <2>4
<1>. QED  BY <1>4, <1>5, <1>6, <1>7

\* Scopes that are added to a tree change nothing for those that are there.
LEMMA FramesStay ==
  ASSUME NEW names, NEW tree \in Seq(ScopeSet(names)), Rooted(tree),
         NEW other \in Seq(ScopeSet(names)), Rooted(other), Len(tree) <= Len(other),
         \A t \in 1 .. Len(tree) : other[t] = tree[t], NEW s \in 1 .. Len(tree)
  PROVE  FramesOf(other, s) = FramesOf(tree, s)
<1>1. Len(tree) \in Nat /\ Len(other) \in Nat
  BY DEF Rooted
<1>2. Paths(other)[s] = Paths(tree)[s]
  <2>1. \A t \in 1 .. Len(tree) : other[t].parent = tree[t].parent
    OBVIOUS
  <2>2. Len(tree) <= Len(tree)
    BY <1>1
  <2>. QED  BY <1>1, <2>1, <2>2, SamePath
<1>3. PICK p : p = Paths(tree)[s]
  OBVIOUS
<1>4. p \in Seq(Nat) /\ \A k \in 1 .. Len(p) : p[k] \in 1 .. s
  BY <1>3, PathShape
<1>5. \A k \in DOMAIN p : p[k] \in 1 .. Len(tree)
  BY <1>1, <1>4, LenProperties
<1>6. \A k \in DOMAIN p : other[p[k]].varMap = tree[p[k]].varMap
  BY <1>5
<1>. QED  BY <1>2, <1>3, <1>6 DEF FramesOf

\* A change of the names in scope s changes the last of its frames.
Changed(names, tree, s, new, other) ==
  /\ other \in Seq(ScopeSet(names)) /\ Rooted(other) /\ Len(other) = Len(tree)
  /\ \A t \in 1 .. Len(tree) : other[t] = IF t = s THEN new ELSE tree[t]
  /\ FramesOf(other, s) = [FramesOf(tree, s) EXCEPT ![Len(FramesOf(tree, s))] = new.varMap]

LEMMA FramesChange ==
  ASSUME NEW names, NEW tree \in Seq(ScopeSet(names)), Rooted(tree), NEW s \in 1 .. Len(tree),
         NEW new \in ScopeSet(names), new.parent = tree[s].parent,
         NEW other, other = [tree EXCEPT ![s] = new]
  PROVE  Changed(names, tree, s, new, other)
<1>1. Len(tree) \in Nat \ {0} /\ DOMAIN tree = 1 .. Len(tree)
  BY DEF Rooted
<1>2. \A t \in 1 .. Len(tree) : tree[t] \in ScopeSet(names)
  BY ElementOfSeq
<1>3. DOMAIN other = 1 .. Len(tree) /\ \A t \in 1 .. Len(tree) : other[t] = IF t = s THEN new ELSE tree[t]
  BY <1>1
<1>4. other \in [1 .. Len(tree) -> ScopeSet(names)]
  BY <1>1, <1>2, <1>3
<1>5. other \in Seq(ScopeSet(names)) /\ Len(other) = Len(tree)
  BY <1>1, <1>4, SeqOfFunction
<1>6. \A t \in 1 .. Len(tree) : other[t].parent = tree[t].parent
  BY <1>3
<1>7. Rooted(other)
  BY <1>1, <1>3, <1>5, <1>6 DEF Rooted
<1>8. Paths(other)[s] = Paths(tree)[s]
  <2>1. Len(tree) \in Nat /\ Len(tree) <= Len(tree) /\ Len(tree) <= Len(other)
    BY <1>1, <1>5
  <2>. QED  BY <1>6, <1>7, <2>1, SamePath
<1>9. PICK p, f, g : p = Paths(tree)[s] /\ f = FramesOf(tree, s) /\ g = FramesOf(other, s)
  OBVIOUS
<1>10. /\ p \in Seq(Nat) /\ Len(p) \in Nat \ {0} /\ p[Len(p)] = s
       /\ \A k \in 1 .. Len(p) : p[k] \in 1 .. s /\ (k # Len(p) => p[k] # s)
  <2>. DEFINE q == Paths(tree)[s]
  <2>1. /\ q \in Seq(Nat) /\ Len(q) \in Nat \ {0} /\ q[Len(q)] = s
        /\ \A k \in 1 .. Len(q) : q[k] \in 1 .. s /\ (k # Len(q) => q[k] # s)
    BY PathShape
  <2>. HIDE DEF q
  <2>2. p = q
    BY <1>9 DEF q
  <2>. QED  BY <2>1, <2>2
<1>11. DOMAIN p = 1 .. Len(p) /\ \A k \in 1 .. Len(p) : p[k] \in 1 .. Len(tree)
  BY <1>1, <1>10, LenProperties
<1>12. /\ f = [k \in 1 .. Len(p) |-> tree[p[k]].varMap]
       /\ g = [k \in 1 .. Len(p) |-> other[p[k]].varMap]
  BY <1>8, <1>9, <1>11 DEF FramesOf
<1>13. Len(f) = Len(p)
  BY <1>9, FramesShape
<1>14. \A k \in 1 .. Len(p) : g[k] = IF k = Len(f) THEN new.varMap ELSE f[k]
  BY <1>3, <1>10, <1>11, <1>12, <1>13
<1>15. g = [f EXCEPT ![Len(f)] = new.varMap]
  <2>1. [f EXCEPT ![Len(f)] = new.varMap] = [k \in 1 .. Len(p) |-> IF k = Len(f) THEN new.varMap ELSE f[k]]
    BY <1>12
  <2>2. g = [k \in 1 .. Len(p) |-> g[k]]
    BY <1>12
  <2>. QED  BY <1>14, <2>1, <2>2
<1>. QED  BY <1>3, <1>5, <1>7, <1>9, <1>15 DEF Changed

-----------------------------------------------------------------------------
(* Parameters *)

LEMMA ParamsAre ==
  ASSUME unit \in Units
  PROVE  /\ unit.params \in Seq(Names) /\ Len(unit.params) \in Nat
         /\ DOMAIN unit.params = 1 .. Len(unit.params)
         /\ \A i, j \in 1 .. Len(unit.params) : unit.params[i] = unit.params[j] => i = j
         /\ \A i \in 1 .. Len(unit.params) : unit.params[i] \in Names
<1>1. unit.params \in Seq(STRING) /\ \A i, j \in DOMAIN unit.params : unit.params[i] = unit.params[j] => i = j
  BY UnitsOK
<1>2. DOMAIN unit.params = 1 .. Len(unit.params) /\ Len(unit.params) \in Nat
  BY <1>1, LenProperties
<1>3. \A i \in 1 .. Len(unit.params) : unit.params[i] \in Names
  BY <1>2 DEF Names, Range
<1>4. unit.params \in [1 .. Len(unit.params) -> Names]
  <2>1. unit.params = [i \in 1 .. Len(unit.params) |-> unit.params[i]]
    BY <1>1, <1>2, LenProperties
  <2>. QED  BY <1>3, <2>1
<1>5. unit.params \in Seq(Names)
  BY <1>2, <1>4, SeqOfFunction
<1>. QED  BY <1>1, <1>2, <1>3, <1>5

\* The map of a function's scope when its first k parameters are there.
ParamMap(k) ==
  [x \in {unit.params[j] : j \in 1 .. k} |->
     Len(variables) + CHOOSE i \in DOMAIN unit.params : unit.params[i] = x]

LEMMA ParamScopeIs ==
  ASSUME unit \in Units, Len(variables) \in Nat, current \in Nat
  PROVE  /\ ParamScope \in ScopeSet(Names) /\ ParamScope.parent = current
         /\ ParamScope.varMap =
               [x \in Range(unit.params) |->
                  Len(variables) + CHOOSE i \in DOMAIN unit.params : unit.params[i] = x]
         /\ DOMAIN ParamScope.varMap = Range(unit.params)
         /\ \A i \in 1 .. Len(unit.params) : ParamScope.varMap[unit.params[i]] = Len(variables) + i
<1>. DEFINE P == unit.params
            m == Len(P)
            n == Len(variables)
            Def(scope) == scope = [i \in 0 .. m |-> IF i = 0 THEN Scope(current)
                                                    ELSE InsertVariable(scope[i - 1], P[i], n + i)]
            Made(k) == [parent |-> current, varMap |-> ParamMap(k)]
<1>1. /\ m \in Nat /\ DOMAIN P = 1 .. m /\ n \in Nat
      /\ \A i, j \in 1 .. m : P[i] = P[j] => i = j
      /\ \A i \in 1 .. m : P[i] \in Names
  BY ParamsAre
<1>2. \A i \in 1 .. m : (CHOOSE j \in DOMAIN P : P[j] = P[i]) = i
  <2>1. ASSUME NEW i \in 1 .. m PROVE (CHOOSE j \in DOMAIN P : P[j] = P[i]) = i
    <3>1. \E j \in DOMAIN P : P[j] = P[i]
      BY <1>1
    <3>2. PICK c : c = CHOOSE j \in DOMAIN P : P[j] = P[i]
      OBVIOUS
    <3>3. c \in DOMAIN P /\ P[c] = P[i]
      BY <3>1, <3>2
    <3>. QED  BY <1>1, <3>2, <3>3
  <2>. QED  BY <2>1
<1>3. ASSUME NEW k \in 0 .. m PROVE Made(k) \in ScopeSet(Names)
  <2>1. DOMAIN ParamMap(k) = {P[j] : j \in 1 .. k}
    BY DEF ParamMap
  <2>2. \A j \in 1 .. k : j \in 1 .. m
    BY <1>1
  <2>3. DOMAIN ParamMap(k) \subseteq Names
    BY <1>1, <2>1, <2>2
  <2>4. \A x \in DOMAIN ParamMap(k) : ParamMap(k)[x] \in Nat
    <3>1. ASSUME NEW j \in 1 .. k PROVE ParamMap(k)[P[j]] \in Nat
      <4>1. ParamMap(k)[P[j]] = n + j
        BY <1>2, <2>2 DEF ParamMap
      <4>. QED  BY <1>1, <4>1
    <3>. QED  BY <2>1, <3>1
  <2>5. ParamMap(k) \in [DOMAIN ParamMap(k) -> Nat]
    <3>1. ParamMap(k) = [x \in DOMAIN ParamMap(k) |-> ParamMap(k)[x]]
      BY DEF ParamMap
    <3>. QED  BY <2>4, <3>1
  <2>6. ParamMap(k) \in Maps(Names)
    BY <2>3, <2>5 DEF Maps
  <2>. QED  BY <2>6 DEF ScopeSet
<1>4. ParamMap(0) = << >>
  <2>1. {P[j] : j \in 1 .. 0} = {}
    OBVIOUS
  <2>. QED  BY <2>1 DEF ParamMap
<1>5. Made(0) = Scope(current)
  BY <1>4 DEF Scope
<1>6. ASSUME NEW k \in 1 .. m PROVE Made(k) = InsertVariable(Made(k - 1), P[k], n + k)
  <2>1. k - 1 \in 0 .. m /\ k \in 0 .. m
    BY <1>1
  <2>2. Made(k - 1) \in ScopeSet(Names)
    BY <1>3, <2>1
  <2>3. DOMAIN ParamMap(k - 1) = {P[j] : j \in 1 .. k - 1}
    BY DEF ParamMap
  <2>4. P[k] \notin DOMAIN ParamMap(k - 1)
    <3>1. \A j \in 1 .. k - 1 : j \in 1 .. m /\ j # k
      BY <1>1
    <3>. QED  BY <1>1, <2>3, <3>1
  <2>5. InsertVariable(Made(k - 1), P[k], n + k).varMap
          = [y \in DOMAIN ParamMap(k - 1) \union {P[k]} |-> IF y = P[k] THEN n + k ELSE ParamMap(k - 1)[y]]
    BY <2>4 DEF InsertVariable
  <2>6. {P[j] : j \in 1 .. k} = {P[j] : j \in 1 .. k - 1} \union {P[k]}
    <3>1. \A j \in 1 .. k : j = k \/ j \in 1 .. k - 1
      BY <1>1
    <3>2. k \in 1 .. k /\ \A j \in 1 .. k - 1 : j \in 1 .. k
      BY <1>1
    <3>. QED  BY <3>1, <3>2
  <2>7. \A y \in {P[j] : j \in 1 .. k} :
          (IF y = P[k] THEN n + k ELSE ParamMap(k - 1)[y]) = n + CHOOSE i \in DOMAIN P : P[i] = y
    <3>1. ASSUME NEW y \in {P[j] : j \in 1 .. k}, y # P[k]
          PROVE  ParamMap(k - 1)[y] = n + CHOOSE i \in DOMAIN P : P[i] = y
      <4>1. y \in DOMAIN ParamMap(k - 1)
        BY <2>3, <2>6, <3>1
      <4>. QED  BY <4>1 DEF ParamMap
    <3>2. n + k = n + CHOOSE i \in DOMAIN P : P[i] = P[k]
      BY <1>2
    <3>3. ASSUME NEW y \in {P[j] : j \in 1 .. k}
          PROVE  (IF y = P[k] THEN n + k ELSE ParamMap(k - 1)[y]) = n + CHOOSE i \in DOMAIN P : P[i] = y
      <4>1. CASE y = P[k]
        <5>1. n + k = n + CHOOSE i \in DOMAIN P : P[i] = y
          BY <3>2, <4>1
        <5>. QED  BY <4>1, <5>1
      <4>2. CASE y # P[k]
        <5>1. ParamMap(k - 1)[y] = n + CHOOSE i \in DOMAIN P : P[i] = y
          BY <3>1, <4>2
        <5>. QED  BY <4>2, <5>1
      <4>. QED  BY <4>1, <4>2
    <3>. QED  BY <3>3
  <2>8. InsertVariable(Made(k - 1), P[k], n + k).varMap = ParamMap(k)
    BY <2>3, <2>5, <2>6, <2>7 DEF ParamMap
  <2>9. InsertVariable(Made(k - 1), P[k], n + k)
          = [parent |-> current, varMap |-> InsertVariable(Made(k - 1), P[k], n + k).varMap]
    BY <2>4 DEF InsertVariable
  <2>. QED  BY <2>8, <2>9
<1>. DEFINE h == [k \in 0 .. m |-> Made(k)]
<1>7. Def(h)
  <2>1. \A k \in 0 .. m : Made(k) = IF k = 0 THEN Scope(current) ELSE InsertVariable(h[k - 1], P[k], n + k)
    <3>1. ASSUME NEW k \in 0 .. m, k # 0 PROVE Made(k) = InsertVariable(h[k - 1], P[k], n + k)
      <4>1. k \in 1 .. m /\ k - 1 \in 0 .. m
        BY <1>1, <3>1
      <4>2. h[k - 1] = Made(k - 1)
        BY <4>1
      <4>. HIDE DEF h, Made
      <4>. QED  BY <1>6, <4>1, <4>2
    <3>. HIDE DEF h, Made
    <3>. QED  BY <1>5, <3>1
  <2>2. h = [k \in 0 .. m |-> Made(k)]
    OBVIOUS
  <2>. HIDE DEF h, Made
  <2>. QED  BY <2>1, <2>2
<1>. DEFINE f == CHOOSE scope : Def(scope)
<1>8. Def(f)
  <2>. HIDE DEF Def, h
  <2>. QED  BY <1>7
<1>9. ParamScope = f[m]
  BY DEF ParamScope
<1>. HIDE DEF f
<1>10. f[0] = Scope(current) /\ \A k \in 1 .. m : f[k] = InsertVariable(f[k - 1], P[k], n + k)
  <2>1. \A k \in 0 .. m : f[k] = IF k = 0 THEN Scope(current) ELSE InsertVariable(f[k - 1], P[k], n + k)
    BY <1>8
  <2>2. 0 \in 0 .. m /\ \A k \in 1 .. m : k \in 0 .. m /\ k # 0
    BY <1>1
  <2>. HIDE DEF Def, m, n, P
  <2>. QED  BY <2>1, <2>2
<1>11. \A k \in 0 .. m : f[k] = Made(k)
  <2>. DEFINE T == {k \in 0 .. m : f[k] = Made(k)}
  <2>1. 0 \in T
    BY <1>1, <1>5, <1>10
  <2>2. ASSUME NEW k \in 1 .. m, k - 1 \in T PROVE k \in T
    <3>1. f[k - 1] = Made(k - 1) /\ k \in 0 .. m
      BY <1>1, <2>2
    <3>2. f[k] = Made(k)
      <4>. HIDE DEF Made
      <4>. QED  BY <1>6, <1>10, <3>1
    <3>. QED  BY <3>1, <3>2
  <2>3. \A k \in 0 .. m : k \in T
    <3>. HIDE DEF T
    <3>. QED  BY <1>1, <2>1, <2>2, UpTo
  <2>. QED  BY <2>3
<1>12. m \in 0 .. m /\ ParamScope = Made(m)
  BY <1>1, <1>9, <1>11
<1>13. {P[j] : j \in 1 .. m} = Range(P)
  BY <1>1 DEF Range
<1>14. /\ ParamScope.varMap = [x \in Range(P) |-> n + CHOOSE i \in DOMAIN P : P[i] = x]
       /\ ParamScope.parent = current
  BY <1>12, <1>13 DEF ParamMap
<1>15. ParamScope \in ScopeSet(Names)
  BY <1>3, <1>12
<1>16. \A i \in 1 .. m : P[i] \in Range(P)
  BY <1>13
<1>17. \A i \in 1 .. m : ParamScope.varMap[P[i]] = n + i
  BY <1>2, <1>14, <1>16
<1>. QED  BY <1>14, <1>15, <1>17

-----------------------------------------------------------------------------
(* Steps *)

\* other is the tree with a new scope.
Extended(names, tree, sc, other) ==
  /\ other \in Seq(ScopeSet(names)) /\ Rooted(other) /\ Len(other) = Len(tree) + 1
  /\ \A t \in 1 .. Len(tree) : other[t] = tree[t]
  /\ other[Len(tree) + 1] = sc
  /\ \A t \in 1 .. Len(tree) : FramesOf(other, t) = FramesOf(tree, t)
  /\ FramesOf(other, Len(tree) + 1) = Append(FramesOf(tree, sc.parent), sc.varMap)

LEMMA ScopeAdded ==
  ASSUME NEW names, NEW tree \in Seq(ScopeSet(names)), Rooted(tree),
         NEW sc \in ScopeSet(names), sc.parent \in 1 .. Len(tree), NEW other, other = Append(tree, sc)
  PROVE  Extended(names, tree, sc, other)
<1>1. Len(tree) \in Nat \ {0}
  BY DEF Rooted
<1>2. /\ other \in Seq(ScopeSet(names)) /\ Len(other) = Len(tree) + 1
      /\ \A t \in 1 .. Len(tree) : other[t] = tree[t]
      /\ other[Len(tree) + 1] = sc
  BY AppendFact
<1>3. Rooted(other)
  <2>1. DOMAIN other = 1 .. Len(other)
    BY <1>2, LenProperties
  <2>2. ASSUME NEW s \in 1 .. Len(other)
        PROVE  other[s].parent \in 0 .. s - 1 /\ (other[s].parent = 0 <=> s = 1)
    <3>1. s \in 1 .. Len(tree) \/ s = Len(tree) + 1
      BY <1>1, <1>2
    <3>2. CASE s \in 1 .. Len(tree)
      BY <1>2, <3>2 DEF Rooted
    <3>3. CASE s = Len(tree) + 1
      <4>1. other[s].parent \in 1 .. Len(tree)
        BY <1>2, <3>3
      <4>. QED  BY <1>1, <3>3, <4>1
    <3>. QED  BY <3>1, <3>2, <3>3
  <2>. QED  BY <1>1, <1>2, <2>1, <2>2 DEF Rooted
<1>4. ASSUME NEW t \in 1 .. Len(tree) PROVE FramesOf(other, t) = FramesOf(tree, t)
  <2>1. Len(tree) <= Len(other)
    BY <1>1, <1>2
  <2>. QED  BY <1>2, <1>3, <2>1, FramesStay
<1>5. FramesOf(other, Len(tree) + 1) = Append(FramesOf(tree, sc.parent), sc.varMap)
  <2>1. PICK n : n = Len(tree) + 1
    OBVIOUS
  <2>2. n \in 2 .. Len(other) /\ other[n] = sc
    BY <1>1, <1>2, <2>1
  <2>3. FramesOf(other, n) = Append(FramesOf(other, other[n].parent), other[n].varMap)
    BY <1>2, <1>3, <2>2, FramesAppend
  <2>. QED  BY <1>4, <2>1, <2>2, <2>3
<1>. QED  BY <1>2, <1>3, <1>4, <1>5 DEF Extended

LEMMA EmptyScope ==
  ASSUME NEW names, NEW parent \in Nat
  PROVE  Scope(parent) \in ScopeSet(names) /\ Scope(parent).parent = parent /\ Scope(parent).varMap = << >>
  BY EmptyMap DEF Scope, ScopeSet

\* The types say that the maps are of the names, and in order.
LEMMA MapOf ==
  ASSUME ScopeInv, NEW s \in 1 .. Len(scopes)
  PROVE  /\ scopes[s] \in ScopeSet(Names) /\ scopes[s].varMap \in Maps(Names)
         /\ DOMAIN scopes[s].varMap \subseteq Names
         /\ \A x \in DOMAIN scopes[s].varMap : scopes[s].varMap[x] \in 1 .. Len(variables)
<1>1. scopes[s] \in ScopeSet(Names)
  BY ElementOfSeq DEF ScopeInv
<1>2. scopes[s].varMap \in Maps(Names)
  BY <1>1 DEF ScopeSet
<1>3. DOMAIN scopes = 1 .. Len(scopes) /\ DOMAIN variables = 1 .. Len(variables)
  BY LenProperties DEF ScopeInv
<1>4. \A x \in DOMAIN scopes[s].varMap : scopes[s].varMap[x] \in 1 .. Len(variables)
  BY <1>3 DEF ScopeInv, Named
<1>. QED  BY <1>1, <1>2, <1>4, MapFacts

\* A file begins with an empty scope, and the language with an empty frame.
LEMMA InitSteps ==
  ASSUME ScopeInit
  PROVE  ScopeInv /\ Stack!StackInit
<1>1. unit \in Units /\ scopes = <<Scope(0)>> /\ current = 1 /\ variables = << >>
  BY DEF ScopeInit
<1>2. Scope(0) \in ScopeSet(Names) /\ Scope(0).parent = 0 /\ Scope(0).varMap = << >>
  BY EmptyScope
<1>3. scopes \in Seq(ScopeSet(Names)) /\ Len(scopes) = 1 /\ DOMAIN scopes = 1 .. 1 /\ scopes[1] = Scope(0)
  BY <1>1, <1>2
<1>4. \A s \in 1 .. Len(scopes) : s = 1
  BY <1>3
<1>5. Rooted(scopes)
  BY <1>2, <1>3, <1>4 DEF Rooted
<1>6. variables \in Seq(VariableSet(Names)) /\ Len(variables) = 0 /\ DOMAIN variables = {}
  BY <1>1, EmptySeq
<1>7. Named(scopes, variables)
  <2>1. DOMAIN << >> = {}
    OBVIOUS
  <2>. QED  BY <1>2, <1>3, <1>4, <1>6, <2>1 DEF Named
<1>8. ScopeInv
  BY <1>1, <1>3, <1>5, <1>6, <1>7 DEF ScopeInv
<1>9. Frames = << << >> >>
  <2>1. FramesOf(scopes, 1) = <<scopes[1].varMap>>
    BY <1>3, <1>5, FramesOfRoot
  <2>. QED  BY <1>1, <1>2, <1>3, <2>1 DEF Frames
<1>. QED  BY <1>6, <1>8, <1>9 DEF Stack!StackInit

\* A block is opened in both.
LEMMA OpenBlockSteps ==
  ASSUME ScopeInv, OpenBlock
  PROVE  ScopeInv' /\ Stack!OpenBlock
<1>1. /\ current # 1 /\ scopes' = Append(scopes, Scope(current)) /\ current' = Len(scopes) + 1
      /\ unit' = unit /\ variables' = variables /\ Names' = Names
  BY DEF OpenBlock, Names
<1>2. /\ unit \in Units /\ scopes \in Seq(ScopeSet(Names)) /\ Rooted(scopes)
      /\ variables \in Seq(VariableSet(Names)) /\ Named(scopes, variables)
      /\ current \in 1 .. Len(scopes) /\ Len(scopes) \in Nat \ {0}
  BY DEF ScopeInv, Rooted
<1>3. PICK tree, n, sc : tree = scopes' /\ n = Len(scopes) /\ sc = Scope(current)
  OBVIOUS
<1>4. sc \in ScopeSet(Names) /\ sc.parent = current /\ sc.varMap = << >>
  BY <1>2, <1>3, EmptyScope
<1>5. tree = Append(scopes, sc) /\ sc.parent \in 1 .. Len(scopes)
  BY <1>1, <1>2, <1>3, <1>4
<1>6. /\ tree \in Seq(ScopeSet(Names)) /\ Rooted(tree) /\ Len(tree) = n + 1
      /\ \A t \in 1 .. n : tree[t] = scopes[t]
      /\ tree[n + 1] = sc
      /\ FramesOf(tree, n + 1) = Append(FramesOf(scopes, sc.parent), sc.varMap)
  <2>1. Extended(Names, scopes, sc, tree)
    BY <1>2, <1>4, <1>5, ScopeAdded
  <2>. QED  BY <1>3, <2>1 DEF Extended
<1>7. Named(tree, variables)
  <2>1. DOMAIN tree = 1 .. n + 1 /\ DOMAIN scopes = 1 .. n
    BY <1>2, <1>3, <1>6, LenProperties
  <2>2. ASSUME NEW s \in DOMAIN tree, NEW x \in DOMAIN tree[s].varMap PROVE s \in 1 .. n
    <3>1. s \in 1 .. n \/ s = n + 1
      BY <1>2, <1>3, <2>1
    <3>2. DOMAIN << >> = {}
      OBVIOUS
    <3>3. s # n + 1
      BY <1>4, <1>6, <2>2, <3>2
    <3>. QED  BY <3>1, <3>3
  <2>3. \A s \in DOMAIN tree : \A x \in DOMAIN tree[s].varMap :
          tree[s].varMap[x] \in DOMAIN variables /\ variables[tree[s].varMap[x]].name = x
    BY <1>2, <1>6, <2>1, <2>2 DEF Named
  <2>4. tree[1] = scopes[1]
    BY <1>2, <1>3, <1>6
  <2>. QED  BY <1>2, <2>3, <2>4 DEF Named
<1>8. ScopeInv'
  <2>1. n + 1 \in 1 .. Len(tree)
    BY <1>2, <1>3, <1>6
  <2>. QED  BY <1>1, <1>2, <1>3, <1>6, <1>7, <2>1 DEF ScopeInv
<1>9. Frames' = Append(Frames, << >>)
  <2>1. FramesOf(tree, n + 1) = Append(FramesOf(scopes, current), << >>)
    BY <1>4, <1>6
  <2>. QED  BY <1>1, <1>3, <2>1 DEF Frames
<1>10. Len(Frames) > 1
  <2>1. Len(FramesOf(scopes, current)) # 1
    BY <1>1, <1>2, FramesOfRoot
  <2>2. Len(FramesOf(scopes, current)) \in Nat \ {0}
    BY <1>2, FramesShape
  <2>3. \A v \in Nat \ {0} : v # 1 => v > 1
    OBVIOUS
  <2>. QED  BY <2>1, <2>2, <2>3 DEF Frames
<1>. QED  BY <1>1, <1>8, <1>9, <1>10 DEF Stack!OpenBlock

\* A block is closed in both; the body of a function with its parameters.
LEMMA CloseSteps ==
  ASSUME ScopeInv, Close
  PROVE  ScopeInv' /\ Stack!Close
<1>1. /\ current # 1 /\ current' = IF scopes[scopes[current].parent].parent = 1 THEN 1 ELSE scopes[current].parent
      /\ scopes' = scopes /\ unit' = unit /\ variables' = variables /\ Names' = Names
  BY DEF Close, Names
<1>2. /\ unit \in Units /\ scopes \in Seq(ScopeSet(Names)) /\ Rooted(scopes)
      /\ variables \in Seq(VariableSet(Names)) /\ Named(scopes, variables)
      /\ current \in 1 .. Len(scopes) /\ Len(scopes) \in Nat \ {0}
  BY DEF ScopeInv, Rooted
<1>3. PICK u : u = scopes[current].parent
  OBVIOUS
<1>4. current \in 2 .. Len(scopes)
  BY <1>1, <1>2
<1>5. /\ u \in 1 .. Len(scopes)
      /\ FramesOf(scopes, current) = Append(FramesOf(scopes, u), scopes[current].varMap)
      /\ Len(FramesOf(scopes, current)) = Len(FramesOf(scopes, u)) + 1
  BY <1>2, <1>3, <1>4, FramesAppend
<1>6. PICK f, g, m : f = FramesOf(scopes, current) /\ g = FramesOf(scopes, u) /\ m = scopes[current].varMap
  OBVIOUS
<1>7. g \in Seq(Maps(Names)) /\ Len(g) \in Nat \ {0} /\ (Len(g) = 1 <=> u = 1)
  BY <1>2, <1>5, <1>6, FramesShape, FramesOfRoot
<1>8. m \in Maps(Names)
  BY <1>2, <1>6, MapOf
<1>9. f = Append(g, m) /\ Len(f) = Len(g) + 1 /\ f \in Seq(Maps(Names))
  BY <1>5, <1>6, <1>7, <1>8, AppendFact
<1>10. Len(f) > 1 /\ Len(f) - 1 = Len(g)
  BY <1>7, <1>9
<1>11. SubSeq(f, 1, Len(g)) = g
  <2>1. Len(g) \in 0 .. Len(f)
    BY <1>7, <1>9
  <2>2. /\ SubSeq(f, 1, Len(g)) \in Seq(Maps(Names)) /\ Len(SubSeq(f, 1, Len(g))) = Len(g)
        /\ \A k \in 1 .. Len(g) : SubSeq(f, 1, Len(g))[k] = f[k]
    BY <1>7, <1>9, <2>1, SubSeqProperties
  <2>3. \A k \in 1 .. Len(g) : f[k] = g[k]
    BY <1>7, <1>8, <1>9, AppendFact
  <2>. QED  BY <1>7, <2>2, <2>3, SameSeq
<1>12. PICK w : w = scopes[u].parent
  OBVIOUS
<1>13. current' = IF w = 1 THEN 1 ELSE u
  BY <1>1, <1>3, <1>12
<1>14. ScopeInv'
  <2>1. current' \in 1 .. Len(scopes)
    BY <1>2, <1>5, <1>13
  <2>. QED  BY <1>1, <1>2, <2>1 DEF ScopeInv
<1>15. CASE w = 1
  <2>1. u \in 2 .. Len(scopes)
    <3>1. u # 1
      <4>1. 1 \in 1 .. Len(scopes)
        BY <1>2
      <4>2. scopes[1].parent = 0
        BY <1>2, <4>1 DEF Rooted
      <4>3. ASSUME u = 1 PROVE FALSE
        <5>1. w = scopes[1].parent
          BY <1>12, <4>3
        <5>2. w = 0
          BY <4>2, <5>1
        <5>. QED  BY <1>15, <5>2
      <4>. QED  BY <4>3
    <3>. QED  BY <1>2, <1>5, <3>1
  <2>2. Len(g) = 2
    <3>1. Len(FramesOf(scopes, u)) = Len(FramesOf(scopes, scopes[u].parent)) + 1
      BY <1>2, <2>1, FramesAppend
    <3>2. Len(FramesOf(scopes, 1)) = 1
      BY <1>2, FramesOfRoot
    <3>3. Len(g) = Len(FramesOf(scopes, 1)) + 1
      <4>1. scopes[u].parent = 1
        BY <1>12, <1>15
      <4>. QED  BY <1>6, <3>1, <4>1
    <3>4. Len(g) = 1 + 1
      BY <3>2, <3>3
    <3>. QED  BY <3>4
  <2>3. FramesOf(scopes, u) = Append(FramesOf(scopes, 1), scopes[u].varMap)
    BY <1>2, <1>12, <1>15, <2>1, FramesAppend
  <2>4. PICK r, v : r = FramesOf(scopes, 1) /\ v = scopes[u].varMap
    OBVIOUS
  <2>5. 1 \in 1 .. Len(scopes)
    BY <1>2
  <2>6. r \in Seq(Maps(Names)) /\ Len(r) = 1
    BY <1>2, <2>4, <2>5, FramesShape, FramesOfRoot
  <2>7. v \in Maps(Names)
    BY <1>5, <2>4, MapOf
  <2>8. g = Append(r, v)
    BY <1>6, <2>3, <2>4
  <2>9. g[1] = r[1]
    BY <2>6, <2>7, <2>8, AppendFact
  <2>10. f[1] = g[1]
    <3>1. 1 \in 1 .. Len(g)
      BY <1>7
    <3>. QED  BY <1>7, <1>8, <1>9, <3>1, AppendFact
  <2>11. 1 \in 0 .. Len(f) /\ Len(f) = 3
    BY <1>9, <2>2
  <2>12. /\ SubSeq(f, 1, 1) \in Seq(Maps(Names)) /\ Len(SubSeq(f, 1, 1)) = 1
         /\ \A k \in 1 .. 1 : SubSeq(f, 1, 1)[k] = f[k]
    BY <1>9, <2>11, SubSeqProperties
  <2>13. SubSeq(f, 1, 1) = r
    <3>1. \A k \in 1 .. 1 : SubSeq(f, 1, 1)[k] = r[k]
      BY <2>9, <2>10, <2>12
    <3>. QED  BY <2>6, <2>12, <3>1, SameSeq
  <2>14. Frames = f /\ Frames' = r
    BY <1>1, <1>6, <1>13, <1>15, <2>4 DEF Frames
  <2>. QED  BY <1>1, <1>10, <1>14, <2>11, <2>13, <2>14 DEF Stack!Close
<1>16. CASE w # 1
  <2>1. Len(g) # 2
    <3>1. CASE u = 1
      BY <1>7, <3>1
    <3>2. CASE u # 1
      <4>1. u \in 2 .. Len(scopes)
        BY <1>2, <1>5, <3>2
      <4>2. w \in 1 .. Len(scopes) /\ Len(FramesOf(scopes, u)) = Len(FramesOf(scopes, w)) + 1
        BY <1>2, <1>12, <4>1, FramesAppend
      <4>3. Len(FramesOf(scopes, w)) # 1
        BY <1>2, <1>16, <4>2, FramesOfRoot
      <4>4. Len(FramesOf(scopes, w)) \in Nat
        BY <1>2, <4>2, FramesShape
      <4>5. Len(g) = Len(FramesOf(scopes, w)) + 1
        BY <1>6, <4>2
      <4>6. \A a \in Nat : a # 1 => a + 1 # 2
        OBVIOUS
      <4>. QED  BY <4>3, <4>4, <4>5, <4>6
    <3>. QED  BY <3>1, <3>2
  <2>2. Len(f) # 3
    <3>1. \A a \in Nat : a # 2 => a + 1 # 3
      OBVIOUS
    <3>. QED  BY <1>7, <1>9, <2>1, <3>1
  <2>3. Frames = f /\ Frames' = g
    BY <1>1, <1>6, <1>13, <1>16 DEF Frames
  <2>. QED  BY <1>1, <1>10, <1>11, <1>14, <2>2, <2>3 DEF Stack!Close
<1>. QED  BY <1>15, <1>16

\* A name is declared in both.
LEMMA DeclareSteps ==
  ASSUME ScopeInv, NEW x \in Names, x \notin DOMAIN scopes[current].varMap, DeclareVariable(x)
  PROVE  ScopeInv' /\ Stack!Declare(x)
<1>1. /\ variables' = Append(variables, Variable(x, IsGlobal(current)))
      /\ scopes' = [scopes EXCEPT ![current] = InsertVariable(scopes[current], x, Len(variables) + 1)]
      /\ unit' = unit /\ current' = current /\ Names' = Names
  BY DEF DeclareVariable, Names
<1>2. /\ unit \in Units /\ scopes \in Seq(ScopeSet(Names)) /\ Rooted(scopes)
      /\ variables \in Seq(VariableSet(Names)) /\ Named(scopes, variables)
      /\ current \in 1 .. Len(scopes) /\ Len(scopes) \in Nat \ {0}
      /\ DOMAIN scopes = 1 .. Len(scopes)
  BY DEF ScopeInv, Rooted
<1>3. Len(variables) \in Nat /\ DOMAIN variables = 1 .. Len(variables)
  BY <1>2, LenProperties
<1>4. PICK n, old, new, tree, vs :
        /\ n = Len(variables) + 1 /\ old = scopes[current] /\ new = InsertVariable(old, x, n)
        /\ tree = scopes' /\ vs = variables'
  OBVIOUS
<1>5. n \in Nat \ {0} /\ n \notin 1 .. Len(variables) /\ n - 1 = Len(variables)
  BY <1>3, <1>4
<1>6. old \in ScopeSet(Names) /\ x \notin DOMAIN old.varMap
  BY <1>2, <1>4, MapOf
<1>7. /\ new \in ScopeSet(Names) /\ new.parent = old.parent
      /\ new.varMap = [y \in DOMAIN old.varMap \union {x} |-> IF y = x THEN n ELSE old.varMap[y]]
      /\ DOMAIN new.varMap = DOMAIN old.varMap \union {x} /\ new.varMap[x] = n
      /\ \A y \in DOMAIN old.varMap : new.varMap[y] = old.varMap[y]
  <2>1. n \in Nat
    BY <1>5
  <2>2. WithName(Names, old, x, n, new)
    BY <1>4, <1>6, <2>1, InsertedName
  <2>. QED  BY <2>2 DEF WithName
<1>8. tree = [scopes EXCEPT ![current] = new]
  BY <1>1, <1>4
<1>9. /\ tree \in Seq(ScopeSet(Names)) /\ Rooted(tree) /\ Len(tree) = Len(scopes)
      /\ \A t \in 1 .. Len(scopes) : tree[t] = IF t = current THEN new ELSE scopes[t]
      /\ FramesOf(tree, current) =
            [FramesOf(scopes, current) EXCEPT ![Len(FramesOf(scopes, current))] = new.varMap]
  <2>1. new.parent = scopes[current].parent
    BY <1>4, <1>7
  <2>2. Changed(Names, scopes, current, new, tree)
    BY <1>2, <1>7, <1>8, <2>1, FramesChange
  <2>. QED  BY <2>2 DEF Changed
<1>10. PICK v : v = Variable(x, IsGlobal(current))
  OBVIOUS
<1>11. v \in VariableSet(Names) /\ v.name = x /\ (v.global <=> current = 1)
  <2>1. IsGlobal(current) <=> current = 1
    BY <1>2 DEF IsGlobal, Rooted
  <2>2. IsGlobal(current) \in BOOLEAN
    BY DEF IsGlobal
  <2>3. v = [name |-> x, global |-> IsGlobal(current)]
    BY <1>10 DEF Variable
  <2>. QED  BY <2>1, <2>2, <2>3 DEF VariableSet
<1>12. /\ vs \in Seq(VariableSet(Names)) /\ Len(vs) = n /\ vs[n] = v
       /\ \A i \in 1 .. Len(variables) : vs[i] = variables[i]
  BY <1>1, <1>2, <1>4, <1>10, <1>11, AppendFact
<1>13. DOMAIN vs = 1 .. n /\ DOMAIN tree = 1 .. Len(scopes)
  BY <1>9, <1>12, LenProperties
<1>14. ASSUME NEW s \in DOMAIN tree, NEW y \in DOMAIN tree[s].varMap
       PROVE  tree[s].varMap[y] \in DOMAIN vs /\ vs[tree[s].varMap[y]].name = y
  <2>1. \A t \in 1 .. Len(scopes) : \A z \in DOMAIN scopes[t].varMap :
          scopes[t].varMap[z] \in 1 .. Len(variables) /\ variables[scopes[t].varMap[z]].name = z
    BY <1>2, <1>3 DEF Named
  <2>2. CASE s = current /\ y = x
    <3>1. tree[s].varMap[y] = n
      BY <1>7, <1>9, <1>13, <2>2
    <3>2. n \in 1 .. n
      BY <1>5
    <3>. QED  BY <1>11, <1>12, <1>13, <2>2, <3>1, <3>2
  <2>3. CASE ~(s = current /\ y = x)
    <3>1. y \in DOMAIN scopes[s].varMap /\ tree[s].varMap[y] = scopes[s].varMap[y]
      <4>1. CASE s = current
        BY <1>4, <1>7, <1>9, <1>13, <2>3, <4>1
      <4>2. CASE s # current
        BY <1>9, <1>13, <4>2
      <4>. QED  BY <4>1, <4>2
    <3>2. PICK i : i = scopes[s].varMap[y]
      OBVIOUS
    <3>3. i \in 1 .. Len(variables) /\ variables[i].name = y
      BY <1>13, <2>1, <3>1, <3>2
    <3>4. i \in 1 .. n
      BY <1>3, <1>4, <3>3
    <3>. QED  BY <1>12, <1>13, <3>1, <3>2, <3>3, <3>4
  <2>. QED  BY <2>2, <2>3
<1>15. ASSUME NEW i \in DOMAIN vs
       PROVE  vs[i].global <=> \E y \in DOMAIN tree[1].varMap : tree[1].varMap[y] = i
  <2>1. 1 \in 1 .. Len(scopes)
    BY <1>2
  <2>2. \A y \in DOMAIN scopes[1].varMap : scopes[1].varMap[y] \in 1 .. Len(variables)
    BY <2>1, MapOf
  <2>3. i = n \/ i \in 1 .. Len(variables)
    BY <1>3, <1>4, <1>13
  <2>4. CASE current = 1
    <3>1. tree[1] = new /\ old = scopes[1]
      BY <1>4, <1>9, <2>1, <2>4
    <3>2. CASE i = n
      BY <1>7, <1>11, <1>12, <2>4, <3>1, <3>2
    <3>3. CASE i \in 1 .. Len(variables)
      <4>1. variables[i].global <=> \E y \in DOMAIN scopes[1].varMap : scopes[1].varMap[y] = i
        BY <1>2, <1>3, <3>3 DEF Named
      <4>2. i # n
        BY <1>5, <3>3
      <4>3. (\E y \in DOMAIN old.varMap : old.varMap[y] = i) <=> \E y \in DOMAIN new.varMap : new.varMap[y] = i
        BY <1>7, <4>2
      <4>. QED  BY <1>12, <3>1, <3>3, <4>1, <4>3
    <3>. QED  BY <2>3, <3>2, <3>3
  <2>5. CASE current # 1
    <3>1. tree[1] = scopes[1]
      BY <1>9, <2>1, <2>5
    <3>2. CASE i = n
      <4>1. ~vs[i].global
        BY <1>11, <1>12, <2>5, <3>2
      <4>2. \A y \in DOMAIN scopes[1].varMap : scopes[1].varMap[y] # i
        BY <1>5, <2>2, <3>2
      <4>. QED  BY <3>1, <4>1, <4>2
    <3>3. CASE i \in 1 .. Len(variables)
      BY <1>2, <1>3, <1>12, <3>1, <3>3 DEF Named
    <3>. QED  BY <2>3, <3>2, <3>3
  <2>. QED  BY <2>4, <2>5
<1>16. Named(tree, vs)
  BY <1>14, <1>15 DEF Named
<1>17. ScopeInv'
  BY <1>1, <1>2, <1>4, <1>9, <1>12, <1>16 DEF ScopeInv
<1>18. PICK f, g : f = Frames /\ g = Frames'
  OBVIOUS
<1>19. f[Len(f)] = old.varMap /\ Len(f) \in 1 .. Len(f) /\ DOMAIN f = 1 .. Len(f)
  <2>1. Frames[Len(Frames)] = scopes[current].varMap
    BY <1>2, FramesShape DEF Frames
  <2>2. /\ Len(Frames) = Len(Paths(scopes)[current]) /\ Len(Frames) \in Nat \ {0}
        /\ DOMAIN Frames = 1 .. Len(Paths(scopes)[current])
    BY <1>2, FramesShape DEF Frames
  <2>. QED  BY <1>4, <1>18, <2>1, <2>2
<1>20. g = [f EXCEPT ![Len(f)] = new.varMap]
  BY <1>1, <1>4, <1>9, <1>18 DEF Frames
<1>21. new.varMap = [y \in DOMAIN f[Len(f)] \union {x} |-> IF y = x THEN Len(variables) + 1 ELSE f[Len(f)][y]]
  BY <1>4, <1>7, <1>19
<1>22. x \notin DOMAIN f[Len(f)]
  BY <1>6, <1>19
<1>23. Len(variables') = Len(variables) + 1
  BY <1>4, <1>12
<1>. QED  BY <1>1, <1>17, <1>18, <1>20, <1>21, <1>22, <1>23 DEF Stack!Declare

\* A function is opened in both: a scope with its parameters, and its body.
LEMMA OpenFunctionSteps ==
  ASSUME ScopeInv, OpenFunction
  PROVE  ScopeInv' /\ Stack!OpenFunction
<1>1. /\ current = 1 /\ current' = Len(scopes) + 2 /\ unit' = unit /\ Names' = Names
      /\ scopes' = scopes \o <<ParamScope, Scope(Len(scopes) + 1)>>
      /\ variables' = variables \o [i \in DOMAIN unit.params |-> Variable(unit.params[i], FALSE)]
  BY DEF OpenFunction, Names
<1>2. /\ unit \in Units /\ scopes \in Seq(ScopeSet(Names)) /\ Rooted(scopes)
      /\ variables \in Seq(VariableSet(Names)) /\ Named(scopes, variables)
      /\ current \in 1 .. Len(scopes) /\ Len(scopes) \in Nat \ {0}
      /\ DOMAIN scopes = 1 .. Len(scopes)
  BY DEF ScopeInv, Rooted
<1>3. Len(variables) \in Nat /\ DOMAIN variables = 1 .. Len(variables)
  BY <1>2, LenProperties
<1>4. PICK P, m, n, k, par, body, mid, tree, vs :
        /\ P = unit.params /\ m = Len(P) /\ n = Len(variables) /\ k = Len(scopes)
        /\ par = ParamScope /\ body = Scope(k + 1) /\ mid = Append(scopes, par)
        /\ tree = scopes' /\ vs = variables'
  OBVIOUS
<1>5. /\ m \in Nat /\ DOMAIN P = 1 .. m /\ n \in Nat /\ k \in Nat \ {0}
      /\ \A i \in 1 .. m : P[i] \in Names
  BY <1>2, <1>3, <1>4, ParamsAre
<1>6. /\ par \in ScopeSet(Names) /\ par.parent = 1 /\ DOMAIN par.varMap = Range(P)
      /\ par.varMap = [x \in Range(P) |-> n + CHOOSE i \in DOMAIN P : P[i] = x]
      /\ \A i \in 1 .. m : par.varMap[P[i]] = n + i
  <2>1. current \in Nat
    BY <1>2
  <2>2. ParamScope \in ScopeSet(Names) /\ ParamScope.parent = current
    BY <1>2, <1>3, <2>1, ParamScopeIs
  <2>3. ParamScope.varMap = [x \in Range(unit.params) |->
                  Len(variables) + CHOOSE i \in DOMAIN unit.params : unit.params[i] = x]
    BY <1>2, <1>3, <2>1, ParamScopeIs
  <2>4. DOMAIN ParamScope.varMap = Range(unit.params)
    BY <2>3
  <2>5. \A i \in 1 .. Len(unit.params) : ParamScope.varMap[unit.params[i]] = Len(variables) + i
    BY <1>2, <1>3, <2>1, ParamScopeIs
  <2>6. P = unit.params /\ n = Len(variables) /\ m = Len(unit.params) /\ par = ParamScope /\ current = 1
    BY <1>1, <1>4
  <2>7. par.varMap = [x \in Range(P) |-> n + CHOOSE i \in DOMAIN P : P[i] = x]
    BY <2>3, <2>6
  <2>8. \A i \in 1 .. m : par.varMap[P[i]] = n + i
    BY <2>5, <2>6
  <2>9. DOMAIN par.varMap = Range(P)
    BY <2>4, <2>6
  <2>10. par \in ScopeSet(Names) /\ par.parent = 1
    BY <2>2, <2>6
  <2>. QED  BY <2>7, <2>8, <2>9, <2>10
<1>7. Extended(Names, scopes, par, mid)
  <2>1. par.parent \in 1 .. Len(scopes)
    BY <1>2, <1>6
  <2>. QED  BY <1>2, <1>4, <1>6, <2>1, ScopeAdded
<1>8. /\ mid \in Seq(ScopeSet(Names)) /\ Rooted(mid) /\ Len(mid) = k + 1
      /\ mid[k + 1] = par /\ \A t \in 1 .. k : mid[t] = scopes[t]
      /\ FramesOf(mid, k + 1) = Append(FramesOf(scopes, 1), par.varMap)
  BY <1>4, <1>6, <1>7 DEF Extended
<1>9. body \in ScopeSet(Names) /\ body.parent = k + 1 /\ body.varMap = << >>
  <2>1. k + 1 \in Nat
    BY <1>5
  <2>. QED  BY <1>4, <2>1, EmptyScope
<1>10. tree = Append(mid, body)
  <2>1. PICK two : two = <<par, body>>
    OBVIOUS
  <2>2. two \in Seq(ScopeSet(Names)) /\ Len(two) = 2 /\ two[1] = par /\ two[2] = body
    BY <1>6, <1>9, <2>1
  <2>3. tree = scopes \o two
    BY <1>1, <1>4, <2>1
  <2>4. /\ tree \in Seq(ScopeSet(Names)) /\ Len(tree) = k + 2
        /\ \A i \in 1 .. k : tree[i] = scopes[i]
        /\ \A i \in 1 .. 2 : tree[k + i] = two[i]
    <3>0. scopes \in Seq(ScopeSet(Names)) /\ two \in Seq(ScopeSet(Names))
      BY <1>2, <2>2
    <3>1. tree \in Seq(ScopeSet(Names)) /\ Len(tree) = Len(scopes) + Len(two)
      BY <3>0, <2>3, ConcatIs
    <3>2. \A i \in 1 .. Len(scopes) : tree[i] = scopes[i]
      BY <3>0, <2>3, ConcatIs
    <3>3. \A i \in 1 .. Len(two) : tree[Len(scopes) + i] = two[i]
      BY <3>0, <2>3, ConcatIs
    <3>. QED  BY <1>4, <2>2, <3>1, <3>2, <3>3
  <2>5. /\ Append(mid, body) \in Seq(ScopeSet(Names)) /\ Len(Append(mid, body)) = k + 2
        /\ \A i \in 1 .. k + 1 : Append(mid, body)[i] = mid[i]
        /\ Append(mid, body)[k + 2] = body
    <3>1. Append(mid, body) \in Seq(ScopeSet(Names)) /\ Len(Append(mid, body)) = Len(mid) + 1
      BY <1>8, <1>9, AppendFact
    <3>2. \A i \in 1 .. Len(mid) : Append(mid, body)[i] = mid[i]
      BY <1>8, <1>9, AppendFact
    <3>3. Append(mid, body)[Len(mid) + 1] = body
      BY <1>8, <1>9, AppendFact
    <3>4. Len(mid) + 1 = k + 2
      BY <1>5, <1>8
    <3>. QED  BY <1>8, <3>1, <3>2, <3>3, <3>4
  <2>6. ASSUME NEW i \in 1 .. k + 2 PROVE tree[i] = Append(mid, body)[i]
    <3>1. i \in 1 .. k \/ i = k + 1 \/ i = k + 2
      BY <1>5
    <3>2. CASE i \in 1 .. k
      <4>1. i \in 1 .. k + 1
        BY <1>5, <3>2
      <4>. QED  BY <1>8, <2>4, <2>5, <3>2, <4>1
    <3>3. CASE i = k + 1
      <4>1. i \in 1 .. k + 1 /\ 1 \in 1 .. 2
        BY <1>5, <3>3
      <4>2. tree[k + 1] = two[1]
        BY <2>4, <4>1
      <4>. QED  BY <1>8, <2>2, <2>5, <3>3, <4>1, <4>2
    <3>4. CASE i = k + 2
      <4>1. 2 \in 1 .. 2
        OBVIOUS
      <4>2. tree[k + 2] = two[2]
        BY <2>4, <4>1
      <4>. QED  BY <2>2, <2>5, <3>4, <4>2
    <3>. QED  BY <3>1, <3>2, <3>3, <3>4
  <2>. QED  BY <2>4, <2>5, <2>6, SameSeq
<1>11. Extended(Names, mid, body, tree)
  <2>1. body.parent \in 1 .. Len(mid)
    BY <1>5, <1>8, <1>9
  <2>. QED  BY <1>8, <1>9, <1>10, <2>1, ScopeAdded
<1>12. /\ tree \in Seq(ScopeSet(Names)) /\ Rooted(tree) /\ Len(tree) = k + 2
       /\ tree[k + 2] = body /\ \A t \in 1 .. k + 1 : tree[t] = mid[t]
       /\ FramesOf(tree, k + 2) = Append(FramesOf(mid, k + 1), << >>)
  <2>1. Len(mid) + 1 = k + 2
    BY <1>5, <1>8
  <2>. QED  BY <1>8, <1>9, <1>11, <2>1 DEF Extended
<1>13. PICK new : new = [i \in 1 .. m |-> Variable(P[i], FALSE)]
  OBVIOUS
<1>14. new \in Seq(VariableSet(Names)) /\ Len(new) = m /\ \A i \in 1 .. m : new[i].name = P[i] /\ ~new[i].global
  <2>1. \A i \in 1 .. m : /\ Variable(P[i], FALSE) \in VariableSet(Names)
                           /\ Variable(P[i], FALSE).name = P[i] /\ ~Variable(P[i], FALSE).global
    BY <1>5 DEF Variable, VariableSet
  <2>2. new \in [1 .. m -> VariableSet(Names)]
    BY <1>13, <2>1
  <2>. QED  BY <1>5, <1>13, <2>1, <2>2, SeqOfFunction
<1>15. /\ vs \in Seq(VariableSet(Names)) /\ Len(vs) = n + m
       /\ \A i \in 1 .. n : vs[i] = variables[i]
       /\ \A i \in 1 .. m : vs[n + i] = new[i]
  <2>1. vs = variables \o new
    BY <1>1, <1>4, <1>5, <1>13
  <2>. QED  BY <1>2, <1>4, <1>14, <2>1, ConcatIs
<1>16. DOMAIN vs = 1 .. n + m /\ DOMAIN tree = 1 .. k + 2
  BY <1>12, <1>15, LenProperties
<1>17. \A t \in 1 .. k : tree[t] = scopes[t]
  <2>1. \A t \in 1 .. k : t \in 1 .. k + 1
    BY <1>5
  <2>. QED  BY <1>8, <1>12, <2>1
<1>18. ASSUME NEW s \in DOMAIN tree, NEW y \in DOMAIN tree[s].varMap
       PROVE  tree[s].varMap[y] \in DOMAIN vs /\ vs[tree[s].varMap[y]].name = y
  <2>1. s \in 1 .. k \/ s = k + 1 \/ s = k + 2
    BY <1>5, <1>16
  <2>2. CASE s \in 1 .. k
    <3>1. PICK i : i = scopes[s].varMap[y]
      OBVIOUS
    <3>2. y \in DOMAIN scopes[s].varMap /\ tree[s].varMap[y] = i
      BY <1>17, <2>2, <3>1
    <3>3. i \in 1 .. n /\ variables[i].name = y
      BY <1>2, <1>3, <1>4, <2>2, <3>1, <3>2 DEF Named
    <3>4. i \in 1 .. n + m
      BY <1>5, <3>3
    <3>. QED  BY <1>15, <1>16, <3>2, <3>3, <3>4
  <2>3. CASE s = k + 1
    <3>1. tree[s] = par
      <4>1. k + 1 \in 1 .. k + 1
        BY <1>5
      <4>. QED  BY <1>8, <1>12, <2>3, <4>1
    <3>2. PICK i \in 1 .. m : y = P[i]
      BY <1>5, <1>6, <3>1 DEF Range
    <3>3. tree[s].varMap[y] = n + i
      BY <1>6, <3>1, <3>2
    <3>4. n + i \in 1 .. n + m
      BY <1>5
    <3>. QED  BY <1>14, <1>15, <1>16, <3>2, <3>3, <3>4
  <2>4. CASE s = k + 2
    <3>1. DOMAIN << >> = {}
      OBVIOUS
    <3>. QED  BY <1>9, <1>12, <2>4, <3>1
  <2>. QED  BY <2>1, <2>2, <2>3, <2>4
<1>19. ASSUME NEW i \in DOMAIN vs
       PROVE  vs[i].global <=> \E y \in DOMAIN tree[1].varMap : tree[1].varMap[y] = i
  <2>1. 1 \in 1 .. k /\ tree[1] = scopes[1]
    BY <1>5, <1>17
  <2>2. \A y \in DOMAIN scopes[1].varMap : scopes[1].varMap[y] \in 1 .. n
    BY <1>4, <2>1, MapOf
  <2>3. CASE i \in 1 .. n
    BY <1>2, <1>3, <1>4, <1>15, <2>1, <2>3 DEF Named
  <2>4. CASE i \notin 1 .. n
    <3>1. i - n \in 1 .. m /\ i = n + (i - n)
      BY <1>5, <1>16, <2>4
    <3>2. vs[i] = new[i - n]
      BY <1>15, <3>1
    <3>3. ~vs[i].global
      BY <1>14, <3>1, <3>2
    <3>. QED  BY <2>1, <2>2, <2>4, <3>3
  <2>. QED  BY <2>3, <2>4
<1>20. Named(tree, vs)
  BY <1>18, <1>19 DEF Named
<1>21. ScopeInv'
  <2>1. k + 2 \in 1 .. Len(tree) /\ current' = k + 2
    BY <1>1, <1>4, <1>5, <1>12
  <2>. QED  BY <1>1, <1>2, <1>4, <1>12, <1>15, <1>20, <2>1 DEF ScopeInv
<1>22. PICK f, g : f = FramesOf(scopes, 1) /\ g = Append(Append(f, par.varMap), << >>)
  OBVIOUS
<1>23. 1 \in 1 .. Len(scopes)
  BY <1>2
<1>24. f \in Seq(Maps(Names)) /\ Len(f) = 1
  <2>1. Len(FramesOf(scopes, 1)) = 1
    BY <1>2, FramesOfRoot
  <2>2. FramesOf(scopes, 1) \in Seq(Maps(Names))
    BY <1>2, <1>23, FramesShape
  <2>. QED  BY <1>22, <2>1, <2>2
<1>25. par.varMap \in Maps(Names) /\ << >> \in Maps(Names)
  BY <1>6, EmptyMap DEF ScopeSet
<1>26. g = f \o <<par.varMap, << >>>>
  <2>1. PICK two, h, a : two = <<par.varMap, << >>>> /\ h = f \o two /\ a = Append(f, par.varMap)
    OBVIOUS
  <2>2. two \in Seq(Maps(Names)) /\ Len(two) = 2 /\ two[1] = par.varMap /\ two[2] = << >>
    BY <1>25, <2>1
  <2>3. /\ h \in Seq(Maps(Names)) /\ Len(h) = Len(f) + Len(two)
        /\ \A i \in 1 .. Len(f) : h[i] = f[i]
        /\ \A i \in 1 .. Len(two) : h[Len(f) + i] = two[i]
    <3>1. h = f \o two
      BY <2>1
    <3>2. f \in Seq(Maps(Names)) /\ two \in Seq(Maps(Names))
      BY <1>24, <2>2
    <3>. QED  BY <3>1, <3>2, ConcatIs
  <2>4. /\ a \in Seq(Maps(Names)) /\ Len(a) = Len(f) + 1
        /\ \A i \in 1 .. Len(f) : a[i] = f[i]
        /\ a[Len(f) + 1] = par.varMap
    <3>1. a = Append(f, par.varMap)
      BY <2>1
    <3>2. f \in Seq(Maps(Names)) /\ par.varMap \in Maps(Names)
      BY <1>24, <1>25
    <3>. QED  BY <3>1, <3>2, AppendFact
  <2>5. g = Append(a, << >>)
    BY <1>22, <2>1
  <2>6. /\ g \in Seq(Maps(Names)) /\ Len(g) = Len(a) + 1
        /\ \A i \in 1 .. Len(a) : g[i] = a[i]
        /\ g[Len(a) + 1] = << >>
    BY <1>25, <2>4, <2>5, AppendFact
  <2>7. Len(a) = 2 /\ Len(g) = 3 /\ Len(h) = 3
    BY <1>24, <2>2, <2>3, <2>4, <2>6
  <2>8. h[1] = f[1] /\ h[2] = par.varMap /\ h[3] = << >>
    <3>1. 1 \in 1 .. Len(f) /\ 1 \in 1 .. Len(two) /\ 2 \in 1 .. Len(two) /\ Len(f) + 1 = 2 /\ Len(f) + 2 = 3
      BY <1>24, <2>2
    <3>. QED  BY <2>2, <2>3, <3>1
  <2>9. g[1] = f[1] /\ g[2] = par.varMap /\ g[3] = << >>
    <3>1. 1 \in 1 .. Len(f) /\ 1 \in 1 .. Len(a) /\ 2 \in 1 .. Len(a) /\ Len(f) + 1 = 2 /\ Len(a) + 1 = 3
      BY <1>24, <2>7
    <3>. QED  BY <2>4, <2>6, <3>1
  <2>10. \A i \in 1 .. Len(g) : g[i] = h[i]
    <3>1. \A i \in 1 .. 3 : i = 1 \/ i = 2 \/ i = 3
      OBVIOUS
    <3>. QED  BY <2>7, <2>8, <2>9, <3>1
  <2>11. g = h
    BY <2>3, <2>6, <2>7, <2>10, SameSeq
  <2>. QED  BY <2>1, <2>11
<1>27. Frames = f /\ Frames' = g
  BY <1>1, <1>4, <1>8, <1>12, <1>22 DEF Frames
<1>28. Len(variables') = Len(variables) + Len(unit.params)
  BY <1>4, <1>15
<1>29. Frames' = Frames \o <<[x \in Range(unit.params) |->
                                Len(variables) + CHOOSE i \in DOMAIN unit.params : unit.params[i] = x], << >>>>
  BY <1>4, <1>6, <1>26, <1>27
<1>30. Len(Frames) = 1
  BY <1>24, <1>27
<1>31. Stack!OpenFunction
  <2>1. Stack!Range(unit.params) = Range(unit.params)
    BY DEF Stack!Range, Range
  <2>. QED  BY <1>1, <1>28, <1>29, <1>30, <2>1 DEF Stack!OpenFunction
<1>. QED  BY <1>21, <1>31

-----------------------------------------------------------------------------
(* The invariant, and the stack of the language *)

LEMMA StepKeeps ==
  ASSUME ScopeInv, ScopeNext
  PROVE  ScopeInv' /\ Stack!StackNext
<1>1. CASE OpenFunction
  BY <1>1, OpenFunctionSteps DEF Stack!StackNext
<1>2. CASE OpenBlock
  BY <1>2, OpenBlockSteps DEF Stack!StackNext
<1>3. CASE Close
  BY <1>3, CloseSteps DEF Stack!StackNext
<1>4. CASE \E d \in unit.decls : d.name \notin DOMAIN scopes[current].varMap /\ DeclareVariable(d.name)
  <2>1. PICK d \in unit.decls : d.name \notin DOMAIN scopes[current].varMap /\ DeclareVariable(d.name)
    BY <1>4
  <2>2. d.name \in Names
    BY DEF Names
  <2>3. ScopeInv' /\ Stack!Declare(d.name)
    BY <2>1, <2>2, DeclareSteps
  <2>. QED  BY <2>3 DEF Stack!StackNext
<1>. QED  BY <1>1, <1>2, <1>3, <1>4 DEF ScopeNext

LEMMA StutterKeeps ==
  ASSUME ScopeInv, UNCHANGED scopeVars
  PROVE  ScopeInv' /\ UNCHANGED Stack!stackVars
<1>1. unit' = unit /\ scopes' = scopes /\ current' = current /\ variables' = variables
  BY DEF scopeVars
<1>2. Names' = Names
  BY <1>1 DEF Names
<1>3. ScopeInv'
  BY <1>1, <1>2 DEF ScopeInv
<1>4. Frames' = Frames
  BY <1>1 DEF Frames
<1>. QED  BY <1>1, <1>3, <1>4 DEF Stack!stackVars

\* Whatever is declared and opened, the tree of scopes is in order, and every
\* name in it is one of a variable.
THEOREM ScopesInOrder == ScopeSpec => []ScopeInv
<1>1. ScopeInit => ScopeInv
  BY InitSteps
<1>2. ScopeInv /\ [ScopeNext]_scopeVars => ScopeInv'
  BY StepKeeps, StutterKeeps
<1>. QED  BY <1>1, <1>2, PTL DEF ScopeSpec

LEMMA InvTyped == ScopeInv => TypeOK
<1>. SUFFICES ASSUME ScopeInv PROVE TypeOK
  OBVIOUS
<1>1. DOMAIN scopes = 1 .. Len(scopes) /\ current \in DOMAIN scopes
  BY DEF ScopeInv, Rooted
<1>2. \A s \in DOMAIN scopes : \A x \in DOMAIN scopes[s].varMap : x \in Names
  BY <1>1, MapOf
<1>. QED  BY <1>1, <1>2 DEF ScopeInv, Rooted, Named, TypeOK

\* CurrentScope (ASTBuilder) never leaves the tree, parents are older than
\* their scopes, and exactly the variables of the outermost scope are global.
THEOREM ScopesTyped == ScopeSpec => []TypeOK
  BY ScopesInOrder, InvTyped, PTL

\* Seen from CurrentScope, the tree is the stack of frames of the language: for
\* every source file, setParent and getParent open and close frames, and
\* insertVariable declares in the innermost one.
THEOREM ScopesAreAStack == ScopeSpec => ImplementsNameStack
<1>1. ScopeInit => Stack!StackInit
  BY InitSteps
<1>2. ScopeInv /\ [ScopeNext]_scopeVars => [Stack!StackNext]_(Stack!stackVars)
  BY StepKeeps, StutterKeeps
<1>. QED  BY <1>1, <1>2, ScopesInOrder, PTL DEF ScopeSpec, ImplementsNameStack, Stack!StackSpec

-----------------------------------------------------------------------------
(* What a search finds *)

\* The innermost of the frames that have a name is where it is looked up.
LEMMA LookupIs ==
  ASSUME NEW S, NEW fs \in Seq(S), NEW x, NEW k \in 1 .. Len(fs), x \in DOMAIN fs[k],
         \A j \in 1 .. Len(fs) : x \in DOMAIN fs[j] => j <= k
  PROVE  Stack!InScope(fs, x) /\ Stack!Lookup(fs, x) = fs[k][x]
<1>1. DOMAIN fs = 1 .. Len(fs) /\ Len(fs) \in Nat
  BY LenProperties
<1>2. PICK having : having = {j \in DOMAIN fs : x \in DOMAIN fs[j]}
  OBVIOUS
<1>3. k \in having /\ \A j \in having : j <= k /\ j \in Nat
  BY <1>1, <1>2
<1>4. PICK c : c = CHOOSE i \in having : \A j \in having : j <= i
  OBVIOUS
<1>5. c \in having /\ \A j \in having : j <= c
  <2>1. \E i \in having : \A j \in having : j <= i
    BY <1>3
  <2>. QED  BY <1>4, <2>1
<1>6. c = k
  <2>1. c \in Nat /\ k \in Nat /\ c <= k /\ k <= c
    BY <1>3, <1>5
  <2>. QED  BY <2>1
<1>7. Stack!Lookup(fs, x) = fs[c][x]
  BY <1>2, <1>4 DEF Stack!Lookup
<1>8. Stack!InScope(fs, x)
  BY <1>1 DEF Stack!InScope
<1>. QED  BY <1>6, <1>7, <1>8

\* A frame more: its own names come first, the others are as before.
OneFrameMore(fs, m, gs, x) ==
  /\ x \in DOMAIN m => Stack!InScope(gs, x) /\ Stack!Lookup(gs, x) = m[x]
  /\ x \notin DOMAIN m /\ Stack!InScope(fs, x) =>
       Stack!InScope(gs, x) /\ Stack!Lookup(gs, x) = Stack!Lookup(fs, x)
  /\ x \notin DOMAIN m /\ ~Stack!InScope(fs, x) => ~Stack!InScope(gs, x)

LEMMA LookupAppend ==
  ASSUME NEW S, NEW fs \in Seq(S), NEW m \in S, NEW x, NEW gs, gs = Append(fs, m)
  PROVE  OneFrameMore(fs, m, gs, x)
<1>1. /\ gs \in Seq(S) /\ Len(gs) = Len(fs) + 1 /\ Len(fs) \in Nat
      /\ \A i \in 1 .. Len(fs) : gs[i] = fs[i]
      /\ gs[Len(fs) + 1] = m
  BY AppendFact, LenProperties
<1>2. DOMAIN gs = 1 .. Len(gs) /\ DOMAIN fs = 1 .. Len(fs)
  BY <1>1, LenProperties
<1>3. \A i \in 1 .. Len(gs) : i = Len(gs) \/ i \in 1 .. Len(fs)
  BY <1>1
<1>4. \A i \in 1 .. Len(fs) : i \in 1 .. Len(gs)
  BY <1>1
<1>5. ASSUME x \in DOMAIN m
      PROVE  Stack!InScope(gs, x) /\ Stack!Lookup(gs, x) = m[x]
  <2>1. Len(gs) \in 1 .. Len(gs) /\ gs[Len(gs)] = m
    BY <1>1
  <2>2. \A j \in 1 .. Len(gs) : x \in DOMAIN gs[j] => j <= Len(gs)
    BY <1>1
  <2>3. x \in DOMAIN gs[Len(gs)]
    BY <1>5, <2>1
  <2>4. Stack!InScope(gs, x) /\ Stack!Lookup(gs, x) = gs[Len(gs)][x]
    BY <1>1, <2>1, <2>2, <2>3, LookupIs
  <2>. QED  BY <2>1, <2>4
<1>6. ASSUME x \notin DOMAIN m, Stack!InScope(fs, x)
      PROVE  Stack!InScope(gs, x) /\ Stack!Lookup(gs, x) = Stack!Lookup(fs, x)
  <2>1. PICK T : T = {Len(fs) - j : j \in {i \in 1 .. Len(fs) : x \in DOMAIN fs[i]}}
    OBVIOUS
  <2>2. T \subseteq Nat /\ T # {}
    <3>1. \A j \in 1 .. Len(fs) : Len(fs) - j \in Nat
      BY <1>1
    <3>2. \E i \in 1 .. Len(fs) : x \in DOMAIN fs[i]
      BY <1>2, <1>6 DEF Stack!InScope
    <3>. QED  BY <2>1, <3>1, <3>2
  <2>3. PICK d \in T : \A e \in T : d <= e
    BY <2>2, LeastNat
  <2>4. PICK k \in 1 .. Len(fs) : x \in DOMAIN fs[k] /\ d = Len(fs) - k
    BY <2>1
  <2>5. ASSUME NEW j \in 1 .. Len(fs), x \in DOMAIN fs[j] PROVE j <= k
    <3>1. Len(fs) - j \in T
      BY <2>1, <2>5
    <3>2. Len(fs) - k <= Len(fs) - j
      BY <2>3, <2>4, <3>1
    <3>. QED  BY <1>1, <3>2
  <2>6. Stack!Lookup(fs, x) = fs[k][x]
    BY <2>4, <2>5, LookupIs
  <2>7. k \in 1 .. Len(gs) /\ gs[k] = fs[k]
    BY <1>1, <1>4
  <2>8. ASSUME NEW j \in 1 .. Len(gs), x \in DOMAIN gs[j] PROVE j <= k
    <3>1. j # Len(gs)
      BY <1>1, <1>6, <2>8
    <3>2. j \in 1 .. Len(fs)
      BY <1>3, <3>1
    <3>3. x \in DOMAIN fs[j]
      BY <1>1, <2>8, <3>2
    <3>. QED  BY <2>5, <3>2, <3>3
  <2>9. Stack!InScope(gs, x) /\ Stack!Lookup(gs, x) = gs[k][x]
    <3>1. x \in DOMAIN gs[k]
      BY <2>4, <2>7
    <3>. QED  BY <1>1, <2>7, <2>8, <3>1, LookupIs
  <2>. QED  BY <2>6, <2>7, <2>9
<1>7. ASSUME x \notin DOMAIN m, ~Stack!InScope(fs, x)
      PROVE  ~Stack!InScope(gs, x)
  <2>1. ASSUME NEW j \in 1 .. Len(gs) PROVE x \notin DOMAIN gs[j]
    <3>1. CASE j = Len(gs)
      BY <1>1, <1>7, <3>1
    <3>2. CASE j \in 1 .. Len(fs)
      BY <1>1, <1>2, <1>7, <3>2 DEF Stack!InScope
    <3>. QED  BY <1>3, <3>1, <3>2
  <2>. QED  BY <1>2, <2>1 DEF Stack!InScope
<1>. QED  BY <1>5, <1>6, <1>7 DEF OneFrameMore

\* What the language finds of a name, from scope s.
Found(s, x) ==
  IF s = 0 THEN 0
  ELSE IF Stack!InScope(FramesOf(scopes, s), x) THEN Stack!Lookup(FramesOf(scopes, s), x)
  ELSE 0

\* It is what is in the scope, and else what is found from its parent.
LEMMA FoundAbove ==
  ASSUME ScopeInv, NEW s \in 1 .. Len(scopes), NEW x
  PROVE  Found(s, x) = IF x \in DOMAIN scopes[s].varMap THEN scopes[s].varMap[x]
                       ELSE Found(scopes[s].parent, x)
<1>1. scopes \in Seq(ScopeSet(Names)) /\ Rooted(scopes) /\ Len(scopes) \in Nat
  BY DEF ScopeInv, Rooted
<1>2. PICK m, u : m = scopes[s].varMap /\ u = scopes[s].parent
  OBVIOUS
<1>3. m \in Maps(Names)
  BY <1>2, MapOf
<1>4. s # 0
  OBVIOUS
<1>5. PICK gs : gs = FramesOf(scopes, s)
  OBVIOUS
<1>6. CASE s = 1
  <2>1. u = 0 /\ 1 \in 1 .. Len(scopes)
    BY <1>1, <1>2, <1>6 DEF Rooted
  <2>2. gs = <<m>>
    BY <1>1, <1>2, <1>5, <1>6, FramesOfRoot
  <2>3. gs \in Seq(Maps(Names)) /\ Len(gs) = 1 /\ gs[1] = m /\ DOMAIN gs = 1 .. 1
    BY <1>3, <2>2
  <2>4. x \in DOMAIN m => Stack!InScope(gs, x) /\ Stack!Lookup(gs, x) = m[x]
    <3>1. ASSUME x \in DOMAIN m PROVE Stack!InScope(gs, x) /\ Stack!Lookup(gs, x) = m[x]
      <4>1. 1 \in 1 .. Len(gs) /\ \A j \in 1 .. Len(gs) : j <= 1
        BY <2>3
      <4>2. x \in DOMAIN gs[1]
        BY <2>3, <3>1
      <4>3. Stack!InScope(gs, x) /\ Stack!Lookup(gs, x) = gs[1][x]
        BY <2>3, <4>1, <4>2, LookupIs
      <4>. QED  BY <2>3, <4>3
    <3>. QED  BY <3>1
  <2>5. x \notin DOMAIN m => ~Stack!InScope(gs, x)
    BY <2>3 DEF Stack!InScope
  <2>. QED  BY <1>2, <1>4, <1>5, <2>1, <2>4, <2>5 DEF Found
<1>7. CASE s # 1
  <2>1. s \in 2 .. Len(scopes)
    BY <1>1, <1>7
  <2>2. PICK fs : fs = FramesOf(scopes, u)
    OBVIOUS
  <2>3. u \in 1 .. Len(scopes) /\ gs = Append(fs, m)
    BY <1>1, <1>2, <1>5, <2>1, <2>2, FramesAppend
  <2>4. fs \in Seq(Maps(Names))
    BY <1>1, <2>2, <2>3, FramesShape
  <2>5. /\ x \in DOMAIN m => Stack!InScope(gs, x) /\ Stack!Lookup(gs, x) = m[x]
        /\ x \notin DOMAIN m /\ Stack!InScope(fs, x) =>
             Stack!InScope(gs, x) /\ Stack!Lookup(gs, x) = Stack!Lookup(fs, x)
        /\ x \notin DOMAIN m /\ ~Stack!InScope(fs, x) => ~Stack!InScope(gs, x)
    <3>1. OneFrameMore(fs, m, gs, x)
      BY <1>3, <2>3, <2>4, LookupAppend
    <3>. QED  BY <3>1 DEF OneFrameMore
  <2>6. u # 0
    BY <2>3
  <2>. QED  BY <1>2, <1>4, <1>5, <2>2, <2>5, <2>6 DEF Found
<1>. QED  BY <1>6, <1>7

LEMMA GetVariableIs ==
  ASSUME ScopeInv, NEW s \in 1 .. Len(scopes), NEW x
  PROVE  GetVariable(s, x) = Found(s, x)
<1>. DEFINE Def(find) == find = [t \in 0 .. s |-> IF t = 0 THEN 0
                                   ELSE IF x \in DOMAIN scopes[t].varMap THEN scopes[t].varMap[x]
                                   ELSE find[scopes[t].parent]]
<1>1. /\ s \in Nat /\ s # 0
      /\ \A t \in 1 .. s : t \in 1 .. Len(scopes) /\ scopes[t].parent \in 0 .. s /\ scopes[t].parent < t
  <2>1. Rooted(scopes)
    BY DEF ScopeInv
  <2>2. Len(scopes) \in Nat
    BY <2>1 DEF Rooted
  <2>3. \A t \in 1 .. s : t \in 1 .. Len(scopes)
    BY <2>2
  <2>4. \A t \in 1 .. s : scopes[t].parent \in 0 .. t - 1
    BY <2>1, <2>3 DEF Rooted
  <2>. QED  BY <2>2, <2>3, <2>4
<1>2. \A t \in 0 .. s : t # 0 => t \in 1 .. s
  BY <1>1
<1>3. PICK h : h = [t \in 0 .. s |-> Found(t, x)]
  OBVIOUS
<1>4. Def(h)
  <2>1. ASSUME NEW t \in 0 .. s
        PROVE  Found(t, x) = IF t = 0 THEN 0
                             ELSE IF x \in DOMAIN scopes[t].varMap THEN scopes[t].varMap[x]
                             ELSE h[scopes[t].parent]
    <3>1. CASE t = 0
      BY <3>1 DEF Found
    <3>2. CASE t # 0
      <4>1. t \in 1 .. Len(scopes) /\ scopes[t].parent \in 0 .. s
        BY <1>1, <1>2, <3>2
      <4>2. h[scopes[t].parent] = Found(scopes[t].parent, x)
        BY <1>3, <4>1
      <4>. QED  BY <3>2, <4>1, <4>2, FoundAbove
    <3>. QED  BY <3>1, <3>2
  <2>2. [t \in 0 .. s |-> Found(t, x)] =
          [t \in 0 .. s |-> IF t = 0 THEN 0
                            ELSE IF x \in DOMAIN scopes[t].varMap THEN scopes[t].varMap[x]
                            ELSE h[scopes[t].parent]]
    BY <2>1
  <2>. QED  BY <1>3, <2>2
<1>5. PICK f : f = CHOOSE find : Def(find)
  OBVIOUS
<1>6. Def(f)
  <2>. HIDE DEF Def
  <2>. QED  BY <1>4, <1>5
<1>7. GetVariable(s, x) = f[s]
  BY <1>5 DEF GetVariable
<1>8. \A t \in 0 .. s : f[t] = h[t]
  <2>1. PICK Bad : Bad = {t \in 0 .. s : f[t] # h[t]}
    OBVIOUS
  <2>2. ASSUME Bad # {} PROVE FALSE
    <3>1. Bad \subseteq Nat
      BY <2>1
    <3>2. PICK t \in Bad : \A u \in Bad : t <= u
      BY <2>2, <3>1, LeastNat
    <3>3. t \in 0 .. s /\ f[t] # h[t]
      BY <2>1, <3>2
    <3>4. f[t] = IF t = 0 THEN 0
                 ELSE IF x \in DOMAIN scopes[t].varMap THEN scopes[t].varMap[x]
                 ELSE f[scopes[t].parent]
      BY <1>6, <3>3
    <3>5. h[t] = IF t = 0 THEN 0
                 ELSE IF x \in DOMAIN scopes[t].varMap THEN scopes[t].varMap[x]
                 ELSE h[scopes[t].parent]
      BY <1>4, <3>3
    <3>6. t # 0 /\ f[scopes[t].parent] # h[scopes[t].parent]
      <4>. HIDE DEF Def
      <4>. QED  BY <3>3, <3>4, <3>5
    <3>7. scopes[t].parent \in 0 .. s /\ scopes[t].parent < t /\ t \in Nat
      BY <1>1, <1>2, <3>3, <3>6
    <3>8. scopes[t].parent \in Bad
      BY <2>1, <3>6, <3>7
    <3>9. t <= scopes[t].parent
      BY <3>2, <3>8
    <3>. QED  BY <3>7, <3>9
  <2>. QED  BY <2>1, <2>2
<1>9. s \in 0 .. s
  BY <1>1
<1>. QED  BY <1>3, <1>7, <1>8, <1>9

LEMMA InvFinds == ScopeInv => FindsInnermost
<1>. SUFFICES ASSUME ScopeInv, NEW x \in Names
     PROVE  GetVariable(current, x) =
              IF Stack!InScope(Frames, x) THEN Stack!Lookup(Frames, x) ELSE 0
  BY DEF FindsInnermost
<1>1. current \in 1 .. Len(scopes) /\ current # 0
  BY DEF ScopeInv
<1>2. GetVariable(current, x) = Found(current, x)
  BY <1>1, GetVariableIs
<1>. QED  BY <1>1, <1>2 DEF Found, Frames

\* In every source file, Scope::getVariable from CurrentScope gives the variable
\* of the innermost scope that has the name, and none if no scope around has it.
THEOREM SearchFindsInnermost == ScopeSpec => []FindsInnermost
  BY ScopesInOrder, InvFinds, PTL
=============================================================================
