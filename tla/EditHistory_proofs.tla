--------------------------- MODULE EditHistory_proofs ---------------------------
(***************************************************************************)
(* Proofs about EditHistory, for any compositions, sources, soft limits    *)
(* and prices of commands: the invariant says how the commands of a        *)
(* composition lead from one value to the next and that the leases count   *)
(* what is shown and what the branches retain.  First threads of commands, *)
(* then the leases, then every action, at last the theorems.               *)
(***************************************************************************)
EXTENDS EditHistory, FiniteSetTheorems, WellFoundedInduction, TLAPS

-----------------------------------------------------------------------------
(* The chronology of a composition and the leases of sources.              *)

\* What a layer shows, and the versions of pixels and selections.
Shown == Sources \cup {NoSource}
Versions == 0..MaxCommands

\* A command has the sides of its kind, and those of a transition differ.
CommandFits(c) ==
    /\ c.kind \in Kinds /\ c.scope \in Scopes
    /\ c.kind = "layer" => c.before \in Shown /\ c.after \in Shown /\ c.before # c.after
    /\ c.kind = "paint" => c.source \in Sources /\ c.before \in Versions /\ c.after \in Versions
    /\ c.kind = "select" => c.before \in Versions /\ c.after \in Versions /\ c.before # c.after

\* The branches of one composition, with numbers up to n: every number is of
\* one command, and what is undone is newer than what is done.
Chronicle(s, done, undone, n) ==
    /\ IsFiniteSet(done) /\ IsFiniteSet(undone)
    /\ \A c \in done \cup undone : CommandFits(c) /\ c.scope = s /\ c.id \in 1..n
    /\ \A c, d \in done \cup undone : c.id = d.id => c = d
    /\ \A c \in done, d \in undone : c.id < d.id

\* Commands that are done lead up to a value, and commands that are undone
\* lead away from it, one from where the other ends.
Behind(done, value) ==
    /\ \A c \in done : (\A d \in done : d.id <= c.id) => c.after = value
    /\ \A c, d \in done : Neighbours(done, c, d) => c.after = d.before
Ahead(undone, value) ==
    /\ \A c \in undone : (\A d \in undone : c.id <= d.id) => c.before = value
    /\ \A c, d \in undone : Neighbours(undone, c, d) => c.after = d.before
Threaded(done, undone, value) == Behind(done, value) /\ Ahead(undone, value)

\* A stroke was painted, and is undone and redone, while the layer shows its
\* source: it is the side of the next transition, or what the layer shows now.
StrokesBehind(done, value) ==
    \A c \in OfKind(done, "paint") : LET layers == OfKind(done, "layer") IN
        /\ (\A d \in layers : d.id <= c.id) => c.source = value
        /\ \A d \in layers : Neighbours(layers \cup {c}, c, d) => d.before = c.source
StrokesAhead(undone, value) ==
    \A c \in OfKind(undone, "paint") : LET layers == OfKind(undone, "layer") IN
        /\ (\A d \in layers : c.id <= d.id) => c.source = value
        /\ \A d \in layers : Neighbours(layers \cup {c}, d, c) => d.after = c.source

LayersFit(done, undone, value) ==
    /\ Threaded(OfKind(done, "layer"), OfKind(undone, "layer"), value)
    /\ StrokesBehind(done, value) /\ StrokesAhead(undone, value)
SelectionsFit(done, undone, value) ==
    Threaded(OfKind(done, "select"), OfKind(undone, "select"), value)
StrokesFit(done, undone, x, value) ==
    Threaded(About(done, "paint", x), About(undone, "paint", x), value)

\* The parts of the invariant.
BranchesFit ==
    /\ DOMAIN undo = Scopes /\ DOMAIN redo = Scopes
    /\ layer \in [Scopes -> Shown] /\ selection \in [Scopes -> Versions]
    /\ pixels \in [Sources -> Versions] /\ recorded \in 0..MaxCommands
    /\ \A s \in Scopes : Chronicle(s, undo[s], redo[s], recorded)
HistoriesFit ==
    /\ \A s \in Scopes : /\ LayersFit(undo[s], redo[s], layer[s])
                         /\ SelectionsFit(undo[s], redo[s], selection[s])
    /\ painters \in [Sources -> SUBSET Scopes]
    /\ \A s \in Scopes : \A c \in EntriesOf(s) : c.kind = "paint" => s \in painters[c.source]
    /\ \A s \in Scopes, x \in Sources :
          painters[x] = {s} => StrokesFit(undo[s], redo[s], x, pixels[x])
Leased ==
    /\ leases \in [Sources -> [live : Nat, session : Nat, history : Nat]]
    /\ LeasesAreExact
    /\ \A x \in Sources : x \in payload <=> Total(leases, x) > 0
    /\ scopes \subseteq Scopes /\ payload \subseteq spent /\ spent \subseteq Sources

HistoryInv == BranchesFit /\ HistoriesFit /\ Leased

-----------------------------------------------------------------------------
(* The newest and the oldest of some commands, and threads of commands.    *)

\* A set of numbers that is not empty has a least one.
LEMMA NumbersHaveLeast ==
    ASSUME NEW N \in SUBSET Nat, N # {}
    PROVE  \E k \in N : \A m \in N : k <= m
<1>2. PICK R : R = OpToRel(<, Nat)
  OBVIOUS
<1>3. IsWellFoundedOn(R, Nat) /\ R = {p \in Nat \X Nat : p[1] < p[2]}
  BY <1>2, NatLessThanWellFounded DEF OpToRel
<1>4. PICK k \in N : \A m \in N : ~(<<m, k>> \in R)
  BY <1>3, WFMin, Zenon
<1>5. ASSUME NEW m \in N PROVE k <= m
  <2>1. m \in Nat /\ k \in Nat
    OBVIOUS
  <2>2. m < k => <<m, k>> \in R
    BY <1>3, <2>1
  <2>. QED  BY <1>4, <2>1, <2>2
<1>. QED  BY <1>5

\* Commands have numbers up to n, each its own.
NumberedTo(cs, n) ==
    /\ n \in Nat /\ \A c \in cs : c.id \in 1..n
    /\ \A c, d \in cs : c.id = d.id => c = d

\* Commands have an oldest one.
LEMMA OldestOf ==
    ASSUME NEW cs, NEW n, NumberedTo(cs, n), cs # {}
    PROVE  Oldest(cs) \in cs /\ \A d \in cs : Oldest(cs).id <= d.id
<1>1. PICK N : N = {c.id : c \in cs}
  OBVIOUS
<1>2. N \in SUBSET Nat /\ N # {}
  BY <1>1 DEF NumberedTo
<1>3. PICK k \in N : \A m \in N : k <= m
  BY <1>2, NumbersHaveLeast
<1>4. \E c \in cs : \A d \in cs : c.id <= d.id
  BY <1>1, <1>3
<1>. QED  BY <1>4, Zenon DEF Oldest

\* And a newest one.
LEMMA NewestOf ==
    ASSUME NEW cs, NEW n, NumberedTo(cs, n), cs # {}
    PROVE  Newest(cs) \in cs /\ \A d \in cs : d.id <= Newest(cs).id
<1>1. PICK N : N = {n - c.id : c \in cs}
  OBVIOUS
<1>2. N \in SUBSET Nat /\ N # {}
  BY <1>1 DEF NumberedTo
<1>3. PICK k \in N : \A m \in N : k <= m
  BY <1>2, NumbersHaveLeast
<1>4. PICK c \in cs : k = n - c.id
  BY <1>1
<1>5. ASSUME NEW d \in cs PROVE d.id <= c.id
  <2>1. k <= n - d.id
    BY <1>1, <1>3
  <2>. QED  BY <1>4, <2>1 DEF NumberedTo
<1>6. \E e \in cs : \A d \in cs : d.id <= e.id
  BY <1>5
<1>. QED  BY <1>6, Zenon DEF Newest

\* A command that is newer than all that are done carries them on.
LEMMA BehindGrows ==
    ASSUME NEW K, NEW n, NEW c, NEW v, NumberedTo(K \cup {c}, n),
           \A d \in K : d.id < c.id, Behind(K, v), c.before = v
    PROVE  Behind(K \cup {c}, c.after)
<1>1. ASSUME NEW d \in K \cup {c}, \A e \in K \cup {c} : e.id <= d.id
      PROVE  d.after = c.after
  BY <1>1 DEF NumberedTo
<1>2. ASSUME NEW d \in K \cup {c}, NEW e \in K \cup {c}, Neighbours(K \cup {c}, d, e)
      PROVE  d.after = e.before
  <2>1. d \in K /\ d.id < e.id /\ \A k \in K : k.id <= d.id \/ e.id <= k.id
    BY <1>2 DEF Neighbours, NumberedTo
  <2>2. CASE e = c
    <3>1. \A k \in K : k.id <= d.id
      BY <2>1, <2>2 DEF NumberedTo
    <3>. QED  BY <2>1, <2>2, <3>1 DEF Behind
  <2>3. CASE e \in K
    BY <2>1, <2>3 DEF Behind, Neighbours
  <2>. QED  BY <2>2, <2>3
<1>. QED  BY <1>1, <1>2 DEF Behind

\* The newest command that is done ends where the thread does; without it the
\* thread ends where it began.
LEMMA BehindShrinks ==
    ASSUME NEW K, NEW n, NumberedTo(K, n), NEW v, Behind(K, v),
           NEW c \in K, \A d \in K : d.id <= c.id
    PROVE  c.after = v /\ Behind(K \ {c}, c.before)
<1>1. c.after = v
  BY DEF Behind
<1>2. ASSUME NEW d \in K \ {c}, \A e \in K \ {c} : e.id <= d.id
      PROVE  d.after = c.before
  <2>1. d.id < c.id
    BY DEF NumberedTo
  <2>2. Neighbours(K, d, c)
    BY <1>2, <2>1 DEF NumberedTo, Neighbours
  <2>. QED  BY <2>2 DEF Behind
<1>3. ASSUME NEW d \in K \ {c}, NEW e \in K \ {c}, Neighbours(K \ {c}, d, e)
      PROVE  d.after = e.before
  <2>1. Neighbours(K, d, e)
    BY <1>3 DEF Neighbours, NumberedTo
  <2>. QED  BY <2>1 DEF Behind
<1>. QED  BY <1>1, <1>2, <1>3 DEF Behind

\* When the oldest leave, the rest is still threaded.
LEMMA BehindCut ==
    ASSUME NEW K, NEW n, NumberedTo(K, n), NEW v, Behind(K, v), NEW J \in SUBSET K,
           \A c \in J, d \in K : c.id <= d.id => d \in J
    PROVE  Behind(J, v)
<1>1. ASSUME NEW c \in J, \A d \in J : d.id <= c.id PROVE c.after = v
  <2>1. \A d \in K : d.id <= c.id
    BY <1>1 DEF NumberedTo
  <2>. QED  BY <2>1 DEF Behind
<1>2. ASSUME NEW d \in J, NEW e \in J, Neighbours(J, d, e) PROVE d.after = e.before
  <2>1. Neighbours(K, d, e)
    BY <1>2 DEF Neighbours, NumberedTo
  <2>. QED  BY <2>1 DEF Behind
<1>. QED  BY <1>1, <1>2 DEF Behind

\* A command that is older than all that are undone comes before them.
LEMMA AheadGrows ==
    ASSUME NEW K, NEW n, NEW c, NEW v, NumberedTo(K \cup {c}, n),
           \A d \in K : c.id < d.id, Ahead(K, v), c.after = v
    PROVE  Ahead(K \cup {c}, c.before)
<1>1. ASSUME NEW d \in K \cup {c}, \A e \in K \cup {c} : d.id <= e.id
      PROVE  d.before = c.before
  BY <1>1 DEF NumberedTo
<1>2. ASSUME NEW d \in K \cup {c}, NEW e \in K \cup {c}, Neighbours(K \cup {c}, d, e)
      PROVE  d.after = e.before
  <2>1. e \in K /\ d.id < e.id /\ \A k \in K : k.id <= d.id \/ e.id <= k.id
    BY <1>2 DEF Neighbours, NumberedTo
  <2>2. CASE d = c
    <3>1. \A k \in K : e.id <= k.id
      BY <2>1, <2>2 DEF NumberedTo
    <3>. QED  BY <2>1, <2>2, <3>1 DEF Ahead
  <2>3. CASE d \in K
    BY <2>1, <2>3 DEF Ahead, Neighbours
  <2>. QED  BY <2>2, <2>3
<1>. QED  BY <1>1, <1>2 DEF Ahead

\* The oldest command that is undone begins where the thread does.
LEMMA AheadShrinks ==
    ASSUME NEW K, NEW n, NumberedTo(K, n), NEW v, Ahead(K, v),
           NEW c \in K, \A d \in K : c.id <= d.id
    PROVE  c.before = v /\ Ahead(K \ {c}, c.after)
<1>1. c.before = v
  BY DEF Ahead
<1>2. ASSUME NEW d \in K \ {c}, \A e \in K \ {c} : d.id <= e.id
      PROVE  d.before = c.after
  <2>1. c.id < d.id
    BY DEF NumberedTo
  <2>2. Neighbours(K, c, d)
    BY <1>2, <2>1 DEF NumberedTo, Neighbours
  <2>. QED  BY <2>2 DEF Ahead
<1>3. ASSUME NEW d \in K \ {c}, NEW e \in K \ {c}, Neighbours(K \ {c}, d, e)
      PROVE  d.after = e.before
  <2>1. Neighbours(K, d, e)
    BY <1>3 DEF Neighbours, NumberedTo
  <2>. QED  BY <2>1 DEF Ahead
<1>. QED  BY <1>1, <1>2, <1>3 DEF Ahead

\* Nothing that is done, or undone, is threaded to every value.
LEMMA NothingThreaded ==
    ASSUME NEW v
    PROVE  Behind({}, v) /\ Ahead({}, v)
BY DEF Behind, Ahead

\* Two branches that meet form one path.
LEMMA BranchesMeet ==
    ASSUME NEW K, NEW U, NEW n, NumberedTo(K \cup U, n), NEW v, Threaded(K, U, v),
           \A c \in K, d \in U : c.id < d.id
    PROVE  \A c, d \in K \cup U : Neighbours(K \cup U, c, d) => c.after = d.before
<1> SUFFICES ASSUME NEW c \in K \cup U, NEW d \in K \cup U, Neighbours(K \cup U, c, d)
             PROVE  c.after = d.before
  OBVIOUS
<1>1. c.id < d.id /\ \A e \in K \cup U : e.id <= c.id \/ d.id <= e.id
  BY DEF Neighbours
<1>2. Behind(K, v) /\ Ahead(U, v)
  BY DEF Threaded
<1>3. CASE c \in K /\ d \in K
  BY <1>1, <1>2, <1>3 DEF Behind, Neighbours
<1>4. CASE c \in U /\ d \in U
  BY <1>1, <1>2, <1>4 DEF Ahead, Neighbours
<1>5. CASE c \in K /\ d \in U
  <2>1. \A e \in K : e.id <= c.id
    BY <1>1, <1>5 DEF NumberedTo
  <2>2. \A e \in U : d.id <= e.id
    BY <1>1, <1>5 DEF NumberedTo
  <2>. QED  BY <1>2, <1>5, <2>1, <2>2 DEF Behind, Ahead
<1>6. ~(c \in U /\ d \in K)
  BY <1>1 DEF NumberedTo
<1>. QED  BY <1>3, <1>4, <1>5, <1>6

\* A new stroke is painted on what the layer shows.
LEMMA StrokeBehind ==
    ASSUME NEW K, NEW n, NEW c, NEW v, NumberedTo(K \cup {c}, n), \A d \in K : d.id < c.id,
           StrokesBehind(K, v), c.kind = "paint", c.source = v
    PROVE  StrokesBehind(K \cup {c}, v)
<1> DEFINE layers == OfKind(K, "layer")
<1>1. OfKind(K \cup {c}, "layer") = layers /\ OfKind(K \cup {c}, "paint") = OfKind(K, "paint") \cup {c}
  BY DEF OfKind
<1>2. layers \subseteq K
  BY DEF OfKind
<1>3. \A d \in layers : ~Neighbours(layers \cup {c}, c, d)
  BY <1>2 DEF NumberedTo, Neighbours
<1> HIDE DEF layers
<1>4. \A d \in OfKind(K, "paint") :
         /\ (\A e \in layers : e.id <= d.id) => d.source = v
         /\ \A e \in layers : Neighbours(layers \cup {d}, d, e) => e.before = d.source
  BY DEF StrokesBehind, layers
<1>. QED  BY <1>1, <1>3, <1>4, Zenon DEF StrokesBehind

\* A new transition begins with what the strokes before it were painted on.
LEMMA TransitionBehind ==
    ASSUME NEW K, NEW n, NEW c, NEW v, NumberedTo(K \cup {c}, n), \A d \in K : d.id < c.id,
           StrokesBehind(K, v), c.kind = "layer", c.before = v
    PROVE  StrokesBehind(K \cup {c}, c.after)
<1>1. PICK layers : layers = OfKind(K, "layer")
  OBVIOUS
<1>2. OfKind(K \cup {c}, "layer") = layers \cup {c} /\ OfKind(K \cup {c}, "paint") = OfKind(K, "paint")
  BY <1>1 DEF OfKind
<1>3. layers \subseteq K /\ OfKind(K, "paint") \subseteq K
  BY <1>1 DEF OfKind
<1>4. \A d \in OfKind(K, "paint") :
         /\ (\A e \in layers : e.id <= d.id) => d.source = v
         /\ \A e \in layers : Neighbours(layers \cup {d}, d, e) => e.before = d.source
  BY <1>1, Zenon DEF StrokesBehind
<1>5. ASSUME NEW d \in OfKind(K, "paint") PROVE ~(\A e \in layers \cup {c} : e.id <= d.id)
  BY <1>3 DEF NumberedTo
<1>6. ASSUME NEW d \in OfKind(K, "paint"), NEW e \in layers \cup {c},
             Neighbours((layers \cup {c}) \cup {d}, d, e)
      PROVE  e.before = d.source
  <2>1. d.id < e.id /\ \A k \in layers : k.id <= d.id \/ e.id <= k.id
    BY <1>6 DEF Neighbours
  <2>2. CASE e = c
    <3>1. \A k \in layers : k.id <= d.id
      BY <1>3, <2>1, <2>2 DEF NumberedTo
    <3>. QED  BY <1>4, <2>2, <3>1
  <2>3. CASE e \in layers
    <3>1. Neighbours(layers \cup {d}, d, e)
      BY <1>6, <2>3 DEF Neighbours
    <3>. QED  BY <1>4, <2>3, <3>1
  <2>. QED  BY <2>2, <2>3
<1>. QED  BY <1>2, <1>5, <1>6, Zenon DEF StrokesBehind

\* Selections have nothing to do with strokes.
LEMMA SelectionAside ==
    ASSUME NEW K, NEW c, NEW v, c.kind = "select"
    PROVE  /\ StrokesBehind(K \cup {c}, v) <=> StrokesBehind(K, v)
           /\ StrokesBehind(K \ {c}, v) <=> StrokesBehind(K, v)
           /\ StrokesAhead(K \cup {c}, v) <=> StrokesAhead(K, v)
           /\ StrokesAhead(K \ {c}, v) <=> StrokesAhead(K, v)
<1>1. /\ OfKind(K \cup {c}, "layer") = OfKind(K, "layer")
      /\ OfKind(K \cup {c}, "paint") = OfKind(K, "paint")
      /\ OfKind(K \ {c}, "layer") = OfKind(K, "layer")
      /\ OfKind(K \ {c}, "paint") = OfKind(K, "paint")
  BY DEF OfKind
<1>. QED  BY <1>1, Zenon DEF StrokesBehind, StrokesAhead

\* The newest stroke is on what the layer shows, and can be taken away.
LEMMA StrokeUndone ==
    ASSUME NEW K, NEW n, NumberedTo(K, n), NEW v, StrokesBehind(K, v),
           NEW c \in K, \A d \in K : d.id <= c.id, c.kind = "paint"
    PROVE  c.source = v /\ StrokesBehind(K \ {c}, v)
<1>1. OfKind(K \ {c}, "layer") = OfKind(K, "layer") /\ OfKind(K \ {c}, "paint") = OfKind(K, "paint") \ {c}
  BY DEF OfKind
<1>2. c \in OfKind(K, "paint") /\ \A d \in OfKind(K, "layer") : d.id <= c.id
  BY DEF OfKind
<1>3. c.source = v
  BY <1>2, Zenon DEF StrokesBehind
<1>4. StrokesBehind(K \ {c}, v)
  BY <1>1, Zenon DEF StrokesBehind
<1>. QED  BY <1>3, <1>4

\* Without the newest transition the layer shows what was there before it.
LEMMA TransitionUndone ==
    ASSUME NEW K, NEW n, NumberedTo(K, n), NEW v, StrokesBehind(K, v),
           NEW c \in K, \A d \in K : d.id <= c.id, c.kind = "layer"
    PROVE  StrokesBehind(K \ {c}, c.before)
<1>1. PICK layers : layers = OfKind(K, "layer")
  OBVIOUS
<1>2. OfKind(K \ {c}, "layer") = layers \ {c} /\ OfKind(K \ {c}, "paint") = OfKind(K, "paint")
  BY <1>1 DEF OfKind
<1>3. layers \subseteq K /\ OfKind(K, "paint") \subseteq K /\ c \in layers /\ c \notin OfKind(K, "paint")
  BY <1>1 DEF OfKind
<1>4. \A d \in OfKind(K, "paint") :
         \A e \in layers : Neighbours(layers \cup {d}, d, e) => e.before = d.source
  BY <1>1, Zenon DEF StrokesBehind
<1>5. ASSUME NEW d \in OfKind(K, "paint"), \A e \in layers \ {c} : e.id <= d.id
      PROVE  d.source = c.before
  <2>1. d.id < c.id
    BY <1>3 DEF NumberedTo
  <2>2. Neighbours(layers \cup {d}, d, c)
    BY <1>3, <1>5, <2>1 DEF Neighbours, NumberedTo
  <2>. QED  BY <1>3, <1>4, <2>2
<1>6. ASSUME NEW d \in OfKind(K, "paint"), NEW e \in layers \ {c},
             Neighbours((layers \ {c}) \cup {d}, d, e)
      PROVE  e.before = d.source
  <2>1. Neighbours(layers \cup {d}, d, e)
    BY <1>3, <1>6 DEF Neighbours, NumberedTo
  <2>. QED  BY <1>4, <2>1
<1>. QED  BY <1>2, <1>5, <1>6, Zenon DEF StrokesBehind

\* When the oldest durable commands leave, the strokes that stay are on what
\* the transitions that stay say.
LEMMA StrokesCut ==
    ASSUME NEW K, NEW n, NumberedTo(K, n), NEW v, StrokesBehind(K, v), NEW J \in SUBSET K,
           \A c \in OfKind(J, "paint"), d \in OfKind(K, "layer") : c.id <= d.id => d \in J
    PROVE  StrokesBehind(J, v)
<1>1. /\ OfKind(J, "paint") \subseteq OfKind(K, "paint")
      /\ OfKind(J, "layer") \subseteq OfKind(K, "layer")
      /\ OfKind(K, "paint") \subseteq K /\ OfKind(K, "layer") \subseteq K
      /\ \A d \in OfKind(K, "layer") : d \in J => d \in OfKind(J, "layer")
  BY DEF OfKind
<1>2. \A d \in OfKind(K, "paint") :
         /\ (\A e \in OfKind(K, "layer") : e.id <= d.id) => d.source = v
         /\ \A e \in OfKind(K, "layer") :
               Neighbours(OfKind(K, "layer") \cup {d}, d, e) => e.before = d.source
  BY Zenon DEF StrokesBehind
<1>3. ASSUME NEW d \in OfKind(J, "paint"), \A e \in OfKind(J, "layer") : e.id <= d.id
      PROVE  d.source = v
  <2>1. \A e \in OfKind(K, "layer") : e.id <= d.id
    BY <1>1, <1>3 DEF NumberedTo
  <2>. QED  BY <1>1, <1>2, <2>1
<1>4. ASSUME NEW d \in OfKind(J, "paint"), NEW e \in OfKind(J, "layer"),
             Neighbours(OfKind(J, "layer") \cup {d}, d, e)
      PROVE  e.before = d.source
  <2>1. d.id < e.id /\ \A k \in OfKind(J, "layer") : k.id <= d.id \/ e.id <= k.id
    BY <1>4 DEF Neighbours
  <2>2. \A k \in OfKind(K, "layer") : k.id <= d.id \/ e.id <= k.id
    BY <1>1, <2>1 DEF NumberedTo
  <2>3. Neighbours(OfKind(K, "layer") \cup {d}, d, e)
    BY <1>1, <2>1, <2>2 DEF Neighbours, NumberedTo
  <2>. QED  BY <1>1, <1>2, <2>3
<1>. QED  BY <1>3, <1>4, Zenon DEF StrokesBehind

\* An undone stroke was on what the layer shows.
LEMMA StrokeAhead ==
    ASSUME NEW K, NEW n, NEW c, NEW v, NumberedTo(K \cup {c}, n), \A d \in K : c.id < d.id,
           StrokesAhead(K, v), c.kind = "paint", c.source = v
    PROVE  StrokesAhead(K \cup {c}, v)
<1>1. PICK layers : layers = OfKind(K, "layer")
  OBVIOUS
<1>2. OfKind(K \cup {c}, "layer") = layers /\ OfKind(K \cup {c}, "paint") = OfKind(K, "paint") \cup {c}
  BY <1>1 DEF OfKind
<1>3. layers \subseteq K
  BY <1>1 DEF OfKind
<1>4. \A d \in layers : ~Neighbours(layers \cup {c}, d, c)
  BY <1>3 DEF NumberedTo, Neighbours
<1>5. \A d \in OfKind(K, "paint") :
         /\ (\A e \in layers : d.id <= e.id) => d.source = v
         /\ \A e \in layers : Neighbours(layers \cup {d}, e, d) => e.after = d.source
  BY <1>1, Zenon DEF StrokesAhead
<1>. QED  BY <1>2, <1>4, <1>5, Zenon DEF StrokesAhead

\* An undone transition ends with what the strokes after it were painted on.
LEMMA TransitionAhead ==
    ASSUME NEW K, NEW n, NEW c, NEW v, NumberedTo(K \cup {c}, n), \A d \in K : c.id < d.id,
           StrokesAhead(K, v), c.kind = "layer", c.after = v
    PROVE  StrokesAhead(K \cup {c}, c.before)
<1>1. PICK layers : layers = OfKind(K, "layer")
  OBVIOUS
<1>2. OfKind(K \cup {c}, "layer") = layers \cup {c} /\ OfKind(K \cup {c}, "paint") = OfKind(K, "paint")
  BY <1>1 DEF OfKind
<1>3. layers \subseteq K /\ OfKind(K, "paint") \subseteq K
  BY <1>1 DEF OfKind
<1>4. \A d \in OfKind(K, "paint") :
         /\ (\A e \in layers : d.id <= e.id) => d.source = v
         /\ \A e \in layers : Neighbours(layers \cup {d}, e, d) => e.after = d.source
  BY <1>1, Zenon DEF StrokesAhead
<1>5. ASSUME NEW d \in OfKind(K, "paint") PROVE ~(\A e \in layers \cup {c} : d.id <= e.id)
  BY <1>3 DEF NumberedTo
<1>6. ASSUME NEW d \in OfKind(K, "paint"), NEW e \in layers \cup {c},
             Neighbours((layers \cup {c}) \cup {d}, e, d)
      PROVE  e.after = d.source
  <2>1. e.id < d.id /\ \A k \in layers : k.id <= e.id \/ d.id <= k.id
    BY <1>6 DEF Neighbours
  <2>2. CASE e = c
    <3>1. \A k \in layers : d.id <= k.id
      BY <1>3, <2>1, <2>2 DEF NumberedTo
    <3>. QED  BY <1>4, <2>2, <3>1
  <2>3. CASE e \in layers
    <3>1. Neighbours(layers \cup {d}, e, d)
      BY <1>6, <2>3 DEF Neighbours
    <3>. QED  BY <1>4, <2>3, <3>1
  <2>. QED  BY <2>2, <2>3
<1>. QED  BY <1>2, <1>5, <1>6, Zenon DEF StrokesAhead

\* The oldest undone stroke is on what the layer shows.
LEMMA StrokeRedone ==
    ASSUME NEW K, NEW n, NumberedTo(K, n), NEW v, StrokesAhead(K, v),
           NEW c \in K, \A d \in K : c.id <= d.id, c.kind = "paint"
    PROVE  c.source = v /\ StrokesAhead(K \ {c}, v)
<1>1. OfKind(K \ {c}, "layer") = OfKind(K, "layer") /\ OfKind(K \ {c}, "paint") = OfKind(K, "paint") \ {c}
  BY DEF OfKind
<1>2. c \in OfKind(K, "paint") /\ \A d \in OfKind(K, "layer") : c.id <= d.id
  BY DEF OfKind
<1>3. c.source = v
  BY <1>2, Zenon DEF StrokesAhead
<1>4. StrokesAhead(K \ {c}, v)
  BY <1>1, Zenon DEF StrokesAhead
<1>. QED  BY <1>3, <1>4

\* After the oldest undone transition the layer shows what it leads to.
LEMMA TransitionRedone ==
    ASSUME NEW K, NEW n, NumberedTo(K, n), NEW v, StrokesAhead(K, v),
           NEW c \in K, \A d \in K : c.id <= d.id, c.kind = "layer"
    PROVE  StrokesAhead(K \ {c}, c.after)
<1>1. PICK layers : layers = OfKind(K, "layer")
  OBVIOUS
<1>2. OfKind(K \ {c}, "layer") = layers \ {c} /\ OfKind(K \ {c}, "paint") = OfKind(K, "paint")
  BY <1>1 DEF OfKind
<1>3. layers \subseteq K /\ OfKind(K, "paint") \subseteq K /\ c \in layers /\ c \notin OfKind(K, "paint")
  BY <1>1 DEF OfKind
<1>4. \A d \in OfKind(K, "paint") :
         \A e \in layers : Neighbours(layers \cup {d}, e, d) => e.after = d.source
  BY <1>1, Zenon DEF StrokesAhead
<1>5. ASSUME NEW d \in OfKind(K, "paint"), \A e \in layers \ {c} : d.id <= e.id
      PROVE  d.source = c.after
  <2>1. c.id < d.id
    BY <1>3 DEF NumberedTo
  <2>2. Neighbours(layers \cup {d}, c, d)
    BY <1>3, <1>5, <2>1 DEF Neighbours, NumberedTo
  <2>. QED  BY <1>3, <1>4, <2>2
<1>6. ASSUME NEW d \in OfKind(K, "paint"), NEW e \in layers \ {c},
             Neighbours((layers \ {c}) \cup {d}, e, d)
      PROVE  e.after = d.source
  <2>1. Neighbours(layers \cup {d}, e, d)
    BY <1>3, <1>6 DEF Neighbours, NumberedTo
  <2>. QED  BY <1>4, <2>1
<1>. QED  BY <1>2, <1>5, <1>6, Zenon DEF StrokesAhead

-----------------------------------------------------------------------------
(* What a step does to the branches of one composition.                    *)

\* The commands of a composition, and some of them, have numbers of their own.
LEMMA NumberedParts ==
    ASSUME NEW s, NEW K, NEW U, NEW n \in Nat, Chronicle(s, K, U, n)
    PROVE  \A P \in SUBSET (K \cup U) : NumberedTo(P, n)
BY DEF Chronicle, NumberedTo

\* A part of the commands from which only older commands of a class have left.
KeepsNewer(J, cs) ==
    /\ J \subseteq cs
    /\ \A d \in J, e \in cs :
          (d.kind = "select" <=> e.kind = "select") /\ d.id <= e.id => e \in J

\* A new command is the newest, and nothing is left to redo.
LEMMA RecordedChronicle ==
    ASSUME NEW s, NEW K, NEW U, NEW n \in Nat, Chronicle(s, K, U, n),
           NEW c, CommandFits(c), c.scope = s, c.id = n + 1, NEW J \in SUBSET (K \cup {c})
    PROVE  /\ Chronicle(s, J, {}, n + 1)
           /\ NumberedTo(K \cup {c}, n + 1)
           /\ \A d \in K : d.id < c.id
<1>1. IsFiniteSet(K \cup {c})
  BY FS_AddElement DEF Chronicle
<1>2. IsFiniteSet(J) /\ IsFiniteSet({})
  BY <1>1, FS_Subset, FS_EmptySet
<1>3. \A d \in K : CommandFits(d) /\ d.scope = s /\ d.id \in 1..n
  BY DEF Chronicle
<1>4. \A d \in K \cup {c} : CommandFits(d) /\ d.scope = s /\ d.id \in 1..(n + 1)
  BY <1>3
<1>5. \A d, e \in K \cup {c} : d.id = e.id => d = e
  BY <1>3 DEF Chronicle
<1>. QED  BY <1>2, <1>3, <1>4, <1>5 DEF Chronicle, NumberedTo

\* What was threaded before is threaded with the new command, and stays so when
\* older commands are evicted.
LEMMA RecordedThread ==
    ASSUME NEW P, NEW m, NEW c, NumberedTo(P \cup {c}, m), \A d \in P : d.id < c.id,
           Behind(P, c.before), NEW J, KeepsNewer(J, P \cup {c}),
           \A d, e \in P \cup {c} : d.kind = e.kind
    PROVE  Threaded(J, {}, c.after)
<1>1. Behind(P \cup {c}, c.after)
  BY BehindGrows
<1>2. Behind(J, c.after)
  BY <1>1, BehindCut DEF KeepsNewer
<1>. QED  BY <1>2, NothingThreaded DEF Threaded

\* A thread that a new command does not continue loses its oldest commands at most.
LEMMA SparedThread ==
    ASSUME NEW P, NEW m, NumberedTo(P, m), NEW v, Behind(P, v),
           NEW J, KeepsNewer(J, P), \A d, e \in P : d.kind = e.kind
    PROVE  Threaded(J, {}, v)
<1>1. Behind(J, v)
  BY BehindCut DEF KeepsNewer
<1>. QED  BY <1>1, NothingThreaded DEF Threaded

\* The commands of one kind that are kept.
LEMMA KeptOfAKind ==
    ASSUME NEW K, NEW c, NEW J, KeepsNewer(J, K \cup {c})
    PROVE  \A kind \in Kinds :
             /\ c.kind = kind => KeepsNewer(OfKind(J, kind), OfKind(K, kind) \cup {c})
             /\ c.kind # kind => KeepsNewer(OfKind(J, kind), OfKind(K, kind))
<1> TAKE kind \in Kinds
<1>1. ASSUME c.kind = kind PROVE KeepsNewer(OfKind(J, kind), OfKind(K, kind) \cup {c})
  BY <1>1 DEF KeepsNewer, OfKind
<1>2. ASSUME c.kind # kind PROVE KeepsNewer(OfKind(J, kind), OfKind(K, kind))
  BY <1>2 DEF KeepsNewer, OfKind
<1>. QED  BY <1>1, <1>2

\* The strokes on one source that are kept.
LEMMA KeptAboutIt ==
    ASSUME NEW K, NEW c, NEW J, KeepsNewer(J, K \cup {c})
    PROVE  \A x :
             /\ c.kind = "paint" /\ c.source = x =>
                    KeepsNewer(About(J, "paint", x), About(K, "paint", x) \cup {c})
             /\ ~(c.kind = "paint" /\ c.source = x) =>
                    KeepsNewer(About(J, "paint", x), About(K, "paint", x))
<1> TAKE x
<1>1. ASSUME c.kind = "paint" /\ c.source = x
      PROVE  KeepsNewer(About(J, "paint", x), About(K, "paint", x) \cup {c})
  BY <1>1 DEF KeepsNewer, OfKind, About
<1>2. ASSUME ~(c.kind = "paint" /\ c.source = x)
      PROVE  KeepsNewer(About(J, "paint", x), About(K, "paint", x))
  BY <1>2 DEF KeepsNewer, OfKind, About
<1>. QED  BY <1>1, <1>2

\* A recorded command ends every thread that it continues.
LEMMA RecordFits ==
    ASSUME NEW s, NEW K, NEW U, NEW n \in Nat, Chronicle(s, K, U, n),
           NEW c, CommandFits(c), c.scope = s, c.id = n + 1,
           NEW J, KeepsNewer(J, K \cup {c}), NEW l, NEW v,
           LayersFit(K, U, l), SelectionsFit(K, U, v),
           c.kind = "layer" => c.before = l,
           c.kind = "paint" => c.source = l,
           c.kind = "select" => c.before = v
    PROVE  /\ LayersFit(J, {}, IF c.kind = "layer" THEN c.after ELSE l)
           /\ SelectionsFit(J, {}, IF c.kind = "select" THEN c.after ELSE v)
           /\ \A x, w : StrokesFit(K, U, x, w) /\ (c.kind = "paint" /\ c.source = x => c.before = w)
                => StrokesFit(J, {}, x, IF c.kind = "paint" /\ c.source = x THEN c.after ELSE w)
<1> DEFINE L == OfKind(K, "layer")
           S == OfKind(K, "select")
<1>1. J \in SUBSET (K \cup {c})
  BY DEF KeepsNewer
<1>2. NumberedTo(K \cup {c}, n + 1) /\ \A d \in K : d.id < c.id
  BY <1>1, RecordedChronicle
<1>3. \A P \in SUBSET (K \cup {c}) : NumberedTo(P, n + 1)
  BY <1>2 DEF NumberedTo
<1>4. L \subseteq K /\ S \subseteq K /\ \A x : About(K, "paint", x) \subseteq K
  BY DEF OfKind, About
<1>5. /\ \A d, e \in L : d.kind = e.kind
      /\ \A d, e \in S : d.kind = e.kind
      /\ \A x : \A d \in About(K, "paint", x) : d.kind = "paint"
  BY DEF OfKind, About
<1>6. Behind(L, l) /\ Behind(S, v)
  BY DEF LayersFit, SelectionsFit, Threaded
<1> HIDE DEF L, S
<1> DEFINE newLayer == IF c.kind = "layer" THEN c.after ELSE l
           newSelection == IF c.kind = "select" THEN c.after ELSE v
<1>7. Threaded(OfKind(J, "layer"), {}, newLayer)
  <2>1. CASE c.kind = "layer"
    <3>1. KeepsNewer(OfKind(J, "layer"), L \cup {c})
      BY <2>1, KeptOfAKind DEF Kinds, L
    <3>2. \A d, e \in L \cup {c} : d.kind = e.kind
      BY <2>1 DEF OfKind, L
    <3>3. NumberedTo(L \cup {c}, n + 1) /\ (\A d \in L : d.id < c.id) /\ Behind(L, c.before)
      BY <1>2, <1>3, <1>4, <1>6, <2>1
    <3>. QED  BY <2>1, <3>1, <3>2, <3>3, RecordedThread
  <2>2. CASE c.kind # "layer"
    <3>1. KeepsNewer(OfKind(J, "layer"), L)
      BY <2>2, KeptOfAKind DEF Kinds, L
    <3>2. NumberedTo(L, n + 1)
      BY <1>3, <1>4
    <3>. QED  BY <1>5, <1>6, <2>2, <3>1, <3>2, SparedThread
  <2>. QED  BY <2>1, <2>2
<1>8. StrokesBehind(K \cup {c}, newLayer)
  <2>1. StrokesBehind(K, l) /\ c.kind \in Kinds
    BY DEF LayersFit, CommandFits
  <2>2. CASE c.kind = "layer"
    BY <1>2, <2>1, <2>2, TransitionBehind
  <2>3. CASE c.kind = "paint"
    BY <1>2, <2>1, <2>3, StrokeBehind
  <2>4. CASE c.kind = "select"
    BY <2>1, <2>4, SelectionAside
  <2>. QED  BY <2>1, <2>2, <2>3, <2>4 DEF Kinds
<1>9. LayersFit(J, {}, newLayer)
  <2>1. \A d \in OfKind(J, "paint"), e \in OfKind(K \cup {c}, "layer") : d.id <= e.id => e \in J
    BY DEF OfKind, KeepsNewer
  <2>2. StrokesBehind(J, newLayer)
    <3> HIDE DEF newLayer
    <3>. QED  BY <1>1, <1>2, <1>8, <2>1, StrokesCut
  <2>3. StrokesAhead({}, newLayer) /\ OfKind({}, "layer") = {}
    BY DEF StrokesAhead, OfKind
  <2>. QED  BY <1>7, <2>2, <2>3 DEF LayersFit
<1>10. SelectionsFit(J, {}, newSelection)
  <2>1. CASE c.kind = "select"
    <3>1. KeepsNewer(OfKind(J, "select"), S \cup {c})
      BY <2>1, KeptOfAKind DEF Kinds, S
    <3>2. \A d, e \in S \cup {c} : d.kind = e.kind
      BY <2>1 DEF OfKind, S
    <3>3. NumberedTo(S \cup {c}, n + 1) /\ (\A d \in S : d.id < c.id) /\ Behind(S, c.before)
      BY <1>2, <1>3, <1>4, <1>6, <2>1
    <3>4. Threaded(OfKind(J, "select"), {}, c.after)
      BY <3>1, <3>2, <3>3, RecordedThread
    <3>. QED  BY <2>1, <3>4 DEF SelectionsFit, OfKind
  <2>2. CASE c.kind # "select"
    <3>1. KeepsNewer(OfKind(J, "select"), S)
      BY <2>2, KeptOfAKind DEF Kinds, S
    <3>2. NumberedTo(S, n + 1)
      BY <1>3, <1>4
    <3>3. Threaded(OfKind(J, "select"), {}, v)
      BY <1>5, <1>6, <3>1, <3>2, SparedThread
    <3>. QED  BY <2>2, <3>3 DEF SelectionsFit, OfKind
  <2>. QED  BY <2>1, <2>2
<1>11. ASSUME NEW x, NEW w, StrokesFit(K, U, x, w), c.kind = "paint" /\ c.source = x => c.before = w
       PROVE  StrokesFit(J, {}, x, IF c.kind = "paint" /\ c.source = x THEN c.after ELSE w)
  <2> DEFINE P == About(K, "paint", x)
  <2>1. Behind(P, w) /\ About({}, "paint", x) = {}
    BY <1>11 DEF StrokesFit, Threaded, About, OfKind
  <2>2. CASE c.kind = "paint" /\ c.source = x
    <3>1. KeepsNewer(About(J, "paint", x), P \cup {c})
      BY <2>2, KeptAboutIt
    <3>2. \A d, e \in P \cup {c} : d.kind = e.kind
      BY <1>5, <2>2
    <3>3. NumberedTo(P \cup {c}, n + 1) /\ (\A d \in P : d.id < c.id) /\ Behind(P, c.before)
      BY <1>2, <1>3, <1>4, <1>11, <2>1, <2>2
    <3> HIDE DEF P
    <3>4. Threaded(About(J, "paint", x), {}, c.after)
      BY <3>1, <3>2, <3>3, RecordedThread
    <3>. QED  BY <2>1, <2>2, <3>4 DEF StrokesFit
  <2>3. CASE ~(c.kind = "paint" /\ c.source = x)
    <3>1. KeepsNewer(About(J, "paint", x), P)
      BY <2>3, KeptAboutIt
    <3>2. NumberedTo(P, n + 1) /\ \A d, e \in P : d.kind = e.kind
      BY <1>3, <1>4, <1>5
    <3> HIDE DEF P
    <3>3. Threaded(About(J, "paint", x), {}, w)
      BY <2>1, <3>1, <3>2, SparedThread
    <3>. QED  BY <2>1, <2>3, <3>3 DEF StrokesFit
  <2>. QED  BY <2>2, <2>3
<1>. QED  BY <1>9, <1>10, <1>11

-----------------------------------------------------------------------------
\* An undone command is newer than everything that is done and older than
\* everything that was undone before it.
LEMMA UndoneChronicle ==
    ASSUME NEW s, NEW K, NEW U, NEW n \in Nat, Chronicle(s, K, U, n),
           NEW c \in K, \A d \in K : d.id <= c.id
    PROVE  /\ Chronicle(s, K \ {c}, U \cup {c}, n)
           /\ NumberedTo(K \cup U, n)
           /\ \A d \in U : c.id < d.id
<1>1. IsFiniteSet(K \ {c}) /\ IsFiniteSet(U \cup {c})
  BY FS_AddElement, FS_RemoveElement DEF Chronicle
<1>2. \A d \in K \ {c} : d.id < c.id
  BY DEF Chronicle
<1>. QED  BY <1>1, <1>2 DEF Chronicle, NumberedTo

\* The oldest command that is undone becomes the newest that is done.
LEMMA RedoneChronicle ==
    ASSUME NEW s, NEW K, NEW U, NEW n \in Nat, Chronicle(s, K, U, n),
           NEW c \in U, \A d \in U : c.id <= d.id
    PROVE  /\ Chronicle(s, K \cup {c}, U \ {c}, n)
           /\ NumberedTo(K \cup U, n)
           /\ \A d \in K : d.id < c.id
<1>1. IsFiniteSet(U \ {c}) /\ IsFiniteSet(K \cup {c})
  BY FS_AddElement, FS_RemoveElement DEF Chronicle
<1>2. \A d \in U \ {c} : c.id < d.id
  BY DEF Chronicle
<1>. QED  BY <1>1, <1>2 DEF Chronicle, NumberedTo

\* One command goes from the end of a thread to the beginning of the other.
LEMMA UndoneThread ==
    ASSUME NEW P, NEW Q, NEW m, NumberedTo(P \cup Q, m), NEW v, Threaded(P, Q, v),
           NEW c \in P, \A d \in P : d.id <= c.id, \A d \in Q : c.id < d.id
    PROVE  c.after = v /\ Threaded(P \ {c}, Q \cup {c}, c.before)
<1>1. NumberedTo(P, m) /\ NumberedTo(Q \cup {c}, m)
  BY DEF NumberedTo
<1>2. c.after = v /\ Behind(P \ {c}, c.before)
  BY <1>1, BehindShrinks DEF Threaded
<1>3. Ahead(Q \cup {c}, c.before)
  BY <1>1, <1>2, AheadGrows DEF Threaded
<1>. QED  BY <1>2, <1>3 DEF Threaded

\* And back again.
LEMMA RedoneThread ==
    ASSUME NEW P, NEW Q, NEW m, NumberedTo(P \cup Q, m), NEW v, Threaded(P, Q, v),
           NEW c \in Q, \A d \in Q : c.id <= d.id, \A d \in P : d.id < c.id
    PROVE  c.before = v /\ Threaded(P \cup {c}, Q \ {c}, c.after)
<1>1. NumberedTo(Q, m) /\ NumberedTo(P \cup {c}, m)
  BY DEF NumberedTo
<1>2. c.before = v /\ Ahead(Q \ {c}, c.after)
  BY <1>1, AheadShrinks DEF Threaded
<1>3. Behind(P \cup {c}, c.after)
  BY <1>1, <1>2, BehindGrows DEF Threaded
<1>. QED  BY <1>2, <1>3 DEF Threaded

\* The newest command that is done ends the threads it is of, and when it is
\* undone they end where it began.
LEMMA UndoFits ==
    ASSUME NEW s, NEW K, NEW U, NEW n \in Nat, Chronicle(s, K, U, n),
           NEW c \in K, \A d \in K : d.id <= c.id, NEW l, NEW v,
           LayersFit(K, U, l), SelectionsFit(K, U, v)
    PROVE  /\ c.kind = "layer" => c.after = l
           /\ c.kind = "paint" => c.source = l
           /\ c.kind = "select" => c.after = v
           /\ LayersFit(K \ {c}, U \cup {c}, IF c.kind = "layer" THEN c.before ELSE l)
           /\ SelectionsFit(K \ {c}, U \cup {c}, IF c.kind = "select" THEN c.before ELSE v)
           /\ \A x, w : StrokesFit(K, U, x, w) =>
                 StrokesFit(K \ {c}, U \cup {c}, x,
                            IF c.kind = "paint" /\ c.source = x THEN c.before ELSE w)
<1>1. NumberedTo(K \cup U, n) /\ \A d \in U : c.id < d.id
  BY UndoneChronicle
<1>2. \A P \in SUBSET (K \cup U) : NumberedTo(P, n)
  BY <1>1 DEF NumberedTo
<1>3. c.kind \in Kinds
  BY DEF Chronicle, CommandFits
<1>4. NumberedTo(K, n) /\ NumberedTo(U \cup {c}, n)
  BY <1>2
<1>5. StrokesBehind(K, l) /\ StrokesAhead(U, l)
  BY DEF LayersFit
<1>6. CASE c.kind = "layer"
  <2>1. c \in OfKind(K, "layer") /\ OfKind(K, "layer") \subseteq K /\ OfKind(U, "layer") \subseteq U
    BY <1>6 DEF OfKind
  <2>2. NumberedTo(OfKind(K, "layer") \cup OfKind(U, "layer"), n)
    BY <1>2, <2>1
  <2>3. /\ c.after = l
        /\ Threaded(OfKind(K, "layer") \ {c}, OfKind(U, "layer") \cup {c}, c.before)
    BY <1>1, <2>1, <2>2, UndoneThread DEF LayersFit
  <2>4. StrokesBehind(K \ {c}, c.before)
    BY <1>4, <1>5, <1>6, TransitionUndone
  <2>5. StrokesAhead(U \cup {c}, c.before)
    BY <1>1, <1>4, <1>5, <1>6, <2>3, TransitionAhead
  <2>6. /\ OfKind(K \ {c}, "layer") = OfKind(K, "layer") \ {c}
        /\ OfKind(U \cup {c}, "layer") = OfKind(U, "layer") \cup {c}
        /\ OfKind(K \ {c}, "select") = OfKind(K, "select")
        /\ OfKind(U \cup {c}, "select") = OfKind(U, "select")
    BY <1>6 DEF OfKind
  <2>7. LayersFit(K \ {c}, U \cup {c}, c.before) /\ SelectionsFit(K \ {c}, U \cup {c}, v)
    BY <2>3, <2>4, <2>5, <2>6 DEF LayersFit, SelectionsFit
  <2>8. \A x : About(K \ {c}, "paint", x) = About(K, "paint", x)
               /\ About(U \cup {c}, "paint", x) = About(U, "paint", x)
    BY <1>6 DEF OfKind, About
  <2>. QED  BY <1>6, <2>3, <2>7, <2>8 DEF StrokesFit
<1>7. CASE c.kind = "select"
  <2>1. c \in OfKind(K, "select") /\ OfKind(K, "select") \subseteq K /\ OfKind(U, "select") \subseteq U
    BY <1>7 DEF OfKind
  <2>2. NumberedTo(OfKind(K, "select") \cup OfKind(U, "select"), n)
    BY <1>2, <2>1
  <2>3. /\ c.after = v
        /\ Threaded(OfKind(K, "select") \ {c}, OfKind(U, "select") \cup {c}, c.before)
    BY <1>1, <2>1, <2>2, UndoneThread DEF SelectionsFit
  <2>4. StrokesBehind(K \ {c}, l) /\ StrokesAhead(U \cup {c}, l)
    BY <1>5, <1>7, SelectionAside
  <2>6. /\ OfKind(K \ {c}, "select") = OfKind(K, "select") \ {c}
        /\ OfKind(U \cup {c}, "select") = OfKind(U, "select") \cup {c}
        /\ OfKind(K \ {c}, "layer") = OfKind(K, "layer")
        /\ OfKind(U \cup {c}, "layer") = OfKind(U, "layer")
    BY <1>7 DEF OfKind
  <2>7. LayersFit(K \ {c}, U \cup {c}, l) /\ SelectionsFit(K \ {c}, U \cup {c}, c.before)
    BY <2>3, <2>4, <2>6 DEF LayersFit, SelectionsFit
  <2>8. \A x : About(K \ {c}, "paint", x) = About(K, "paint", x)
               /\ About(U \cup {c}, "paint", x) = About(U, "paint", x)
    BY <1>7 DEF OfKind, About
  <2>. QED  BY <1>7, <2>3, <2>7, <2>8 DEF StrokesFit
<1>8. CASE c.kind = "paint"
  <2>1. c.source = l /\ StrokesBehind(K \ {c}, l)
    BY <1>4, <1>5, <1>8, StrokeUndone
  <2>2. StrokesAhead(U \cup {c}, l)
    BY <1>1, <1>4, <1>5, <1>8, <2>1, StrokeAhead
  <2>3. /\ OfKind(K \ {c}, "select") = OfKind(K, "select")
        /\ OfKind(U \cup {c}, "select") = OfKind(U, "select")
        /\ OfKind(K \ {c}, "layer") = OfKind(K, "layer")
        /\ OfKind(U \cup {c}, "layer") = OfKind(U, "layer")
    BY <1>8 DEF OfKind
  <2>4. LayersFit(K \ {c}, U \cup {c}, l) /\ SelectionsFit(K \ {c}, U \cup {c}, v)
    BY <2>1, <2>2, <2>3 DEF LayersFit, SelectionsFit
  <2>5. ASSUME NEW x, NEW w, StrokesFit(K, U, x, w), c.source = x
        PROVE  StrokesFit(K \ {c}, U \cup {c}, x, c.before)
    <3>1. /\ c \in About(K, "paint", x)
          /\ About(K, "paint", x) \subseteq K /\ About(U, "paint", x) \subseteq U
      BY <1>8, <2>5 DEF OfKind, About
    <3>2. NumberedTo(About(K, "paint", x) \cup About(U, "paint", x), n)
      BY <1>2, <3>1
    <3>3. Threaded(About(K, "paint", x) \ {c}, About(U, "paint", x) \cup {c}, c.before)
      BY <1>1, <2>5, <3>1, <3>2, UndoneThread DEF StrokesFit
    <3>4. /\ About(K \ {c}, "paint", x) = About(K, "paint", x) \ {c}
          /\ About(U \cup {c}, "paint", x) = About(U, "paint", x) \cup {c}
      BY <1>8, <2>5 DEF OfKind, About
    <3>. QED  BY <3>3, <3>4 DEF StrokesFit
  <2>6. ASSUME NEW x, NEW w, StrokesFit(K, U, x, w), c.source # x
        PROVE  StrokesFit(K \ {c}, U \cup {c}, x, w)
    <3>1. /\ About(K \ {c}, "paint", x) = About(K, "paint", x)
          /\ About(U \cup {c}, "paint", x) = About(U, "paint", x)
      BY <2>6 DEF OfKind, About
    <3>. QED  BY <2>6, <3>1 DEF StrokesFit
  <2>. QED  BY <1>8, <2>1, <2>4, <2>5, <2>6
<1>. QED  BY <1>3, <1>6, <1>7, <1>8 DEF Kinds

\* The oldest command that is undone begins the threads it is of, and when it
\* is redone they begin where it ends.
LEMMA RedoFits ==
    ASSUME NEW s, NEW K, NEW U, NEW n \in Nat, Chronicle(s, K, U, n),
           NEW c \in U, \A d \in U : c.id <= d.id, NEW l, NEW v,
           LayersFit(K, U, l), SelectionsFit(K, U, v)
    PROVE  /\ c.kind = "layer" => c.before = l
           /\ c.kind = "paint" => c.source = l
           /\ c.kind = "select" => c.before = v
           /\ LayersFit(K \cup {c}, U \ {c}, IF c.kind = "layer" THEN c.after ELSE l)
           /\ SelectionsFit(K \cup {c}, U \ {c}, IF c.kind = "select" THEN c.after ELSE v)
           /\ \A x, w : StrokesFit(K, U, x, w) =>
                 StrokesFit(K \cup {c}, U \ {c}, x,
                            IF c.kind = "paint" /\ c.source = x THEN c.after ELSE w)
<1>1. NumberedTo(K \cup U, n) /\ \A d \in K : d.id < c.id
  BY RedoneChronicle
<1>2. \A P \in SUBSET (K \cup U) : NumberedTo(P, n)
  BY <1>1 DEF NumberedTo
<1>3. c.kind \in Kinds
  BY DEF Chronicle, CommandFits
<1>4. NumberedTo(U, n) /\ NumberedTo(K \cup {c}, n)
  BY <1>2
<1>5. StrokesBehind(K, l) /\ StrokesAhead(U, l)
  BY DEF LayersFit
<1>6. CASE c.kind = "layer"
  <2>1. c \in OfKind(U, "layer") /\ OfKind(K, "layer") \subseteq K /\ OfKind(U, "layer") \subseteq U
    BY <1>6 DEF OfKind
  <2>2. NumberedTo(OfKind(K, "layer") \cup OfKind(U, "layer"), n)
    BY <1>2, <2>1
  <2>3. /\ c.before = l
        /\ Threaded(OfKind(K, "layer") \cup {c}, OfKind(U, "layer") \ {c}, c.after)
    BY <1>1, <2>1, <2>2, RedoneThread DEF LayersFit
  <2>4. StrokesBehind(K \cup {c}, c.after)
    BY <1>1, <1>4, <1>5, <1>6, <2>3, TransitionBehind
  <2>5. StrokesAhead(U \ {c}, c.after)
    BY <1>4, <1>5, <1>6, TransitionRedone
  <2>6. /\ OfKind(K \cup {c}, "layer") = OfKind(K, "layer") \cup {c}
        /\ OfKind(U \ {c}, "layer") = OfKind(U, "layer") \ {c}
        /\ OfKind(K \cup {c}, "select") = OfKind(K, "select")
        /\ OfKind(U \ {c}, "select") = OfKind(U, "select")
    BY <1>6 DEF OfKind
  <2>7. LayersFit(K \cup {c}, U \ {c}, c.after) /\ SelectionsFit(K \cup {c}, U \ {c}, v)
    BY <2>3, <2>4, <2>5, <2>6 DEF LayersFit, SelectionsFit
  <2>8. \A x : About(K \cup {c}, "paint", x) = About(K, "paint", x)
               /\ About(U \ {c}, "paint", x) = About(U, "paint", x)
    BY <1>6 DEF OfKind, About
  <2>. QED  BY <1>6, <2>3, <2>7, <2>8 DEF StrokesFit
<1>7. CASE c.kind = "select"
  <2>1. c \in OfKind(U, "select") /\ OfKind(K, "select") \subseteq K /\ OfKind(U, "select") \subseteq U
    BY <1>7 DEF OfKind
  <2>2. NumberedTo(OfKind(K, "select") \cup OfKind(U, "select"), n)
    BY <1>2, <2>1
  <2>3. /\ c.before = v
        /\ Threaded(OfKind(K, "select") \cup {c}, OfKind(U, "select") \ {c}, c.after)
    BY <1>1, <2>1, <2>2, RedoneThread DEF SelectionsFit
  <2>4. StrokesBehind(K \cup {c}, l) /\ StrokesAhead(U \ {c}, l)
    BY <1>5, <1>7, SelectionAside
  <2>6. /\ OfKind(K \cup {c}, "select") = OfKind(K, "select") \cup {c}
        /\ OfKind(U \ {c}, "select") = OfKind(U, "select") \ {c}
        /\ OfKind(K \cup {c}, "layer") = OfKind(K, "layer")
        /\ OfKind(U \ {c}, "layer") = OfKind(U, "layer")
    BY <1>7 DEF OfKind
  <2>7. LayersFit(K \cup {c}, U \ {c}, l) /\ SelectionsFit(K \cup {c}, U \ {c}, c.after)
    BY <2>3, <2>4, <2>6 DEF LayersFit, SelectionsFit
  <2>8. \A x : About(K \cup {c}, "paint", x) = About(K, "paint", x)
               /\ About(U \ {c}, "paint", x) = About(U, "paint", x)
    BY <1>7 DEF OfKind, About
  <2>. QED  BY <1>7, <2>3, <2>7, <2>8 DEF StrokesFit
<1>8. CASE c.kind = "paint"
  <2>1. c.source = l /\ StrokesAhead(U \ {c}, l)
    BY <1>4, <1>5, <1>8, StrokeRedone
  <2>2. StrokesBehind(K \cup {c}, l)
    BY <1>1, <1>4, <1>5, <1>8, <2>1, StrokeBehind
  <2>3. /\ OfKind(K \cup {c}, "select") = OfKind(K, "select")
        /\ OfKind(U \ {c}, "select") = OfKind(U, "select")
        /\ OfKind(K \cup {c}, "layer") = OfKind(K, "layer")
        /\ OfKind(U \ {c}, "layer") = OfKind(U, "layer")
    BY <1>8 DEF OfKind
  <2>4. LayersFit(K \cup {c}, U \ {c}, l) /\ SelectionsFit(K \cup {c}, U \ {c}, v)
    BY <2>1, <2>2, <2>3 DEF LayersFit, SelectionsFit
  <2>5. ASSUME NEW x, NEW w, StrokesFit(K, U, x, w), c.source = x
        PROVE  StrokesFit(K \cup {c}, U \ {c}, x, c.after)
    <3>1. /\ c \in About(U, "paint", x)
          /\ About(K, "paint", x) \subseteq K /\ About(U, "paint", x) \subseteq U
      BY <1>8, <2>5 DEF OfKind, About
    <3>2. NumberedTo(About(K, "paint", x) \cup About(U, "paint", x), n)
      BY <1>2, <3>1
    <3>3. Threaded(About(K, "paint", x) \cup {c}, About(U, "paint", x) \ {c}, c.after)
      BY <1>1, <2>5, <3>1, <3>2, RedoneThread DEF StrokesFit
    <3>4. /\ About(K \cup {c}, "paint", x) = About(K, "paint", x) \cup {c}
          /\ About(U \ {c}, "paint", x) = About(U, "paint", x) \ {c}
      BY <1>8, <2>5 DEF OfKind, About
    <3>. QED  BY <3>3, <3>4 DEF StrokesFit
  <2>6. ASSUME NEW x, NEW w, StrokesFit(K, U, x, w), c.source # x
        PROVE  StrokesFit(K \cup {c}, U \ {c}, x, w)
    <3>1. /\ About(K \cup {c}, "paint", x) = About(K, "paint", x)
          /\ About(U \ {c}, "paint", x) = About(U, "paint", x)
      BY <2>6 DEF OfKind, About
    <3>. QED  BY <2>6, <3>1 DEF StrokesFit
  <2>. QED  BY <1>8, <2>1, <2>4, <2>5, <2>6
<1>. QED  BY <1>3, <1>6, <1>7, <1>8 DEF Kinds

-----------------------------------------------------------------------------
(* How leases are counted.                                                 *)

\* There are finitely many compositions.
LEMMA ScopesFinite == IsFiniteSet(Scopes)
<1>1. Order \in [1..Len(Order) -> Scopes] /\ Len(Order) \in Nat
  BY LimitAssumption
<1>2. Order \in Surjection(1..Len(Order), Scopes)
  BY <1>1 DEF Surjection, Scopes
<1>. QED  BY <1>1, <1>2, FS_Interval, FS_Surjection

\* The live leases of x, of which there were l, when a layer that showed one
\* thing shows another.
Swapped(x, from, to, l, live) ==
    from # to /\ Once({from})[x] <= l /\ live = l - Once({from})[x] + Once({to})[x]

\* What the compositions show, when one of them shows something else.
Reshown(f, g, s, a) == f \in [Scopes -> Shown] /\ a # f[s] /\ g = [f EXCEPT ![s] = a]

\* How many compositions show a source.
LiveOf(shown, x) == Cardinality({t \in Scopes : shown[t] = x})

\* The layers that show a source, when one of them shows another.
LEMMA LiveChanges ==
    ASSUME NEW f, NEW g, NEW s \in Scopes, NEW a, NEW x \in Sources, Reshown(f, g, s, a)
    PROVE  LiveOf(f, x) \in Nat /\ Swapped(x, f[s], a, LiveOf(f, x), LiveOf(g, x))
<1>0. f \in [Scopes -> Shown]
  BY DEF Reshown
<1>1. g = [f EXCEPT ![s] = a] /\ a # f[s]
  BY DEF Reshown
<1>2. PICK F : F = {t \in Scopes : f[t] = x}
  OBVIOUS
<1>3. PICK G : G = {t \in Scopes : g[t] = x}
  OBVIOUS
<1>4. IsFiniteSet(F) /\ Cardinality(F) \in Nat
  BY <1>2, ScopesFinite, FS_Subset, FS_CardinalityType
<1>5. Once({f[s]})[x] = (IF f[s] = x THEN 1 ELSE 0) /\ Once({a})[x] = (IF a = x THEN 1 ELSE 0)
  BY DEF Once
<1>6. CASE f[s] = x
  <2>1. s \in F /\ G = F \ {s}
    BY <1>0, <1>1, <1>2, <1>3, <1>6
  <2>2. Cardinality(G) = Cardinality(F) - 1 /\ Cardinality(F) # 0
    BY <1>4, <2>1, FS_RemoveElement, FS_EmptySet
  <2>. QED  BY <1>1, <1>2, <1>3, <1>4, <1>5, <1>6, <2>2 DEF LiveOf, Swapped
<1>7. CASE a = x
  <2>1. s \notin F /\ G = F \cup {s}
    BY <1>0, <1>1, <1>2, <1>3, <1>7
  <2>2. Cardinality(G) = Cardinality(F) + 1
    BY <1>4, <2>1, FS_AddElement
  <2>. QED  BY <1>1, <1>2, <1>3, <1>4, <1>5, <1>7, <2>2 DEF LiveOf, Swapped
<1>8. CASE f[s] # x /\ a # x
  <2>1. G = F
    BY <1>0, <1>1, <1>2, <1>3, <1>8
  <2>2. Once({f[s]})[x] = 0 /\ Once({a})[x] = 0
    BY <1>5, <1>8
  <2>3. Cardinality(G) = Cardinality(F) - 0 + 0
    BY <1>4, <2>1
  <2>. QED  BY <1>1, <1>2, <1>3, <1>4, <2>2, <2>3 DEF LiveOf, Swapped
<1>. QED  BY <1>6, <1>7, <1>8

\* The leases that some commands hold.
LEMMA HeldCounts ==
    ASSUME NEW cs, IsFiniteSet(cs), NEW x \in Sources
    PROVE  /\ Held(cs)[x] \in Nat
           /\ \A c \in cs : x \in ResourcesOf(c) => Held(cs)[x] > 0
<1>1. PICK A : A = {c \in cs : x \in ResourcesOf(c)}
  OBVIOUS
<1>2. IsFiniteSet(A)
  BY <1>1, FS_Subset
<1>3. Cardinality(A) \in Nat /\ (Cardinality(A) = 0 => A = {})
  BY <1>2, FS_CardinalityType, FS_EmptySet
<1>4. Held(cs)[x] = Cardinality(A)
  BY <1>1 DEF Held
<1>5. \A c \in cs : x \in ResourcesOf(c) => A # {}
  BY <1>1
<1>. QED  BY <1>3, <1>4, <1>5

\* One command holds one lease of each of its sources.
LEMMA HeldByOne ==
    ASSUME NEW c, NEW x \in Sources
    PROVE  Held({c})[x] = IF x \in ResourcesOf(c) THEN 1 ELSE 0
<1>1. CASE x \in ResourcesOf(c)
  <2>1. {d \in {c} : x \in ResourcesOf(d)} = {c}
    BY <1>1
  <2>. QED  BY <1>1, <2>1, FS_Singleton DEF Held
<1>2. CASE x \notin ResourcesOf(c)
  <2>1. {d \in {c} : x \in ResourcesOf(d)} = {}
    BY <1>2
  <2>. QED  BY <1>2, <2>1, FS_EmptySet DEF Held
<1>. QED  BY <1>1, <1>2

\* A command brings its leases along.
LEMMA HeldAdds ==
    ASSUME NEW cs, IsFiniteSet(cs), NEW c, c \notin cs, NEW x \in Sources
    PROVE  Held(cs \cup {c})[x] = Held(cs)[x] + Held({c})[x]
<1>1. PICK A : A = {d \in cs : x \in ResourcesOf(d)}
  OBVIOUS
<1>2. IsFiniteSet(A) /\ c \notin A
  BY <1>1, FS_Subset
<1>3. Held(cs)[x] = Cardinality(A) /\ Cardinality(A) \in Nat
  BY <1>1, <1>2, FS_CardinalityType DEF Held
<1>4. CASE x \in ResourcesOf(c)
  <2>1. {d \in cs \cup {c} : x \in ResourcesOf(d)} = A \cup {c}
    BY <1>1, <1>4
  <2>2. Held(cs \cup {c})[x] = Cardinality(A) + 1
    BY <1>2, <2>1, FS_AddElement DEF Held
  <2>. QED  BY <1>3, <1>4, <2>2, HeldByOne
<1>5. CASE x \notin ResourcesOf(c)
  <2>1. {d \in cs \cup {c} : x \in ResourcesOf(d)} = A
    BY <1>1, <1>5
  <2>2. Held(cs \cup {c})[x] = Cardinality(A)
    BY <2>1 DEF Held
  <2>. QED  BY <1>3, <1>5, <2>2, HeldByOne
<1>. QED  BY <1>4, <1>5

\* Commands that leave take their leases with them.
LEMMA HeldRemoves ==
    ASSUME NEW cs, IsFiniteSet(cs), NEW ds \in SUBSET cs, NEW x \in Sources
    PROVE  /\ Held(cs \ ds)[x] = Held(cs)[x] - Held(ds)[x]
           /\ Held(ds)[x] \in Nat /\ Held(ds)[x] <= Held(cs)[x]
<1>1. PICK A : A = {d \in cs : x \in ResourcesOf(d)}
  OBVIOUS
<1>2. PICK B : B = {d \in ds : x \in ResourcesOf(d)}
  OBVIOUS
<1>3. IsFiniteSet(A) /\ B \subseteq A /\ A \cap B = B /\ IsFiniteSet(B)
  <2>1. IsFiniteSet(A) /\ B \subseteq A
    BY <1>1, <1>2, FS_Subset
  <2>. QED  BY <2>1, FS_Subset
<1>4. Cardinality(A \ B) = Cardinality(A) - Cardinality(B) /\ Cardinality(B) <= Cardinality(A)
  BY <1>3, FS_Difference, FS_Subset
<1>5. {d \in cs \ ds : x \in ResourcesOf(d)} = A \ B
  BY <1>1, <1>2
<1>6. Held(cs)[x] = Cardinality(A) /\ Held(ds)[x] = Cardinality(B) /\ Held(cs \ ds)[x] = Cardinality(A \ B)
  BY <1>1, <1>2, <1>5 DEF Held
<1>. QED  BY <1>3, <1>4, <1>6, FS_CardinalityType

-----------------------------------------------------------------------------
(* What acquiring and releasing leases does to one source.                 *)

At(st, x, l, m, h) == st.leases[x] = [live |-> l, session |-> m, history |-> h]

\* Leases of one kind that are acquired are added, and no source is lost.
LEMMA Acquired ==
    ASSUME NEW st, NEW count, NEW x \in Sources, NEW l, NEW m, NEW h, At(st, x, l, m, h)
    PROVE  /\ At(AcquireAll(st, "live", count), x, l + count[x], m, h)
           /\ At(AcquireAll(st, "session", count), x, l, m + count[x], h)
           /\ At(AcquireAll(st, "history", count), x, l, m, h + count[x])
           /\ \A kind : AcquireAll(st, kind, count).gone = st.gone
BY DEF At, AcquireAll

\* And every source keeps a record of its leases.
LEMMA ReleasedAll ==
    ASSUME NEW st, NEW kind, NEW count
    PROVE  \E f : ReleaseAll(st, kind, count).leases = [x \in Sources |-> f[x]]
<1>1. PICK f : f = [x \in Sources |-> [st.leases[x] EXCEPT ![kind] = @ - count[x]]]
  OBVIOUS
<1>2. ReleaseAll(st, kind, count).leases = f /\ f = [x \in Sources |-> f[x]]
  BY <1>1 DEF ReleaseAll
<1>. QED  BY <1>2

\* Leases that are released are subtracted; a source without any is gone.
LEMMA Released ==
    ASSUME NEW st, NEW count, NEW x \in Sources, NEW l, NEW m, NEW h, At(st, x, l, m, h)
    PROVE  /\ /\ At(ReleaseAll(st, "live", count), x, l - count[x], m, h)
              /\ x \in ReleaseAll(st, "live", count).gone <=>
                    x \in st.gone \/ (count[x] > 0 /\ l - count[x] + m + h = 0)
           /\ /\ At(ReleaseAll(st, "session", count), x, l, m - count[x], h)
              /\ x \in ReleaseAll(st, "session", count).gone <=>
                    x \in st.gone \/ (count[x] > 0 /\ l + (m - count[x]) + h = 0)
           /\ /\ At(ReleaseAll(st, "history", count), x, l, m, h - count[x])
              /\ x \in ReleaseAll(st, "history", count).gone <=>
                    x \in st.gone \/ (count[x] > 0 /\ l + m + (h - count[x]) = 0)
<1>1. ASSUME NEW kind
      PROVE  LET ls == ReleaseAll(st, kind, count).leases
             IN  /\ ls[x] = [[live |-> l, session |-> m, history |-> h] EXCEPT ![kind] = @ - count[x]]
                 /\ x \in ReleaseAll(st, kind, count).gone <=>
                       x \in st.gone \/ (count[x] > 0 /\ Total(ls, x) = 0)
  <2>1. PICK ls : ls = [y \in Sources |-> [st.leases[y] EXCEPT ![kind] = @ - count[y]]]
    OBVIOUS
  <2>2. /\ ReleaseAll(st, kind, count).leases = ls
        /\ ReleaseAll(st, kind, count).gone =
              st.gone \cup {y \in Sources : count[y] > 0 /\ Total(ls, y) = 0}
    BY <2>1, Zenon DEF ReleaseAll
  <2>3. ls[x] = [[live |-> l, session |-> m, history |-> h] EXCEPT ![kind] = @ - count[x]]
    BY <2>1 DEF At
  <2>4. x \in ReleaseAll(st, kind, count).gone <=>
          x \in st.gone \/ (count[x] > 0 /\ Total(ls, x) = 0)
    BY <2>2, Zenon
  <2>. QED  BY <2>2, <2>3, <2>4, Zenon
<1>2. ASSUME NEW ls, ls[x] = [[live |-> l, session |-> m, history |-> h] EXCEPT !["live"] = @ - count[x]]
      PROVE  /\ ls[x] = [live |-> l - count[x], session |-> m, history |-> h]
             /\ Total(ls, x) = l - count[x] + m + h
  BY <1>2 DEF Total
<1>3. ASSUME NEW ls, ls[x] = [[live |-> l, session |-> m, history |-> h] EXCEPT !["session"] = @ - count[x]]
      PROVE  /\ ls[x] = [live |-> l, session |-> m - count[x], history |-> h]
             /\ Total(ls, x) = l + (m - count[x]) + h
  BY <1>3 DEF Total
<1>4. ASSUME NEW ls, ls[x] = [[live |-> l, session |-> m, history |-> h] EXCEPT !["history"] = @ - count[x]]
      PROVE  /\ ls[x] = [live |-> l, session |-> m, history |-> h - count[x]]
             /\ Total(ls, x) = l + m + (h - count[x])
  BY <1>4 DEF Total
<1>5. /\ At(ReleaseAll(st, "live", count), x, l - count[x], m, h)
      /\ x \in ReleaseAll(st, "live", count).gone <=>
            x \in st.gone \/ (count[x] > 0 /\ l - count[x] + m + h = 0)
  <2>1. PICK ls : ls = ReleaseAll(st, "live", count).leases
    OBVIOUS
  <2>2. /\ ls[x] = [[live |-> l, session |-> m, history |-> h] EXCEPT !["live"] = @ - count[x]]
        /\ x \in ReleaseAll(st, "live", count).gone <=>
              x \in st.gone \/ (count[x] > 0 /\ Total(ls, x) = 0)
    BY <1>1, <2>1, Zenon
  <2>. QED  BY <1>2, <2>1, <2>2, Zenon DEF At
<1>6. /\ At(ReleaseAll(st, "session", count), x, l, m - count[x], h)
      /\ x \in ReleaseAll(st, "session", count).gone <=>
            x \in st.gone \/ (count[x] > 0 /\ l + (m - count[x]) + h = 0)
  <2>1. PICK ls : ls = ReleaseAll(st, "session", count).leases
    OBVIOUS
  <2>2. /\ ls[x] = [[live |-> l, session |-> m, history |-> h] EXCEPT !["session"] = @ - count[x]]
        /\ x \in ReleaseAll(st, "session", count).gone <=>
              x \in st.gone \/ (count[x] > 0 /\ Total(ls, x) = 0)
    BY <1>1, <2>1, Zenon
  <2>. QED  BY <1>3, <2>1, <2>2, Zenon DEF At
<1>7. /\ At(ReleaseAll(st, "history", count), x, l, m, h - count[x])
      /\ x \in ReleaseAll(st, "history", count).gone <=>
            x \in st.gone \/ (count[x] > 0 /\ l + m + (h - count[x]) = 0)
  <2>1. PICK ls : ls = ReleaseAll(st, "history", count).leases
    OBVIOUS
  <2>2. /\ ls[x] = [[live |-> l, session |-> m, history |-> h] EXCEPT !["history"] = @ - count[x]]
        /\ x \in ReleaseAll(st, "history", count).gone <=>
              x \in st.gone \/ (count[x] > 0 /\ Total(ls, x) = 0)
    BY <1>1, <2>1, Zenon
  <2>. QED  BY <1>4, <2>1, <2>2, Zenon DEF At
<1>. QED  BY <1>5, <1>6, <1>7

\* The state of the leases when a layer is restored.
RestoreEnds(st, from, to, end) == end = RestoreLayer(st, from, to)

\* A layer is restored: one live lease goes, the other comes.
LEMMA RestoredAt ==
    ASSUME NEW st, NEW from, NEW to, NEW x \in Sources, NEW l \in Nat, NEW m \in Nat, NEW h \in Nat,
           NEW live, NEW end, RestoreEnds(st, from, to, end), At(st, x, l, m, h),
           Swapped(x, from, to, l, live)
    PROVE  /\ live \in Nat /\ At(end, x, live, m, h)
           /\ x \in end.gone <=> x \in st.gone \/ (from = x /\ live + m + h = 0)
<1> USE DEF Swapped
<1>1. PICK f : f = Once({from})[x]
  OBVIOUS
<1>2. PICK t : t = Once({to})[x]
  OBVIOUS
<1>3. f \in {0, 1} /\ t \in {0, 1} /\ f + t <= 1 /\ (f > 0 <=> from = x)
  BY <1>1, <1>2 DEF Once
<1>4. PICK s1 : s1 = AcquireAll(st, "session", Once({to}))
  OBVIOUS
<1>5. PICK s2 : s2 = ReleaseAll(s1, "live", Once({from}))
  OBVIOUS
<1>6. PICK s3 : s3 = AcquireAll(s2, "live", Once({to}))
  OBVIOUS
<1>7. PICK s4 : s4 = ReleaseAll(s3, "session", Once({to}))
  OBVIOUS
<1>8. s4 = end
  BY <1>4, <1>5, <1>6, <1>7, Zenon DEF RestoreLayer, RestoreEnds
<1>9. At(s1, x, l, m + t, h) /\ s1.gone = st.gone
  BY <1>2, <1>4, Acquired
<1>10. At(s2, x, l - f, m + t, h) /\ (x \in s2.gone <=> x \in s1.gone \/ (f > 0 /\ l - f + (m + t) + h = 0))
  BY <1>1, <1>5, <1>9, Released
<1>11. At(s3, x, l - f + t, m + t, h) /\ s3.gone = s2.gone
  BY <1>2, <1>6, <1>10, Acquired
<1>12. live \in Nat /\ live = l - f + t
  BY <1>1, <1>2, <1>3
<1>13. PICK j : j = m + t
  OBVIOUS
<1>14. At(s3, x, live, j, h)
  BY <1>11, <1>12, <1>13
<1>15. /\ At(s4, x, live, m, h)
       /\ x \in s4.gone <=> x \in s3.gone \/ (t > 0 /\ live + m + h = 0)
  <2>1. /\ At(s4, x, live, j - Once({to})[x], h)
        /\ x \in s4.gone <=> x \in s3.gone \/ (Once({to})[x] > 0 /\ live + (j - Once({to})[x]) + h = 0)
    BY <1>7, <1>14, Released
  <2>2. j - Once({to})[x] = m
    BY <1>2, <1>3, <1>13
  <2>. QED  BY <1>2, <2>1, <2>2
<1>16. x \in s4.gone <=> x \in st.gone \/ (f > 0 /\ live + m + h = 0)
  <2>1. t > 0 => live + m + h # 0
    BY <1>1, <1>3, <1>12
  <2>2. f > 0 => (l - f + (m + t) + h = 0 <=> live + m + h = 0)
    BY <1>1, <1>3, <1>12
  <2>. QED  BY <1>9, <1>10, <1>11, <1>15, <2>1, <2>2
<1>. QED  BY <1>3, <1>8, <1>12, <1>15, <1>16

\* Of two releases in a row, the last one that releases something decides.
LEMMA LastRelease ==
    ASSUME NEW k \in Nat, NEW q \in Nat, NEW r \in Nat, NEW e \in Nat, r + e <= q
    PROVE  (r > 0 /\ k + (q - r) = 0) \/ (e > 0 /\ k + (q - r - e) = 0)
           <=> r + e > 0 /\ k + (q - r - e) = 0
OBVIOUS

\* The leases of a source that a new command brings, and those that the redo
\* branch and the evicted commands lose, are counted among h and the new ones.
Accounted(c, x, h, o, r, e) ==
    /\ o \in Nat /\ r \in Nat /\ e \in Nat /\ r + e <= h + o
    /\ o = Held({c})[x] /\ r = Held(redo[c.scope])[x]
    /\ e = Held(Evicted(undo[c.scope] \cup {c}))[x]

\* A command is recorded: it brings its leases, what is dropped loses them.
LEMMA RecordedAt ==
    ASSUME NEW st, NEW c, NEW x \in Sources, NEW l \in Nat, NEW m \in Nat, NEW h \in Nat,
           NEW o, NEW r, NEW e, NEW left, At(st, x, l, m, h), Accounted(c, x, h, o, r, e),
           left = h + o - r - e
    PROVE  LET end == RecordLeases(st, c)
           IN  /\ left \in Nat /\ At(end, x, l, m, left)
               /\ x \in end.gone <=> x \in st.gone \/ (r + e > 0 /\ l + m + left = 0)
<1>1. PICK s1 : s1 = AcquireAll(st, "history", Held({c}))
  OBVIOUS
<1>2. PICK s2 : s2 = ReleaseAll(s1, "history", Held(redo[c.scope]))
  OBVIOUS
<1>3. PICK s3 : s3 = ReleaseAll(s2, "history", Held(Evicted(undo[c.scope] \cup {c})))
  OBVIOUS
<1> o \in Nat /\ r \in Nat /\ e \in Nat /\ r + e <= h + o
  BY DEF Accounted
<1>4. s3 = RecordLeases(st, c)
  BY <1>1, <1>2, <1>3, Zenon DEF RecordLeases
<1>5. At(s1, x, l, m, h + o) /\ s1.gone = st.gone
  BY <1>1, Acquired DEF Accounted
<1>6. At(s2, x, l, m, h + o - r) /\ (x \in s2.gone <=> x \in s1.gone \/ (r > 0 /\ l + m + (h + o - r) = 0))
  BY <1>2, <1>5, Released DEF Accounted
<1>7. At(s3, x, l, m, h + o - r - e) /\ (x \in s3.gone <=> x \in s2.gone \/ (e > 0 /\ l + m + (h + o - r - e) = 0))
  BY <1>3, <1>6, Released DEF Accounted
<1>8. x \in s3.gone <=> x \in st.gone \/ (r + e > 0 /\ l + m + (h + o - r - e) = 0)
  <2>1. (r > 0 /\ l + m + (h + o - r) = 0) \/ (e > 0 /\ l + m + (h + o - r - e) = 0)
        <=> r + e > 0 /\ l + m + (h + o - r - e) = 0
    <3>1. PICK k \in Nat : k = l + m
      OBVIOUS
    <3>2. PICK q \in Nat : q = h + o
      OBVIOUS
    <3>. QED  BY <3>1, <3>2, LastRelease
  <2>. QED  BY <1>5, <1>6, <1>7, <2>1
<1>. QED  BY <1>4, <1>7, <1>8

\* A whole transition.
LEMMA ReplacedAt ==
    ASSUME NEW c, NEW x \in Sources, NEW l \in Nat, NEW h \in Nat,
           NEW o, NEW r, NEW e, At(Now, x, l, 0, h), Accounted(c, x, h, o, r, e),
           c.kind = "layer", CommandFits(c), Once({c.before})[x] <= l
    PROVE  LET end == Replacement(c)
               live == l - Once({c.before})[x] + Once({c.after})[x]
               left == h + o - r - e
           IN  /\ live \in Nat /\ left \in Nat /\ At(end, x, live, 0, left)
               /\ l + h > 0 \/ c.after = x => (x \in end.gone <=> live + left = 0)
               /\ ~(l + h > 0 \/ c.after = x) => live + left = 0
<1>0. c.before # c.after /\ c.before \in Shown /\ c.after \in Shown
  BY DEF CommandFits
<1>1. PICK b : b = Once({c.before})[x]
  OBVIOUS
<1>2. PICK a : a = Once({c.after})[x]
  OBVIOUS
<1>3. PICK p : p = Once(ResourcesOf(c))[x]
  OBVIOUS
<1>4. /\ b = (IF x = c.before THEN 1 ELSE 0) /\ a = (IF x = c.after THEN 1 ELSE 0)
      /\ p = (IF x \in {c.before, c.after} THEN 1 ELSE 0)
  BY <1>0, <1>1, <1>2, <1>3, LimitAssumption DEF Once, ResourcesOf
<1>5. o = p /\ r \in Nat /\ e \in Nat /\ r + e <= h + o
  BY <1>3, HeldByOne DEF Once, Accounted
<1>6. a \in {0, 1} /\ b \in {0, 1} /\ p = a + b
  BY <1>0, <1>4
<1>7. PICK s1 : s1 = AcquireAll(Now, "session", Once(ResourcesOf(c)))
  OBVIOUS
<1>8. PICK s2 : s2 = RestoreLayer(s1, c.before, c.after) /\ RestoreEnds(s1, c.before, c.after, s2)
  BY DEF RestoreEnds
<1>9. PICK s3 : s3 = RecordLeases(s2, c)
  OBVIOUS
<1>10. PICK s4 : s4 = ReleaseAll(s3, "session", Once(ResourcesOf(c)))
  OBVIOUS
<1>11. s4 = Replacement(c)
  BY <1>7, <1>8, <1>9, <1>10, Zenon DEF Replacement
<1>12. PICK session \in Nat : session = 0 + p
  BY <1>6
<1>13. At(s1, x, l, session, h) /\ x \notin s1.gone
  <2>1. Now.gone = {}
    BY DEF Now
  <2>. QED  BY <1>3, <1>7, <1>12, <2>1, Acquired
<1>14. /\ l - b + a \in Nat /\ At(s2, x, l - b + a, session, h)
       /\ x \in s2.gone <=> x \in s1.gone \/ (b > 0 /\ l - b + a + session + h = 0)
  <2>1. PICK live : live = l - b + a
    OBVIOUS
  <2>2. Swapped(x, c.before, c.after, l, live)
    BY <1>0, <1>1, <1>2, <2>1 DEF Swapped
  <2>3. At(s1, x, l, session, h)
    BY <1>13
  <2>4. /\ live \in Nat /\ At(s2, x, live, session, h)
        /\ x \in s2.gone <=> x \in s1.gone \/ (c.before = x /\ live + session + h = 0)
    <3>1. RestoreEnds(s1, c.before, c.after, s2)
      BY <1>8
    <3>2. live \in Nat
      BY <1>1, <1>6, <2>1
    <3>3. At(s2, x, live, session, h)
      BY <2>2, <2>3, <3>1, RestoredAt
    <3>4. x \in s2.gone <=> x \in s1.gone \/ (c.before = x /\ live + session + h = 0)
      BY <2>2, <2>3, <3>1, RestoredAt
    <3>. QED  BY <3>2, <3>3, <3>4
  <2>. QED  BY <1>4, <2>1, <2>4
<1>15. PICK live \in Nat : live = l - b + a
  BY <1>14
<1>16. PICK left \in Nat : left = h + o - r - e
  BY <1>5, <1>6
<1>17. At(s2, x, live, session, h)
  BY <1>14, <1>15
<1>18. /\ At(s3, x, live, session, left)
       /\ x \in s3.gone <=> x \in s2.gone \/ (r + e > 0 /\ live + session + left = 0)
  <2>1. LET end == RecordLeases(s2, c)
        IN  /\ At(end, x, live, session, left)
            /\ x \in end.gone <=> x \in s2.gone \/ (r + e > 0 /\ live + session + left = 0)
    BY <1>16, <1>17, RecordedAt
  <2>. QED  BY <1>9, <2>1, Zenon
<1>19. /\ At(s4, x, live, 0, left)
       /\ x \in s4.gone <=> x \in s3.gone \/ (p > 0 /\ live + left = 0)
  <2>1. /\ At(s4, x, live, session - Once(ResourcesOf(c))[x], left)
        /\ x \in s4.gone <=> x \in s3.gone
                 \/ (Once(ResourcesOf(c))[x] > 0 /\ live + (session - Once(ResourcesOf(c))[x]) + left = 0)
    BY <1>10, <1>18, Released
  <2>2. session - Once(ResourcesOf(c))[x] = 0
    BY <1>3, <1>6, <1>12
  <2>3. live + 0 + left = live + left
    BY <1>15, <1>16
  <2>. QED  BY <1>3, <2>1, <2>2, <2>3
<1>20. x \notin s2.gone
  BY <1>6, <1>12, <1>13, <1>14
<1>21. ASSUME l + h > 0 \/ c.after = x PROVE x \in s4.gone <=> live + left = 0
  <2>1. CASE p > 0
    BY <1>6, <1>12, <1>18, <1>19, <1>20, <2>1
  <2>2. CASE p = 0
    <3>1. a = 0 /\ b = 0 /\ o = 0 /\ l + h > 0
      BY <1>4, <1>5, <1>6, <1>21, <2>2
    <3>2. live = l /\ left = h - r - e
      BY <1>5, <1>15, <1>16, <3>1
    <3>3. live + left = 0 => r + e > 0
      BY <1>5, <3>1, <3>2
    <3>. QED  BY <1>12, <1>18, <1>19, <1>20, <2>2, <3>3
  <2>. QED  BY <1>6, <2>1, <2>2
<1>22. ASSUME ~(l + h > 0 \/ c.after = x) PROVE live + left = 0
  <2>1. l = 0 /\ h = 0 /\ a = 0 /\ b = 0
    BY <1>1, <1>4, <1>22
  <2>2. o = 0 /\ r + e <= 0
    BY <1>5, <1>6, <2>1
  <2>3. live = 0 /\ left = 0 - r - e
    BY <1>5, <1>15, <1>16, <2>1, <2>2
  <2>. QED  BY <1>5, <2>2, <2>3
<1>. QED  BY <1>1, <1>2, <1>11, <1>15, <1>16, <1>19, <1>21, <1>22

-----------------------------------------------------------------------------
(* What a step leaves: the leases of what is shown and of what is retained *)

Retaining(us, rs) == UNION {us[t] \cup rs[t] : t \in Scopes}

\* A source with so many leases exists if it has any.
Settled(end, existing, x, l, h) ==
    l \in Nat /\ h \in Nat /\ At(end, x, l, 0, h) /\ (x \in existing \ end.gone <=> l + h > 0)
Balanced(end, existing, shown, us, rs) ==
    /\ \E f : end.leases = [x \in Sources |-> f[x]]
    /\ \A x \in Sources : Settled(end, existing, x, LiveOf(shown, x), Held(Retaining(us, rs))[x])

\* The source of a stroke is shown or leased by a transition: a stroke never
\* depends on another composition for its source.
LEMMA StrokeIsLeased ==
    ASSUME NEW s, NEW K, NEW U, NEW n \in Nat, Chronicle(s, K, U, n), NEW l, LayersFit(K, U, l),
           NEW c \in K \cup U, c.kind = "paint"
    PROVE  c.source = l \/ \E d \in K \cup U : c.source \in ResourcesOf(d)
<1>1. c.source \in Sources /\ NoSource \notin Sources
  BY LimitAssumption DEF Chronicle, CommandFits
<1>2. OfKind(K, "layer") \subseteq K /\ OfKind(U, "layer") \subseteq U
  BY DEF OfKind
<1>3. \A P \in SUBSET (K \cup U) : NumberedTo(P, n)
  BY NumberedParts
<1>4. StrokesBehind(K, l) /\ StrokesAhead(U, l)
  BY DEF LayersFit
<1>5. CASE c \in K
  <2>1. PICK newer : newer = {d \in OfKind(K, "layer") : c.id < d.id}
    OBVIOUS
  <2>2. c \in OfKind(K, "paint")
    BY <1>5 DEF OfKind
  <2>3. /\ (\A d \in OfKind(K, "layer") : d.id <= c.id) => c.source = l
        /\ \A d \in OfKind(K, "layer") :
              Neighbours(OfKind(K, "layer") \cup {c}, c, d) => d.before = c.source
    BY <1>4, <2>2, Zenon DEF StrokesBehind
  <2>4. CASE newer = {}
    <3>1. \A d \in OfKind(K, "layer") : d.id <= c.id
      BY <1>2, <1>3, <2>1, <2>4 DEF NumberedTo
    <3>. QED  BY <2>3, <3>1
  <2>5. CASE newer # {}
    <3>1. newer \in SUBSET (K \cup U)
      BY <1>2, <2>1
    <3>2. NumberedTo(newer, n)
      BY <1>3, <3>1
    <3>3. PICK d \in newer : \A e \in newer : d.id <= e.id
      BY <2>5, <3>2, OldestOf
    <3>4. Neighbours(OfKind(K, "layer") \cup {c}, c, d)
      BY <1>2, <1>3, <2>1, <3>3 DEF NumberedTo, Neighbours
    <3>5. d.before = c.source /\ d.kind = "layer" /\ d \in K
      BY <1>2, <2>1, <2>3, <3>4 DEF OfKind
    <3>. QED  BY <1>1, <3>5 DEF ResourcesOf
  <2>. QED  BY <2>4, <2>5
<1>6. CASE c \in U
  <2>1. PICK older : older = {d \in OfKind(U, "layer") : d.id < c.id}
    OBVIOUS
  <2>2. c \in OfKind(U, "paint")
    BY <1>6 DEF OfKind
  <2>3. /\ (\A d \in OfKind(U, "layer") : c.id <= d.id) => c.source = l
        /\ \A d \in OfKind(U, "layer") :
              Neighbours(OfKind(U, "layer") \cup {c}, d, c) => d.after = c.source
    BY <1>4, <2>2, Zenon DEF StrokesAhead
  <2>4. CASE older = {}
    <3>1. \A d \in OfKind(U, "layer") : c.id <= d.id
      BY <1>2, <1>3, <2>1, <2>4 DEF NumberedTo
    <3>. QED  BY <2>3, <3>1
  <2>5. CASE older # {}
    <3>1. older \in SUBSET (K \cup U)
      BY <1>2, <2>1
    <3>2. NumberedTo(older, n)
      BY <1>3, <3>1
    <3>3. PICK d \in older : \A e \in older : e.id <= d.id
      BY <2>5, <3>2, NewestOf
    <3>4. Neighbours(OfKind(U, "layer") \cup {c}, d, c)
      BY <1>2, <1>3, <2>1, <3>3 DEF NumberedTo, Neighbours
    <3>5. d.after = c.source /\ d.kind = "layer" /\ d \in U
      BY <1>2, <2>1, <2>3, <3>4 DEF OfKind
    <3>. QED  BY <1>1, <3>5 DEF ResourcesOf
  <2>. QED  BY <2>4, <2>5
<1>. QED  BY <1>5, <1>6

\* There are finitely many commands.
LEMMA RetainingFinite ==
    ASSUME NEW us, NEW rs, \A s \in Scopes : IsFiniteSet(us[s]) /\ IsFiniteSet(rs[s])
    PROVE  IsFiniteSet(Retaining(us, rs))
<1>1. PICK F : F = [t \in Scopes |-> us[t] \cup rs[t]]
  OBVIOUS
<1>2. PICK B : B = {F[t] : t \in Scopes}
  OBVIOUS
<1>3. F \in Surjection(Scopes, B)
  BY <1>1, <1>2 DEF Surjection
<1>4. IsFiniteSet(B)
  BY <1>3, ScopesFinite, FS_Surjection
<1>5. \A T \in B : IsFiniteSet(T)
  <2>1. \A t \in Scopes : IsFiniteSet(us[t] \cup rs[t])
    BY FS_Union
  <2>. QED  BY <1>1, <1>2, <2>1
<1>6. Retaining(us, rs) = UNION B
  BY <1>1, <1>2 DEF Retaining
<1>. QED  BY <1>4, <1>5, <1>6, FS_UNION

\* A step that leaves the leases balanced disposes of no stroke that stays.
LEMMA LeasesConclude ==
    ASSUME NEW end, NEW existing \in SUBSET Sources, NEW us, NEW rs, NEW n \in Nat, NEW shown,
           Balanced(end, existing, shown, us, rs),
           \A s \in Scopes : Chronicle(s, us[s], rs[s], n) /\ LayersFit(us[s], rs[s], shown[s]),
           Conclude(existing, end, us, rs), layer' = shown
    PROVE  /\ DOMAIN undo' = Scopes /\ DOMAIN redo' = Scopes
           /\ \A s \in Scopes : undo'[s] = us[s] /\ redo'[s] = rs[s]
           /\ leases' \in [Sources -> [live : Nat, session : Nat, history : Nat]]
           /\ LeasesAreExact'
           /\ \A x \in Sources : x \in payload' <=> Total(leases', x) > 0
           /\ payload' \subseteq existing
<1>1. \A s \in Scopes : IsFiniteSet(us[s]) /\ IsFiniteSet(rs[s])
  BY DEF Chronicle
<1>2. IsFiniteSet(Retaining(us, rs))
  BY <1>1, RetainingFinite
<1>3. \A x \in Sources : Settled(end, existing, x, LiveOf(shown, x), Held(Retaining(us, rs))[x])
  BY DEF Balanced
<1>4. ASSUME NEW x \in Sources, NEW s \in Scopes, shown[s] = x PROVE x \notin end.gone
  <2>1. PICK F : F = {t \in Scopes : shown[t] = x}
    OBVIOUS
  <2>2. IsFiniteSet(F) /\ F # {}
    BY <1>4, <2>1, ScopesFinite, FS_Subset
  <2>3. LiveOf(shown, x) = Cardinality(F) /\ Cardinality(F) # 0
    BY <2>1, <2>2, FS_EmptySet DEF LiveOf
  <2>. QED  BY <1>3, <2>3 DEF Settled
<1>5. ASSUME NEW x \in Sources, NEW d \in Retaining(us, rs), x \in ResourcesOf(d)
      PROVE  x \notin end.gone
  <2>1. Held(Retaining(us, rs))[x] > 0
    BY <1>2, <1>5, HeldCounts
  <2>. QED  BY <1>3, <2>1 DEF Settled
<1>6. ASSUME NEW s \in Scopes, NEW c \in us[s] \cup rs[s], c.kind = "paint"
      PROVE  c.source \notin end.gone
  <2>1. c.source = shown[s] \/ \E d \in us[s] \cup rs[s] : c.source \in ResourcesOf(d)
    BY <1>6, StrokeIsLeased
  <2>2. c.source \in Sources
    BY <1>6 DEF Chronicle, CommandFits
  <2>3. us[s] \cup rs[s] \subseteq Retaining(us, rs)
    BY DEF Retaining
  <2>. QED  BY <1>4, <1>5, <2>1, <2>2, <2>3
<1>7. \A s \in Scopes : Disposed(us[s], end.gone) = us[s] /\ Disposed(rs[s], end.gone) = rs[s]
  BY <1>6 DEF Disposed
<1>8. /\ leases' = end.leases /\ payload' = existing \ end.gone
      /\ undo' = [s \in Scopes |-> Disposed(us[s], end.gone)]
      /\ redo' = [s \in Scopes |-> Disposed(rs[s], end.gone)]
  BY DEF Conclude
<1>9. \A s \in Scopes : undo'[s] = us[s] /\ redo'[s] = rs[s]
  BY <1>7, <1>8
<1>10. DOMAIN undo' = Scopes /\ DOMAIN redo' = Scopes
  BY <1>8
<1>11. \A x \in Sources :
          /\ leases'[x] = [live |-> LiveOf(shown, x), session |-> 0, history |-> Held(Retaining(us, rs))[x]]
          /\ LiveOf(shown, x) \in Nat /\ Held(Retaining(us, rs))[x] \in Nat
          /\ x \in payload' <=> LiveOf(shown, x) + Held(Retaining(us, rs))[x] > 0
  BY <1>3, <1>8 DEF Settled, At
<1>12. leases' \in [Sources -> [live : Nat, session : Nat, history : Nat]]
  <2>1. PICK f : leases' = [x \in Sources |-> f[x]]
    BY <1>8 DEF Balanced
  <2>2. ASSUME NEW x \in Sources PROVE leases'[x] \in [live : Nat, session : Nat, history : Nat]
    <3>1. PICK l \in Nat : l = LiveOf(shown, x)
      BY <1>11
    <3>2. PICK h \in Nat : h = Held(Retaining(us, rs))[x]
      BY <1>11
    <3>3. leases'[x] = [live |-> l, session |-> 0, history |-> h]
      BY <1>11, <3>1, <3>2
    <3>. QED  BY <3>3
  <2>. QED  BY <2>1, <2>2
<1>13. ASSUME NEW x \in Sources
       PROVE  Total(leases', x) = LiveOf(shown, x) + Held(Retaining(us, rs))[x]
  <2>1. PICK l \in Nat : l = LiveOf(shown, x)
    BY <1>11
  <2>2. PICK h \in Nat : h = Held(Retaining(us, rs))[x]
    BY <1>11
  <2>3. leases'[x] = [live |-> l, session |-> 0, history |-> h]
    BY <1>11, <2>1, <2>2
  <2>. QED  BY <2>1, <2>2, <2>3 DEF Total
<1>14. UNION {EntriesOf(t)' : t \in Scopes} = Retaining(us, rs)
  BY <1>9 DEF EntriesOf, Retaining
<1>15. LeasesAreExact'
  <2> SUFFICES ASSUME NEW x \in Sources
               PROVE  /\ leases'[x].live = Cardinality({s \in Scopes : layer'[s] = x})
                      /\ leases'[x].session = 0
                      /\ leases'[x].history = Held(UNION {EntriesOf(t)' : t \in Scopes})[x]
                      /\ x \in payload' => Total(leases', x) > 0
    BY Zenon DEF LeasesAreExact, Held, ResourcesOf, Total
  <2>1. leases'[x].live = LiveOf(shown, x) /\ leases'[x].session = 0
        /\ leases'[x].history = Held(Retaining(us, rs))[x]
    <3>1. PICK l : l = LiveOf(shown, x)
      OBVIOUS
    <3>2. PICK h : h = Held(Retaining(us, rs))[x]
      OBVIOUS
    <3>3. leases'[x] = [live |-> l, session |-> 0, history |-> h]
      BY <1>11, <3>1, <3>2
    <3>. QED  BY <3>1, <3>2, <3>3
  <2>2. x \in payload' => Total(leases', x) > 0
    BY <1>11, <1>13
  <2>. QED  BY <1>14, <2>1, <2>2 DEF LiveOf
<1>. QED  BY <1>8, <1>9, <1>10, <1>11, <1>12, <1>13, <1>15

-----------------------------------------------------------------------------
(* The soft limits, and what a recorded command does to the leases.        *)

\* A product grows with its second factor.
LEMMA BytesOfMore ==
    ASSUME NEW n \in Nat, NEW i \in Nat, NEW j \in Nat, i <= j
    PROVE  n * i \in Nat /\ n * i <= n * j
<1>1. PICK k \in Nat : j = i + k
  <2>1. j - i \in Nat /\ j = i + (j - i)
    OBVIOUS
  <2>. QED  BY <2>1
<1>2. n * j = n * i + n * k /\ n * i \in Nat /\ n * k \in Nat
  BY <1>1
<1>. QED  BY <1>2

\* Fewer commands retain no more bytes.
LEMMA FewerCost ==
    ASSUME NEW cs, IsFiniteSet(cs), NEW ds \in SUBSET cs
    PROVE  /\ Cardinality(ds) \in Nat /\ Cardinality(cs) \in Nat /\ Bytes(cs) \in Nat /\ Bytes(ds) \in Nat
           /\ Cardinality(ds) <= Cardinality(cs) /\ Bytes(ds) <= Bytes(cs)
<1>1. Cardinality(ds) \in Nat /\ Cardinality(cs) \in Nat /\ Cardinality(ds) <= Cardinality(cs)
  BY FS_Subset, FS_CardinalityType
<1>2. ASSUME NEW kind \in Kinds
      PROVE  LET few == BytesOf[kind] * Cardinality(OfKind(ds, kind))
                 many == BytesOf[kind] * Cardinality(OfKind(cs, kind))
             IN  few \in Nat /\ many \in Nat /\ few <= many
  <2>1. IsFiniteSet(OfKind(cs, kind)) /\ OfKind(ds, kind) \in SUBSET OfKind(cs, kind)
    <3>1. OfKind(cs, kind) \in SUBSET cs /\ OfKind(ds, kind) \in SUBSET OfKind(cs, kind)
      BY DEF OfKind
    <3>. QED  BY <3>1, FS_Subset
  <2>2. PICK i \in Nat : i = Cardinality(OfKind(ds, kind))
    BY <2>1, FS_Subset, FS_CardinalityType
  <2>3. PICK j \in Nat : j = Cardinality(OfKind(cs, kind))
    BY <2>1, FS_CardinalityType
  <2>4. i <= j
    BY <2>1, <2>2, <2>3, FS_Subset
  <2>5. PICK n \in Nat : n = BytesOf[kind]
    BY LimitAssumption
  <2>6. n * i \in Nat /\ n * j \in Nat /\ n * i <= n * j
    BY <2>4, BytesOfMore
  <2>. QED  BY <2>2, <2>3, <2>5, <2>6
<1> DEFINE cost(branch, kind) == BytesOf[kind] * Cardinality(OfKind(branch, kind))
<1>3. /\ Bytes(ds) = cost(ds, "layer") + cost(ds, "paint") + cost(ds, "select")
      /\ Bytes(cs) = cost(cs, "layer") + cost(cs, "paint") + cost(cs, "select")
  BY DEF Bytes
<1>4. \A kind \in Kinds : cost(ds, kind) \in Nat /\ cost(cs, kind) \in Nat /\ cost(ds, kind) <= cost(cs, kind)
  BY <1>2
<1> HIDE DEF cost
<1>. QED  BY <1>1, <1>3, <1>4 DEF Kinds

\* A class of commands within the limits, where the newest is not counted.
WithinLimits(cs) == Cardinality(cs) > 1 => Cardinality(cs) <= CommandLimit /\ Bytes(cs) <= ByteLimit

\* What is retained of a class: its newest commands, as many as the limits admit.
LEMMA RetainedFits ==
    ASSUME NEW cs, IsFiniteSet(cs), NEW n, NumberedTo(cs, n)
    PROVE  /\ Retained(cs) \subseteq cs
           /\ \A d \in Retained(cs), e \in cs : d.id <= e.id => e \in Retained(cs)
           /\ \A c \in cs : (\A d \in cs : d.id <= c.id) => c \in Retained(cs)
           /\ WithinLimits(Retained(cs))
<1>1. \A c \in cs : c \in Retained(cs) <=>
         \/ Since(cs, c) = {c}
         \/ Cardinality(Since(cs, c)) <= CommandLimit /\ Bytes(Since(cs, c)) <= ByteLimit
  BY DEF Retained, RetainedWithin
<1>2. Retained(cs) \subseteq cs
  BY DEF Retained, RetainedWithin
<1>3. \A c \in cs : Since(cs, c) \in SUBSET cs /\ IsFiniteSet(Since(cs, c)) /\ c \in Since(cs, c)
  <2> TAKE c \in cs
  <2>1. Since(cs, c) \in SUBSET cs /\ c \in Since(cs, c)
    BY DEF Since, NumberedTo
  <2>. QED  BY <2>1, FS_Subset
<1>4. ASSUME NEW d \in Retained(cs), NEW e \in cs, d.id <= e.id PROVE e \in Retained(cs)
  <2>1. Since(cs, e) \in SUBSET Since(cs, d) /\ e \in Since(cs, d)
    BY <1>2, <1>4 DEF Since, NumberedTo
  <2>2. CASE Since(cs, d) = {d}
    BY <2>1, <2>2
  <2>3. CASE Cardinality(Since(cs, d)) <= CommandLimit /\ Bytes(Since(cs, d)) <= ByteLimit
    <3>1. /\ Cardinality(Since(cs, e)) \in Nat /\ Cardinality(Since(cs, d)) \in Nat
          /\ Bytes(Since(cs, e)) \in Nat /\ Bytes(Since(cs, d)) \in Nat
          /\ Cardinality(Since(cs, e)) <= Cardinality(Since(cs, d))
          /\ Bytes(Since(cs, e)) <= Bytes(Since(cs, d))
      BY <1>2, <1>3, <2>1, FewerCost
    <3>2. Cardinality(Since(cs, e)) <= CommandLimit /\ Bytes(Since(cs, e)) <= ByteLimit
      BY <2>3, <3>1, LimitAssumption
    <3>. QED  BY <1>1, <3>2
  <2>. QED  BY <1>1, <1>2, <2>2, <2>3
<1>5. ASSUME NEW c \in cs, \A d \in cs : d.id <= c.id PROVE c \in Retained(cs)
  <2>1. Since(cs, c) = {c}
    BY <1>5 DEF Since, NumberedTo
  <2>. QED  BY <1>1, <2>1
<1>6. ASSUME Cardinality(Retained(cs)) > 1
      PROVE  Cardinality(Retained(cs)) <= CommandLimit /\ Bytes(Retained(cs)) <= ByteLimit
  <2>1. NumberedTo(Retained(cs), n)
    BY <1>2 DEF NumberedTo
  <2>2. Retained(cs) # {}
    BY <1>6, FS_EmptySet
  <2>3. PICK c \in Retained(cs) : \A d \in Retained(cs) : c.id <= d.id
    BY <2>1, <2>2, OldestOf
  <2>4. c \in cs /\ Retained(cs) \in SUBSET Since(cs, c)
    BY <1>2, <2>3 DEF Since
  <2>5. Since(cs, c) # {c}
    <3>1. SUFFICES ASSUME Since(cs, c) = {c} PROVE FALSE
      OBVIOUS
    <3>2. Retained(cs) = {c}
      BY <2>3, <2>4, <3>1
    <3>3. Cardinality(Retained(cs)) = 1
      BY <3>2, FS_Singleton
    <3>. QED  BY <1>6, <3>3
  <2>6. Cardinality(Since(cs, c)) <= CommandLimit /\ Bytes(Since(cs, c)) <= ByteLimit
    BY <1>1, <2>4, <2>5
  <2>7. /\ Cardinality(Retained(cs)) \in Nat /\ Cardinality(Since(cs, c)) \in Nat
        /\ Bytes(Retained(cs)) \in Nat /\ Bytes(Since(cs, c)) \in Nat
        /\ Cardinality(Retained(cs)) <= Cardinality(Since(cs, c))
        /\ Bytes(Retained(cs)) <= Bytes(Since(cs, c))
    BY <1>3, <2>4, FewerCost
  <2>. QED  BY <2>6, <2>7, LimitAssumption
<1>. QED  BY <1>2, <1>4, <1>5, <1>6 DEF WithinLimits

\* What is kept of a branch: of each class its newest commands.
LEMMA KeptFits ==
    ASSUME NEW branch, IsFiniteSet(branch), NEW n, NumberedTo(branch, n),
           \A c \in branch : c.kind \in Kinds
    PROVE  /\ KeepsNewer(Kept(branch), branch)
           /\ \A c \in branch : (\A d \in branch : d.id <= c.id) => c \in Kept(branch)
           /\ \A class \in Classes : WithinLimits(OfClass(Kept(branch), class))
<1>1. \A class \in Classes : /\ IsFiniteSet(OfClass(branch, class))
                            /\ NumberedTo(OfClass(branch, class), n)
                            /\ OfClass(branch, class) \subseteq branch
  <2> TAKE class \in Classes
  <2>1. OfClass(branch, class) \in SUBSET branch
    BY DEF OfClass
  <2>. QED  BY <2>1, FS_Subset DEF NumberedTo
<1>2. \A class \in Classes :
         /\ Retained(OfClass(branch, class)) \subseteq OfClass(branch, class)
         /\ \A d \in Retained(OfClass(branch, class)), e \in OfClass(branch, class) :
               d.id <= e.id => e \in Retained(OfClass(branch, class))
         /\ \A c \in OfClass(branch, class) :
               (\A d \in OfClass(branch, class) : d.id <= c.id) => c \in Retained(OfClass(branch, class))
         /\ WithinLimits(Retained(OfClass(branch, class)))
  BY <1>1, RetainedFits
<1>3. \A class \in Classes : OfClass(Kept(branch), class) = Retained(OfClass(branch, class))
  <2>1. \A c, d \in Classes : c # d => c \cap d = {}
    BY DEF Classes
  <2>2. \A class \in Classes : \A c \in Retained(OfClass(branch, class)) : c.kind \in class
    BY <1>2 DEF OfClass
  <2>3. \A c : c \in Kept(branch) <=> \E class \in Classes : c \in Retained(OfClass(branch, class))
    BY DEF Kept
  <2> TAKE class \in Classes
  <2>4. ASSUME NEW c \in Retained(OfClass(branch, class)) PROVE c \in OfClass(Kept(branch), class)
    BY <2>2, <2>3 DEF OfClass
  <2>5. ASSUME NEW c \in OfClass(Kept(branch), class) PROVE c \in Retained(OfClass(branch, class))
    <3>1. c \in Kept(branch) /\ c.kind \in class
      BY DEF OfClass
    <3>2. PICK other \in Classes : c \in Retained(OfClass(branch, other))
      BY <2>3, <3>1
    <3>3. other = class
      BY <2>1, <2>2, <3>1, <3>2
    <3>. QED  BY <3>2, <3>3
  <2>. QED  BY <2>4, <2>5
<1>4. ASSUME NEW d \in Kept(branch), NEW e \in branch,
             d.kind = "select" <=> e.kind = "select", d.id <= e.id
      PROVE  e \in Kept(branch)
  <2>1. PICK class \in Classes : d \in Retained(OfClass(branch, class))
    BY DEF Kept
  <2>2. d \in branch /\ d.kind \in class
    BY <1>2, <2>1 DEF OfClass
  <2>3. e.kind \in class
    BY <1>4, <2>2 DEF Classes, Kinds
  <2>4. e \in Retained(OfClass(branch, class))
    BY <1>2, <1>4, <2>1, <2>3 DEF OfClass
  <2>. QED  BY <2>4 DEF Kept
<1>5. Kept(branch) \subseteq branch
  BY <1>1, <1>2 DEF Kept
<1>6. ASSUME NEW c \in branch, \A d \in branch : d.id <= c.id PROVE c \in Kept(branch)
  <2>1. PICK class \in Classes : c.kind \in class
    BY DEF Classes, Kinds
  <2>2. c \in OfClass(branch, class)
    BY <2>1 DEF OfClass
  <2>3. c \in Retained(OfClass(branch, class))
    BY <1>1, <1>2, <1>6, <2>2
  <2>. QED  BY <2>3 DEF Kept
<1>. QED  BY <1>2, <1>3, <1>4, <1>5, <1>6 DEF KeepsNewer

\* What remains retained when a command is recorded.
LEMMA RecordRetains ==
    ASSUME BranchesFit, NEW c, CommandFits(c), c.id = recorded + 1, NEW x \in Sources
    PROVE  LET h == Held(Retaining(undo, redo))[x]
               o == Held({c})[x]
               r == Held(redo[c.scope])[x]
               e == Held(Evicted(undo[c.scope] \cup {c}))[x]
           IN  /\ h \in Nat /\ Accounted(c, x, h, o, r, e)
               /\ Held(Retaining([undo EXCEPT ![c.scope] = Kept(@ \cup {c})],
                                 [redo EXCEPT ![c.scope] = {}]))[x] = h + o - r - e
<1>1. PICK s \in Scopes : s = c.scope
  BY DEF CommandFits
<1>2. PICK all : all = Retaining(undo, redo)
  OBVIOUS
<1>3. PICK branch : branch = undo[s] \cup {c}
  OBVIOUS
<1>4. recorded \in Nat /\ \A t \in Scopes : Chronicle(t, undo[t], redo[t], recorded)
  BY DEF BranchesFit
<1>5. IsFiniteSet(all)
  BY <1>2, <1>4, RetainingFinite DEF Chronicle
<1>6. \A d : d \in all <=> \E t \in Scopes : d \in undo[t] \cup redo[t]
  BY <1>2 DEF Retaining
<1>7. \A t \in Scopes : \A d \in undo[t] \cup redo[t] : d.scope = t /\ d.id \in 1..recorded
  BY <1>4 DEF Chronicle
<1>8. c \notin all
  BY <1>4, <1>6, <1>7
<1>9. \A d \in undo[s], e \in redo[s] : d.id < e.id
  BY <1>4 DEF Chronicle
<1>10. Kept(branch) \subseteq branch /\ Evicted(branch) = branch \ Kept(branch)
  BY DEF Kept, Retained, RetainedWithin, OfClass, Evicted
<1>11. PICK rest : rest = (all \cup {c}) \ redo[s]
  OBVIOUS
<1>12. redo[s] \in SUBSET (all \cup {c})
  BY <1>6
<1>13. Evicted(branch) \in SUBSET rest
  <2>1. ASSUME NEW d \in branch PROVE d \in all \cup {c} /\ d \notin redo[s]
    <3>1. CASE d = c
      BY <1>6, <1>8, <3>1
    <3>2. CASE d \in undo[s]
      BY <1>4, <1>6, <1>7, <1>9, <3>2
    <3>. QED  BY <1>3, <3>1, <3>2
  <2>. QED  BY <1>10, <1>11, <2>1
<1>14. PICK us : us = [undo EXCEPT ![s] = Kept(branch)]
  OBVIOUS
<1>15. PICK rs : rs = [redo EXCEPT ![s] = {}]
  OBVIOUS
<1>16. /\ us[s] = Kept(branch) /\ rs[s] = {}
       /\ \A t \in Scopes \ {s} : us[t] = undo[t] /\ rs[t] = redo[t]
  BY <1>14, <1>15 DEF BranchesFit
<1>17. \A d : d \in Retaining(us, rs) <=> \E t \in Scopes : d \in us[t] \cup rs[t]
  BY DEF Retaining
<1>18. ASSUME NEW d \in Retaining(us, rs) PROVE d \in rest \ Evicted(branch)
  <2>1. PICK t \in Scopes : d \in us[t] \cup rs[t]
    BY <1>17
  <2>2. CASE t = s
    <3>1. d \in Kept(branch) /\ d \in branch
      BY <1>10, <1>16, <2>1, <2>2
    <3>2. d \in all \cup {c} /\ d \notin redo[s]
      BY <1>3, <1>4, <1>6, <1>7, <1>8, <1>9, <3>1
    <3>. QED  BY <1>10, <1>11, <3>1, <3>2
  <2>3. CASE t # s
    <3>1. d \in undo[t] \cup redo[t] /\ d.scope = t
      BY <1>7, <1>16, <2>1, <2>3
    <3>2. d \in all /\ d # c /\ d \notin undo[s] /\ d \notin redo[s]
      BY <1>6, <1>7, <1>8, <2>3, <3>1
    <3>. QED  BY <1>3, <1>10, <1>11, <3>2
  <2>. QED  BY <2>2, <2>3
<1>19. ASSUME NEW d \in rest \ Evicted(branch) PROVE d \in Retaining(us, rs)
  <2>1. d \in all \cup {c} /\ d \notin redo[s] /\ ~(d \in branch /\ d \notin Kept(branch))
    BY <1>10, <1>11
  <2>2. CASE d \in branch
    BY <1>16, <1>17, <2>1, <2>2
  <2>3. CASE d \notin branch
    <3>1. d # c /\ d \notin undo[s]
      BY <1>3, <2>3
    <3>2. PICK t \in Scopes : d \in undo[t] \cup redo[t]
      BY <1>6, <2>1, <3>1
    <3>3. t # s
      BY <2>1, <3>1, <3>2
    <3>. QED  BY <1>16, <1>17, <3>2, <3>3
  <2>. QED  BY <2>2, <2>3
<1>20. Retaining(us, rs) = rest \ Evicted(branch)
  BY <1>18, <1>19
<1>21. /\ Held(all)[x] \in Nat /\ Held({c})[x] \in Nat
       /\ Held(all \cup {c})[x] = Held(all)[x] + Held({c})[x]
  BY <1>5, <1>8, HeldCounts, HeldAdds, HeldByOne
<1>22. IsFiniteSet(all \cup {c}) /\ IsFiniteSet(rest)
  BY <1>5, <1>11, FS_AddElement, FS_Subset
<1>23. /\ Held(rest)[x] = Held(all \cup {c})[x] - Held(redo[s])[x]
       /\ Held(redo[s])[x] \in Nat /\ Held(redo[s])[x] <= Held(all \cup {c})[x]
  BY <1>11, <1>12, <1>22, HeldRemoves
<1>24. /\ Held(Retaining(us, rs))[x] = Held(rest)[x] - Held(Evicted(branch))[x]
       /\ Held(Evicted(branch))[x] \in Nat /\ Held(Evicted(branch))[x] <= Held(rest)[x]
  BY <1>13, <1>20, <1>22, HeldRemoves
<1>25. Accounted(c, x, Held(all)[x], Held({c})[x], Held(redo[s])[x], Held(Evicted(branch))[x])
  BY <1>1, <1>3, <1>21, <1>23, <1>24 DEF Accounted
<1>26. Held(Retaining(us, rs))[x]
         = Held(all)[x] + Held({c})[x] - Held(redo[s])[x] - Held(Evicted(branch))[x]
  BY <1>21, <1>23, <1>24
<1>. QED  BY <1>1, <1>2, <1>3, <1>14, <1>15, <1>21, <1>25, <1>26, Zenon

-----------------------------------------------------------------------------
(* Every action keeps the leases balanced.                                 *)

\* Before a step the leases of a source are those that are counted.
LEMMA LeasedNow ==
    ASSUME BranchesFit, Leased, NEW x \in Sources
    PROVE  LET l == LiveOf(layer, x)
               h == Held(Retaining(undo, redo))[x]
           IN  /\ l \in Nat /\ h \in Nat /\ At(Now, x, l, 0, h) /\ x \notin Now.gone
               /\ x \in payload <=> l + h > 0
<1>1. UNION {EntriesOf(t) : t \in Scopes} = Retaining(undo, redo)
  BY DEF EntriesOf, Retaining
<1>2. leases[x] \in [live : Nat, session : Nat, history : Nat]
  BY DEF Leased
<1>3. /\ leases[x].live = LiveOf(layer, x) /\ leases[x].session = 0
      /\ leases[x].history = Held(Retaining(undo, redo))[x]
  BY <1>1, Zenon DEF Leased, LeasesAreExact, LiveOf
<1>4. PICK l \in Nat : l = LiveOf(layer, x)
  BY <1>2, <1>3
<1>5. PICK h \in Nat : h = Held(Retaining(undo, redo))[x]
  BY <1>2, <1>3
<1>6. leases[x] = [live |-> l, session |-> 0, history |-> h]
  BY <1>2, <1>3, <1>4, <1>5
<1>7. x \in payload <=> Total(leases, x) > 0
  BY DEF Leased
<1>8. Total(leases, x) = l + h
  BY <1>6 DEF Total
<1>9. At(Now, x, l, 0, h) /\ x \notin Now.gone
  BY <1>6 DEF At, Now
<1>. QED  BY <1>4, <1>5, <1>7, <1>8, <1>9

\* A new command and the branches it leaves.
LEMMA TransitionBalanced ==
    ASSUME BranchesFit, Leased, NEW c, CommandFits(c), c.id = recorded + 1, c.kind = "layer",
           c.before = layer[c.scope], NEW existing \in SUBSET Sources, payload \subseteq existing,
           existing \subseteq payload \cup {c.after}, c.after \in existing \cup {NoSource}
    PROVE  Balanced(Replacement(c), existing, [layer EXCEPT ![c.scope] = c.after],
                    [undo EXCEPT ![c.scope] = Kept(@ \cup {c})], [redo EXCEPT ![c.scope] = {}])
<1>1. PICK shown : shown = [layer EXCEPT ![c.scope] = c.after]
  OBVIOUS
<1>2. PICK kept : kept = Retaining([undo EXCEPT ![c.scope] = Kept(@ \cup {c})], [redo EXCEPT ![c.scope] = {}])
  OBVIOUS
<1>3. c.scope \in Scopes /\ c.after \in Shown /\ c.before # c.after /\ layer \in [Scopes -> Shown]
  BY DEF CommandFits, BranchesFit
<1>4. ASSUME NEW x \in Sources
      PROVE  Settled(Replacement(c), existing, x, LiveOf(shown, x), Held(kept)[x])
  <2>1. PICK l \in Nat : l = LiveOf(layer, x)
    BY LeasedNow
  <2>2. PICK h \in Nat : h = Held(Retaining(undo, redo))[x]
    BY LeasedNow
  <2>3. At(Now, x, l, 0, h) /\ (x \in payload <=> l + h > 0)
    BY <2>1, <2>2, LeasedNow
  <2>4. PICK o, r, e : Accounted(c, x, h, o, r, e) /\ Held(kept)[x] = h + o - r - e
    <3>1. PICK o : o = Held({c})[x]
      OBVIOUS
    <3>2. PICK r : r = Held(redo[c.scope])[x]
      OBVIOUS
    <3>3. PICK e : e = Held(Evicted(undo[c.scope] \cup {c}))[x]
      OBVIOUS
    <3>4. Accounted(c, x, h, o, r, e) /\ Held(kept)[x] = h + o - r - e
      BY <1>2, <2>2, <3>1, <3>2, <3>3, RecordRetains
    <3>. QED  BY <3>4
  <2>5. /\ Once({c.before})[x] <= l
        /\ LiveOf(shown, x) = l - Once({c.before})[x] + Once({c.after})[x]
    <3>1. Reshown(layer, shown, c.scope, c.after)
      BY <1>1, <1>3 DEF Reshown
    <3>2. Swapped(x, layer[c.scope], c.after, LiveOf(layer, x), LiveOf(shown, x))
      BY <1>3, <3>1, LiveChanges
    <3>. QED  BY <2>1, <3>2 DEF Swapped
  <2>6. LET live == l - Once({c.before})[x] + Once({c.after})[x]
            left == h + o - r - e
        IN  /\ live \in Nat /\ left \in Nat /\ At(Replacement(c), x, live, 0, left)
            /\ l + h > 0 \/ c.after = x => (x \in Replacement(c).gone <=> live + left = 0)
            /\ ~(l + h > 0 \/ c.after = x) => live + left = 0
    BY <2>3, <2>4, <2>5, ReplacedAt
  <2>7. PICK live \in Nat : live = LiveOf(shown, x)
    BY <2>5, <2>6
  <2>8. PICK left \in Nat : left = Held(kept)[x]
    BY <2>4, <2>6
  <2>9. /\ At(Replacement(c), x, live, 0, left)
        /\ l + h > 0 \/ c.after = x => (x \in Replacement(c).gone <=> live + left = 0)
        /\ ~(l + h > 0 \/ c.after = x) => live + left = 0
    BY <2>4, <2>5, <2>6, <2>7, <2>8
  <2>10. x \in existing <=> l + h > 0 \/ c.after = x
    BY <2>3, LimitAssumption
  <2>11. x \in existing \ Replacement(c).gone <=> live + left > 0
    BY <2>7, <2>8, <2>9, <2>10
  <2>. QED  BY <2>7, <2>8, <2>9, <2>11 DEF Settled
<1>5. \E f : Replacement(c).leases = [x \in Sources |-> f[x]]
  <2>1. PICK st, count : Replacement(c) = ReleaseAll(st, "session", count)
    BY Zenon DEF Replacement
  <2>. QED  BY <2>1, ReleasedAll
<1>. QED  BY <1>1, <1>2, <1>4, <1>5, Zenon DEF Balanced

\* A stroke or a selection brings no leases, what it drops loses them.
LEMMA RecordingBalanced ==
    ASSUME BranchesFit, Leased, NEW c, CommandFits(c), c.id = recorded + 1, c.kind # "layer"
    PROVE  Balanced(RecordLeases(Now, c), payload, layer,
                    [undo EXCEPT ![c.scope] = Kept(@ \cup {c})], [redo EXCEPT ![c.scope] = {}])
<1>1. PICK kept : kept = Retaining([undo EXCEPT ![c.scope] = Kept(@ \cup {c})], [redo EXCEPT ![c.scope] = {}])
  OBVIOUS
<1>2. PICK end : end = RecordLeases(Now, c)
  OBVIOUS
<1>3. ASSUME NEW x \in Sources
      PROVE  Settled(end, payload, x, LiveOf(layer, x), Held(kept)[x])
  <2>1. PICK l \in Nat : l = LiveOf(layer, x)
    BY LeasedNow
  <2>2. PICK h \in Nat : h = Held(Retaining(undo, redo))[x]
    BY LeasedNow
  <2>3. At(Now, x, l, 0, h) /\ (x \in payload <=> l + h > 0) /\ x \notin Now.gone
    BY <2>1, <2>2, LeasedNow
  <2>4. PICK o, r, e : Accounted(c, x, h, o, r, e) /\ Held(kept)[x] = h + o - r - e
    <3>1. PICK o : o = Held({c})[x]
      OBVIOUS
    <3>2. PICK r : r = Held(redo[c.scope])[x]
      OBVIOUS
    <3>3. PICK e : e = Held(Evicted(undo[c.scope] \cup {c}))[x]
      OBVIOUS
    <3>4. Accounted(c, x, h, o, r, e) /\ Held(kept)[x] = h + o - r - e
      BY <1>1, <2>2, <3>1, <3>2, <3>3, RecordRetains
    <3>. QED  BY <3>4
  <2>5. PICK left : left = h + o - r - e
    OBVIOUS
  <2>6. /\ left \in Nat /\ At(end, x, l, 0, left)
        /\ x \in end.gone <=> x \in Now.gone \/ (r + e > 0 /\ l + 0 + left = 0)
    BY <1>2, <2>3, <2>4, <2>5, RecordedAt
  <2>7. o = 0 /\ r \in Nat /\ e \in Nat
    BY <2>4, HeldByOne DEF Accounted, ResourcesOf
  <2>8. x \in payload \ end.gone <=> l + left > 0
    BY <2>3, <2>5, <2>6, <2>7
  <2>. QED  BY <2>1, <2>4, <2>5, <2>6, <2>8 DEF Settled
<1>4. \E f : end.leases = [x \in Sources |-> f[x]]
  <2>1. PICK st, count : end = ReleaseAll(st, "history", count)
    BY <1>2, Zenon DEF RecordLeases
  <2>. QED  BY <2>1, ReleasedAll
<1>. QED  BY <1>1, <1>2, <1>3, <1>4, Zenon DEF Balanced

\* A command that moves from one branch to the other keeps its leases, and both
\* sides of a transition with them.
LEMMA ReplayBalanced ==
    ASSUME BranchesFit, Leased, NEW us, NEW rs, Retaining(us, rs) = Retaining(undo, redo),
           NEW s \in Scopes, NEW c \in EntriesOf(s), NEW value
    PROVE  /\ c.kind = "layer" /\ {layer[s], value} = {c.before, c.after} =>
                Balanced(RestoreLayer(Now, layer[s], value), payload,
                         [layer EXCEPT ![s] = value], us, rs)
           /\ Balanced(Now, payload, layer, us, rs)
<1>1. ASSUME NEW x \in Sources
      PROVE  Settled(Now, payload, x, LiveOf(layer, x), Held(Retaining(us, rs))[x])
  BY LeasedNow DEF Settled
<1>2. \E f : Now.leases = [x \in Sources |-> f[x]]
  BY DEF Now, Leased
<1>3. Balanced(Now, payload, layer, us, rs)
  BY <1>1, <1>2 DEF Balanced
<1>4. ASSUME c.kind = "layer", {layer[s], value} = {c.before, c.after}
      PROVE  Balanced(RestoreLayer(Now, layer[s], value), payload, [layer EXCEPT ![s] = value], us, rs)
  <2>1. PICK shown : shown = [layer EXCEPT ![s] = value]
    OBVIOUS
  <2>2. PICK end : end = RestoreLayer(Now, layer[s], value) /\ RestoreEnds(Now, layer[s], value, end)
    BY DEF RestoreEnds
  <2>3. CommandFits(c) /\ layer \in [Scopes -> Shown]
    BY DEF BranchesFit, Chronicle, EntriesOf
  <2>4. value \in Shown /\ layer[s] # value
    BY <1>4, <2>3 DEF CommandFits
  <2>5. IsFiniteSet(Retaining(undo, redo)) /\ c \in Retaining(undo, redo)
    <3>1. IsFiniteSet(Retaining(undo, redo))
      BY RetainingFinite DEF BranchesFit, Chronicle
    <3>. QED  BY <3>1 DEF Retaining, EntriesOf
  <2>6. ASSUME NEW x \in Sources
        PROVE  Settled(end, payload, x, LiveOf(shown, x), Held(Retaining(us, rs))[x])
    <3>1. PICK l \in Nat : l = LiveOf(layer, x)
      BY LeasedNow
    <3>2. PICK h \in Nat : h = Held(Retaining(us, rs))[x]
      BY LeasedNow
    <3>3. At(Now, x, l, 0, h) /\ (x \in payload <=> l + h > 0) /\ x \notin Now.gone
      BY <3>1, <3>2, LeasedNow
    <3>4. PICK live : live = LiveOf(shown, x)
      OBVIOUS
    <3>5. Swapped(x, layer[s], value, l, live)
      <4>1. Reshown(layer, shown, s, value)
        BY <2>1, <2>3, <2>4 DEF Reshown
      <4>. QED  BY <3>1, <3>4, <4>1, LiveChanges
    <3>6. /\ live \in Nat /\ At(end, x, live, 0, h)
          /\ x \in end.gone <=> x \in Now.gone \/ (layer[s] = x /\ live + 0 + h = 0)
      BY <2>2, <3>3, <3>5, RestoredAt
    <3>7. layer[s] = x \/ value = x => h > 0
      <4>1. layer[s] = x \/ value = x => x \in ResourcesOf(c)
        BY <1>4, LimitAssumption DEF ResourcesOf
      <4>. QED  BY <2>5, <3>2, <4>1, HeldCounts
    <3>8. ~(layer[s] = x \/ value = x) => live = l
      BY <3>5 DEF Swapped, Once
    <3>9. x \in payload \ end.gone <=> live + h > 0
      BY <3>3, <3>6, <3>7, <3>8
    <3>. QED  BY <3>2, <3>4, <3>6, <3>9 DEF Settled
  <2>7. \E f : end.leases = [x \in Sources |-> f[x]]
    <3>1. PICK st, count : end = ReleaseAll(st, "session", count)
      BY <2>2, Zenon DEF RestoreLayer
    <3>. QED  BY <3>1, ReleasedAll
  <2>. QED  BY <2>1, <2>2, <2>6, <2>7, Zenon DEF Balanced
<1>. QED  BY <1>3, <1>4

-----------------------------------------------------------------------------
(* What one composition contributes to the invariant.                      *)

BranchFits(s, done, undone, n, shown, selected, versions, owners) ==
    /\ Chronicle(s, done, undone, n)
    /\ LayersFit(done, undone, shown) /\ SelectionsFit(done, undone, selected)
    /\ \A c \in done \cup undone : c.kind = "paint" => s \in owners[c.source]
    /\ \A x \in Sources : owners[x] = {s} => StrokesFit(done, undone, x, versions[x])
FitsNow(s) ==
    BranchFits(s, undo[s], redo[s], recorded, layer[s], selection[s], pixels, painters)

\* The invariant says so of every composition.
LEMMA BranchesFitNow ==
    ASSUME BranchesFit, HistoriesFit
    PROVE  \A s \in Scopes : FitsNow(s)
BY DEF BranchesFit, HistoriesFit, BranchFits, EntriesOf, FitsNow

\* A step keeps the invariant when it leaves the leases balanced and every
\* composition fits.
ValuesFit ==
    /\ layer \in [Scopes -> Shown] /\ selection \in [Scopes -> Versions]
    /\ pixels \in [Sources -> Versions] /\ recorded \in 0..MaxCommands
    /\ painters \in [Sources -> SUBSET Scopes]
    /\ scopes \subseteq Scopes /\ spent \subseteq Sources

\* The branches, the leases and the values that a step leaves make up the invariant.
LEMMA StepFits ==
    ASSUME NEW end, NEW existing \in SUBSET Sources, NEW us, NEW rs, ValuesFit',
           existing \subseteq spent', Conclude(existing, end, us, rs),
           Balanced(end, existing, layer', us, rs),
           \A s \in Scopes : BranchFits(s, us[s], rs[s], recorded', layer'[s], selection'[s],
                                        pixels', painters')
    PROVE  HistoryInv' /\ \A s \in Scopes : undo'[s] = us[s] /\ redo'[s] = rs[s]
<1>1. PICK shown : shown = layer'
  OBVIOUS
<1>2. PICK n \in Nat : n = recorded'
  BY DEF ValuesFit
<1>3. /\ Balanced(end, existing, shown, us, rs)
      /\ \A s \in Scopes : Chronicle(s, us[s], rs[s], n) /\ LayersFit(us[s], rs[s], shown[s])
  BY <1>1, <1>2 DEF BranchFits
<1>4. /\ DOMAIN undo' = Scopes /\ DOMAIN redo' = Scopes
      /\ \A s \in Scopes : undo'[s] = us[s] /\ redo'[s] = rs[s]
      /\ leases' \in [Sources -> [live : Nat, session : Nat, history : Nat]]
      /\ LeasesAreExact'
      /\ \A x \in Sources : x \in payload' <=> Total(leases', x) > 0
      /\ payload' \subseteq existing
  BY <1>1, <1>3, LeasesConclude
<1>5. \A s \in Scopes : BranchFits(s, undo'[s], redo'[s], recorded', layer'[s], selection'[s],
                                  pixels', painters')
  BY <1>4
<1>6. BranchesFit'
  BY <1>4, <1>5 DEF BranchesFit, ValuesFit, BranchFits
<1>7. HistoriesFit'
  BY <1>5 DEF HistoriesFit, ValuesFit, BranchFits, EntriesOf
<1>8. Leased'
  <2>1. payload' \subseteq spent' /\ scopes' \subseteq Scopes /\ spent' \subseteq Sources
    BY <1>4 DEF ValuesFit
  <2>. QED  BY <1>4, <2>1 DEF Leased, Total
<1>. QED  BY <1>4, <1>6, <1>7, <1>8 DEF HistoryInv

\* A composition that a step does not touch.
Spared(s, px, pt, qx, qt) ==
    \A x \in Sources : pt[x] \subseteq qt[x] /\ (qt[x] = {s} => pt[x] = {s} /\ qx[x] = px[x])

\* It fits after the step, whatever others have recorded or painted.
LEMMA UntouchedFits ==
    ASSUME NEW s \in Scopes, NEW K, NEW U, NEW n \in Nat, NEW l, NEW v, NEW px, NEW pt,
           BranchFits(s, K, U, n, l, v, px, pt), NEW m \in Nat, n <= m, NEW qx, NEW qt,
           Spared(s, px, pt, qx, qt)
    PROVE  BranchFits(s, K, U, m, l, v, qx, qt)
<1>1. Chronicle(s, K, U, n)
  BY DEF BranchFits
<1> USE DEF Spared
<1>2. Chronicle(s, K, U, m)
  BY <1>1 DEF Chronicle
<1>3. ASSUME NEW c \in K \cup U, c.kind = "paint" PROVE s \in qt[c.source]
  <2>1. c.source \in Sources
    BY <1>1, <1>3 DEF Chronicle, CommandFits
  <2>. QED  BY <1>3, <2>1 DEF BranchFits
<1>4. ASSUME NEW x \in Sources, qt[x] = {s} PROVE StrokesFit(K, U, x, qx[x])
  BY <1>4 DEF BranchFits
<1>. QED  BY <1>2, <1>3, <1>4 DEF BranchFits

\* What a command changes: one thing of its kind, from the side it starts at.
Written(f, kind, c, x, value) == IF c.kind = kind THEN [f EXCEPT ![x] = value] ELSE f
Painted(px, pt) == px \in [Sources -> Versions] /\ pt \in [Sources -> SUBSET Scopes]
StartsAt(c, l, v, px) ==
    /\ c.kind = "layer" => c.before = l
    /\ c.kind = "paint" => c.source = l /\ c.before = px[c.source]
    /\ c.kind = "select" => c.before = v
EndsAt(c, l, v) ==
    /\ c.kind = "layer" => c.after = l
    /\ c.kind = "paint" => c.source = l
    /\ c.kind = "select" => c.after = v

\* The composition a command is recorded in.
LEMMA RecordedBranch ==
    ASSUME NEW s \in Scopes, NEW K, NEW U, NEW n \in Nat, NEW l, NEW v, NEW px, NEW pt,
           BranchFits(s, K, U, n, l, v, px, pt), Painted(px, pt),
           NEW c, CommandFits(c), c.scope = s, c.id = n + 1, StartsAt(c, l, v, px),
           NEW J, KeepsNewer(J, K \cup {c})
    PROVE  BranchFits(s, J, {}, n + 1,
                      IF c.kind = "layer" THEN c.after ELSE l,
                      IF c.kind = "select" THEN c.after ELSE v,
                      Written(px, "paint", c, c.source, c.after),
                      Written(pt, "paint", c, c.source, pt[c.source] \cup {s}))
<1>1. /\ Chronicle(s, K, U, n) /\ LayersFit(K, U, l) /\ SelectionsFit(K, U, v)
      /\ \A d \in K \cup U : d.kind = "paint" => s \in pt[d.source]
      /\ \A x \in Sources : pt[x] = {s} => StrokesFit(K, U, x, px[x])
  BY Zenon DEF BranchFits
<1>2. /\ c.kind = "layer" => c.before = l
      /\ c.kind = "paint" => c.source = l /\ c.before = px[c.source]
      /\ c.kind = "select" => c.before = v
  BY DEF StartsAt
<1>3. J \in SUBSET (K \cup {c})
  BY DEF KeepsNewer
<1>4. /\ LayersFit(J, {}, IF c.kind = "layer" THEN c.after ELSE l)
      /\ SelectionsFit(J, {}, IF c.kind = "select" THEN c.after ELSE v)
      /\ \A x, w : StrokesFit(K, U, x, w) /\ (c.kind = "paint" /\ c.source = x => c.before = w)
            => StrokesFit(J, {}, x, IF c.kind = "paint" /\ c.source = x THEN c.after ELSE w)
  BY <1>1, <1>2, RecordFits
<1>5. Chronicle(s, J, {}, n + 1)
  BY <1>1, <1>3, RecordedChronicle
<1>6. PICK qx : qx = Written(px, "paint", c, c.source, c.after)
  OBVIOUS
<1>7. PICK qt : qt = Written(pt, "paint", c, c.source, pt[c.source] \cup {s})
  OBVIOUS
<1>8. \A x \in Sources :
         /\ qx[x] = IF c.kind = "paint" /\ c.source = x THEN c.after ELSE px[x]
         /\ qt[x] = IF c.kind = "paint" /\ c.source = x THEN pt[x] \cup {s} ELSE pt[x]
  BY <1>6, <1>7 DEF Written, Painted
<1>9. \A d \in J : d.kind = "paint" => s \in qt[d.source]
  <2> TAKE d \in J
  <2>1. d \in K \/ d = c
    BY <1>3
  <2>2. CommandFits(d)
    BY <1>1, <2>1 DEF Chronicle
  <2>. QED  BY <1>1, <1>8, <2>1, <2>2 DEF CommandFits
<1>10. ASSUME NEW x \in Sources, qt[x] = {s} PROVE StrokesFit(J, {}, x, qx[x])
  <2>1. pt[x] = {s} \/ (pt[x] = {} /\ c.kind = "paint" /\ c.source = x)
    <3>1. CASE c.kind = "paint" /\ c.source = x
      <4>1. pt[x] \cup {s} = {s}
        BY <1>8, <1>10, <3>1
      <4>2. pt[x] # {} => pt[x] = {s}
        BY <4>1
      <4>. QED  BY <3>1, <4>2
    <3>2. CASE ~(c.kind = "paint" /\ c.source = x)
      BY <1>8, <1>10, <3>2
    <3>. QED  BY <3>1, <3>2
  <2>2. StrokesFit(K, U, x, px[x])
    <3>1. CASE pt[x] = {s}
      BY <1>1, <3>1
    <3>2. CASE pt[x] = {}
      <4>1. About(K, "paint", x) = {} /\ About(U, "paint", x) = {}
        BY <1>1, <3>2 DEF About, OfKind
      <4>. QED  BY <4>1, NothingThreaded DEF StrokesFit, Threaded
    <3>. QED  BY <2>1, <3>1, <3>2
  <2>3. c.kind = "paint" /\ c.source = x => c.before = px[x]
    BY <1>2
  <2>4. StrokesFit(J, {}, x, IF c.kind = "paint" /\ c.source = x THEN c.after ELSE px[x])
    BY <1>4, <2>2, <2>3
  <2>. QED  BY <1>8, <2>4
<1>11. \A d \in J \cup {} : d.kind = "paint" => s \in qt[d.source]
  BY <1>9
<1>. QED  BY <1>4, <1>5, <1>6, <1>7, <1>10, <1>11, Zenon DEF BranchFits

\* The composition in which a command is undone or redone.
IsNewest(c, K) == c \in K /\ \A d \in K : d.id <= c.id

\* Undoing ends every thread where the command began.
LEMMA UndoneBranch ==
    ASSUME NEW s \in Scopes, NEW K, NEW U, NEW n \in Nat, NEW l, NEW v, NEW px, NEW pt,
           BranchFits(s, K, U, n, l, v, px, pt), Painted(px, pt),
           NEW c, IsNewest(c, K)
    PROVE  /\ BranchFits(s, K \ {c}, U \cup {c}, n,
                         IF c.kind = "layer" THEN c.before ELSE l,
                         IF c.kind = "select" THEN c.before ELSE v,
                         Written(px, "paint", c, c.source, c.before), pt)
           /\ EndsAt(c, l, v)
<1>0. c \in K /\ \A d \in K : d.id <= c.id
  BY DEF IsNewest
<1>1. /\ Chronicle(s, K, U, n) /\ LayersFit(K, U, l) /\ SelectionsFit(K, U, v)
      /\ \A d \in K \cup U : d.kind = "paint" => s \in pt[d.source]
      /\ \A x \in Sources : pt[x] = {s} => StrokesFit(K, U, x, px[x])
  BY Zenon DEF BranchFits
<1>2. /\ c.kind = "layer" => c.after = l
      /\ c.kind = "paint" => c.source = l
      /\ c.kind = "select" => c.after = v
      /\ LayersFit(K \ {c}, U \cup {c}, IF c.kind = "layer" THEN c.before ELSE l)
      /\ SelectionsFit(K \ {c}, U \cup {c}, IF c.kind = "select" THEN c.before ELSE v)
      /\ \A x, w : StrokesFit(K, U, x, w) =>
            StrokesFit(K \ {c}, U \cup {c}, x,
                       IF c.kind = "paint" /\ c.source = x THEN c.before ELSE w)
  BY <1>0, <1>1, UndoFits
<1>3. Chronicle(s, K \ {c}, U \cup {c}, n)
  BY <1>0, <1>1, UndoneChronicle
<1>4. PICK qx : qx = Written(px, "paint", c, c.source, c.before)
  OBVIOUS
<1>5. \A x \in Sources :
         qx[x] = IF c.kind = "paint" /\ c.source = x THEN c.before ELSE px[x]
  BY <1>4 DEF Written, Painted
<1>6. \A x \in Sources : pt[x] = {s} => StrokesFit(K \ {c}, U \cup {c}, x, qx[x])
  BY <1>1, <1>2, <1>5, Zenon
<1>7. \A d \in (K \ {c}) \cup (U \cup {c}) : d.kind = "paint" => s \in pt[d.source]
  BY <1>0, <1>1
<1>. QED  BY <1>2, <1>3, <1>4, <1>6, <1>7, Zenon DEF BranchFits, EndsAt

\* Redoing ends every thread where the command ends.
LEMMA RedoneBranch ==
    ASSUME NEW s \in Scopes, NEW K, NEW U, NEW n \in Nat, NEW l, NEW v, NEW px, NEW pt,
           BranchFits(s, K, U, n, l, v, px, pt), Painted(px, pt),
           NEW c \in U, \A d \in U : c.id <= d.id
    PROVE  /\ BranchFits(s, K \cup {c}, U \ {c}, n,
                         IF c.kind = "layer" THEN c.after ELSE l,
                         IF c.kind = "select" THEN c.after ELSE v,
                         Written(px, "paint", c, c.source, c.after), pt)
           /\ c.kind = "layer" => c.before = l
           /\ c.kind = "paint" => c.source = l
           /\ c.kind = "select" => c.before = v
<1>1. /\ Chronicle(s, K, U, n) /\ LayersFit(K, U, l) /\ SelectionsFit(K, U, v)
      /\ \A d \in K \cup U : d.kind = "paint" => s \in pt[d.source]
      /\ \A x \in Sources : pt[x] = {s} => StrokesFit(K, U, x, px[x])
  BY Zenon DEF BranchFits
<1>2. /\ c.kind = "layer" => c.before = l
      /\ c.kind = "paint" => c.source = l
      /\ c.kind = "select" => c.before = v
      /\ LayersFit(K \cup {c}, U \ {c}, IF c.kind = "layer" THEN c.after ELSE l)
      /\ SelectionsFit(K \cup {c}, U \ {c}, IF c.kind = "select" THEN c.after ELSE v)
      /\ \A x, w : StrokesFit(K, U, x, w) =>
            StrokesFit(K \cup {c}, U \ {c}, x,
                       IF c.kind = "paint" /\ c.source = x THEN c.after ELSE w)
  BY <1>1, RedoFits
<1>3. Chronicle(s, K \cup {c}, U \ {c}, n)
  BY <1>1, RedoneChronicle
<1>4. PICK qx : qx = Written(px, "paint", c, c.source, c.after)
  OBVIOUS
<1>5. \A x \in Sources :
         qx[x] = IF c.kind = "paint" /\ c.source = x THEN c.after ELSE px[x]
  BY <1>4 DEF Written, Painted
<1>6. \A x \in Sources : pt[x] = {s} => StrokesFit(K \cup {c}, U \ {c}, x, qx[x])
  BY <1>1, <1>2, <1>5, Zenon
<1>7. \A d \in (K \cup {c}) \cup (U \ {c}) : d.kind = "paint" => s \in pt[d.source]
  BY <1>1
<1>. QED  BY <1>2, <1>3, <1>4, <1>6, <1>7, Zenon DEF BranchFits

-----------------------------------------------------------------------------
(* The actions.                                                            *)

\* What recording a command changes besides the branches and the leases.
Recorded(c) ==
    /\ layer' = Written(layer, "layer", c, c.scope, c.after)
    /\ selection' = Written(selection, "select", c, c.scope, c.after)
    /\ pixels' = Written(pixels, "paint", c, c.source, c.after)
    /\ painters' = Written(painters, "paint", c, c.source, painters[c.source] \cup {c.scope})
    /\ scopes' = scopes

\* What a step that records a command leaves.
NewestStays ==
    recorded' = recorded + 1 =>
         \E s \in Scopes :
            /\ (\E c \in undo'[s] : c.id = recorded') /\ redo'[s] = {}
            /\ \A class \in Classes :
                 LET cs == OfClass(undo'[s], class) IN
                 Cardinality(cs) > 1 =>
                     Cardinality(cs) <= CommandLimit /\ Bytes(cs) <= ByteLimit

\* Recording keeps the invariant, the command and the soft limits.
LEMMA RecordKeeps ==
    ASSUME HistoryInv, NEW c, CommandFits(c), c.id = recorded + 1,
           StartsAt(c, layer[c.scope], selection[c.scope], pixels), Recorded(c),
           NEW existing, existing \subseteq spent', spent' \subseteq Sources, NEW end,
           Record(c, existing, end),
           Balanced(end, existing, layer', [undo EXCEPT ![c.scope] = Kept(@ \cup {c})],
                    [redo EXCEPT ![c.scope] = {}])
    PROVE  HistoryInv' /\ NewestStays
<1>1. PICK s \in Scopes : s = c.scope
  BY DEF CommandFits
<1>2. BranchesFit /\ HistoriesFit /\ Leased
  BY DEF HistoryInv
<1>3. /\ layer \in [Scopes -> Shown] /\ selection \in [Scopes -> Versions]
      /\ pixels \in [Sources -> Versions] /\ painters \in [Sources -> SUBSET Scopes]
      /\ recorded \in 0..MaxCommands /\ DOMAIN undo = Scopes /\ DOMAIN redo = Scopes
      /\ scopes \subseteq Scopes
  BY <1>2 DEF BranchesFit, HistoriesFit, Leased
<1>4. recorded < MaxCommands /\ recorded' = recorded + 1
  BY DEF Record
<1>5. PICK us : us = [undo EXCEPT ![c.scope] = Kept(@ \cup {c})]
  OBVIOUS
<1>6. PICK rs : rs = [redo EXCEPT ![c.scope] = {}]
  OBVIOUS
<1>7. Conclude(existing, end, us, rs)
  BY <1>5, <1>6, Zenon DEF Record
<1>8. PICK J : J = Kept(undo[s] \cup {c})
  OBVIOUS
<1>9. /\ us[s] = J /\ rs[s] = {}
      /\ \A t \in Scopes \ {s} : us[t] = undo[t] /\ rs[t] = redo[t]
  BY <1>1, <1>3, <1>5, <1>6, <1>8
<1>10. \A t \in Scopes : FitsNow(t)
  BY <1>2, BranchesFitNow
<1>11. /\ KeepsNewer(J, undo[s] \cup {c}) /\ c \in J
       /\ \A class \in Classes : WithinLimits(OfClass(J, class))
  <2>1. Chronicle(s, undo[s], redo[s], recorded) /\ recorded \in Nat
    BY <1>2, <1>3 DEF BranchesFit
  <2>2. c \in undo[s] \cup {c} /\ IsFiniteSet(undo[s] \cup {c})
    BY <2>1, FS_AddElement DEF Chronicle
  <2>3. {} \in SUBSET (undo[s] \cup {c})
    OBVIOUS
  <2>4. NumberedTo(undo[s] \cup {c}, recorded + 1) /\ \A d \in undo[s] \cup {c} : d.id <= c.id
    <3>1. NumberedTo(undo[s] \cup {c}, recorded + 1) /\ \A d \in undo[s] : d.id < c.id
      BY <1>1, <2>1, <2>3, RecordedChronicle
    <3>. QED  BY <3>1 DEF NumberedTo
  <2>5. \A d \in undo[s] \cup {c} : d.kind \in Kinds
    BY <2>1 DEF Chronicle, CommandFits
  <2>. QED  BY <1>8, <2>2, <2>4, <2>5, KeptFits
<1>12. BranchFits(s, J, {}, recorded', layer'[s], selection'[s], pixels', painters')
  <2>1. BranchFits(s, undo[s], redo[s], recorded, layer[s], selection[s], pixels, painters)
    BY <1>10 DEF FitsNow
  <2>2. /\ layer'[s] = IF c.kind = "layer" THEN c.after ELSE layer[s]
        /\ selection'[s] = IF c.kind = "select" THEN c.after ELSE selection[s]
    BY <1>1, <1>3 DEF Recorded, Written
  <2>3. /\ pixels' = Written(pixels, "paint", c, c.source, c.after)
        /\ painters' = Written(painters, "paint", c, c.source, painters[c.source] \cup {s})
    BY <1>1 DEF Recorded
  <2>4. StartsAt(c, layer[s], selection[s], pixels)
    BY <1>1
  <2>5. BranchFits(s, J, {}, recorded + 1,
                   IF c.kind = "layer" THEN c.after ELSE layer[s],
                   IF c.kind = "select" THEN c.after ELSE selection[s],
                   Written(pixels, "paint", c, c.source, c.after),
                   Written(painters, "paint", c, c.source, painters[c.source] \cup {s}))
    <3>1. Painted(pixels, painters) /\ recorded \in Nat
      BY <1>3 DEF Painted
    <3>2. CommandFits(c) /\ c.scope = s /\ c.id = recorded + 1
      BY <1>1
    <3>. QED  BY <1>11, <2>1, <2>4, <3>1, <3>2, RecordedBranch
  <2>. QED  BY <1>4, <2>2, <2>3, <2>5
<1>13. ASSUME NEW t \in Scopes, t # s
       PROVE  BranchFits(t, undo[t], redo[t], recorded', layer'[t], selection'[t], pixels', painters')
  <2>1. layer'[t] = layer[t] /\ selection'[t] = selection[t]
    BY <1>1, <1>3, <1>13 DEF Recorded, Written
  <2>2. \A x \in Sources :
           /\ painters[x] \subseteq painters'[x]
           /\ painters'[x] = {t} => painters[x] = {t} /\ pixels'[x] = pixels[x]
    BY <1>1, <1>3, <1>13 DEF Recorded, Written
  <2>3. recorded \in Nat /\ recorded' \in Nat /\ recorded <= recorded'
    BY <1>3, <1>4
  <2>4. BranchFits(t, undo[t], redo[t], recorded, layer[t], selection[t], pixels, painters)
    BY <1>10 DEF FitsNow
  <2>5. PICK qx : qx = pixels'
    OBVIOUS
  <2>6. PICK qt : qt = painters'
    OBVIOUS
  <2>7. BranchFits(t, undo[t], redo[t], recorded', layer[t], selection[t], qx, qt)
    <3>1. Spared(t, pixels, painters, qx, qt)
      BY <2>2, <2>5, <2>6 DEF Spared
    <3>2. PICK l, v : l = layer[t] /\ v = selection[t]
      OBVIOUS
    <3>3. PICK m \in Nat : m = recorded'
      BY <2>3
    <3>4. recorded <= m
      BY <2>3, <3>3
    <3>5. BranchFits(t, undo[t], redo[t], m, l, v, qx, qt)
      BY <2>3, <2>4, <3>1, <3>2, <3>4, UntouchedFits
    <3>. QED  BY <3>2, <3>3, <3>5
  <2>. QED  BY <2>1, <2>5, <2>6, <2>7
<1>14. \A t \in Scopes : BranchFits(t, us[t], rs[t], recorded', layer'[t], selection'[t], pixels', painters')
  BY <1>9, <1>12, <1>13
<1>15. ValuesFit'
  <2>1. c.kind = "layer" => c.after \in Shown
    BY DEF CommandFits
  <2>2. c.kind \in {"paint", "select"} => c.after \in Versions
    BY DEF CommandFits
  <2>3. layer' \in [Scopes -> Shown] /\ selection' \in [Scopes -> Versions]
    BY <1>3, <2>1, <2>2 DEF Recorded, Written
  <2>4. pixels' \in [Sources -> Versions]
    BY <1>3, <2>2 DEF Recorded, Written
  <2>5. painters' \in [Sources -> SUBSET Scopes]
    BY <1>1, <1>3 DEF Recorded, Written
  <2>6. recorded' \in 0..MaxCommands /\ scopes' \subseteq Scopes
    BY <1>3, <1>4, LimitAssumption DEF Recorded
  <2>. QED  BY <2>3, <2>4, <2>5, <2>6 DEF ValuesFit
<1>16. Balanced(end, existing, layer', us, rs) /\ existing \in SUBSET Sources
  BY <1>5, <1>6
<1>17. HistoryInv' /\ undo'[s] = J /\ redo'[s] = {}
  BY <1>7, <1>9, <1>14, <1>15, <1>16, StepFits
<1>18. NewestStays
  <2>1. c \in undo'[s] /\ c.id = recorded'
    BY <1>4, <1>11, <1>17
  <2>2. \A class \in Classes : WithinLimits(OfClass(undo'[s], class))
    BY <1>11, <1>17
  <2>. QED  BY <1>17, <2>1, <2>2, Zenon DEF NewestStays, WithinLimits
<1>. QED  BY <1>17, <1>18

\* A selection changes nothing but itself.
LEMMA SelectKeeps ==
    ASSUME HistoryInv, NEW s \in Scopes, NEW v \in {0, recorded + 1}, Select(s, v)
    PROVE  HistoryInv' /\ NewestStays
<1>1. PICK c : c = Command(s, "select", NoSource, selection[s], v)
  OBVIOUS
<1>2. /\ c.scope = s /\ c.id = recorded + 1 /\ c.kind = "select" /\ c.source = NoSource
      /\ c.before = selection[s] /\ c.after = v
  BY <1>1 DEF Command
<1>3. BranchesFit /\ HistoriesFit /\ Leased
  BY DEF HistoryInv
<1>4. /\ v # selection[s] /\ selection' = [selection EXCEPT ![s] = v]
      /\ Record(c, payload, RecordLeases(Now, c))
      /\ scopes' = scopes /\ layer' = layer /\ pixels' = pixels /\ spent' = spent
      /\ painters' = painters
  BY <1>1, Zenon DEF Select
<1>5. recorded < MaxCommands
  BY <1>4 DEF Record
<1>6. CommandFits(c)
  BY <1>2, <1>3, <1>4, <1>5, LimitAssumption DEF CommandFits, BranchesFit, Versions, Kinds
<1>7. StartsAt(c, layer[c.scope], selection[c.scope], pixels)
  BY <1>2 DEF StartsAt
<1>8. Recorded(c)
  BY <1>2, <1>4 DEF Recorded, Written
<1>9. PICK end : end = RecordLeases(Now, c)
  OBVIOUS
<1>10. Balanced(end, payload, layer', [undo EXCEPT ![c.scope] = Kept(@ \cup {c})],
                [redo EXCEPT ![c.scope] = {}])
  <2>1. c.kind # "layer"
    BY <1>2
  <2>. QED  BY <1>2, <1>3, <1>4, <1>6, <1>9, <2>1, RecordingBalanced
<1>11. Record(c, payload, end) /\ payload \subseteq spent' /\ spent' \subseteq Sources
  BY <1>3, <1>4, <1>9 DEF Leased
<1>. QED  BY <1>2, <1>6, <1>7, <1>8, <1>10, <1>11, RecordKeeps

\* A replaced layer keeps both its sources alive until the command leases them.
LEMMA ReplaceKeeps ==
    ASSUME HistoryInv, NEW s \in Scopes, NEW x \in Sources \cup {NoSource}, ReplaceLayer(s, x)
    PROVE  HistoryInv' /\ NewestStays
<1>1. PICK c : c = Command(s, "layer", NoSource, layer[s], x)
  OBVIOUS
<1>2. /\ c.scope = s /\ c.id = recorded + 1 /\ c.kind = "layer"
      /\ c.before = layer[s] /\ c.after = x
  BY <1>1 DEF Command
<1>3. BranchesFit /\ HistoriesFit /\ Leased
  BY DEF HistoryInv
<1>4. PICK fresh : fresh = {x} \cap FreshSource
  OBVIOUS
<1>5. /\ x # layer[s] /\ layer' = [layer EXCEPT ![s] = x]
      /\ x \in payload \cup FreshSource \cup {NoSource}
      /\ spent' = spent \cup fresh
      /\ Record(c, payload \cup fresh, Replacement(c))
      /\ scopes' = scopes /\ selection' = selection /\ pixels' = pixels /\ painters' = painters
  BY <1>1, <1>4, Zenon DEF ReplaceLayer
<1>6. fresh \subseteq Sources
  <2>1. Sources \subseteq spent \/ (CHOOSE y \in Sources : y \notin spent) \in Sources
    OBVIOUS
  <2>. QED  BY <1>4, <2>1 DEF FreshSource
<1>7. CommandFits(c)
  BY <1>2, <1>3, <1>5 DEF CommandFits, BranchesFit, Shown, Kinds
<1>8. StartsAt(c, layer[c.scope], selection[c.scope], pixels)
  BY <1>2 DEF StartsAt
<1>9. Recorded(c)
  BY <1>2, <1>5 DEF Recorded, Written
<1>10. PICK end : end = Replacement(c)
  OBVIOUS
<1>11. PICK existing \in SUBSET Sources : existing = payload \cup fresh
  BY <1>3, <1>6 DEF Leased
<1>12. Balanced(end, existing, layer', [undo EXCEPT ![c.scope] = Kept(@ \cup {c})],
                [redo EXCEPT ![c.scope] = {}])
  <2>1. /\ payload \subseteq existing /\ existing \subseteq payload \cup {c.after}
        /\ c.after \in existing \cup {NoSource} /\ c.before = layer[c.scope]
    BY <1>2, <1>4, <1>5, <1>11
  <2>2. layer' = [layer EXCEPT ![c.scope] = c.after]
    BY <1>2, <1>5
  <2>. QED  BY <1>2, <1>3, <1>7, <1>10, <2>1, <2>2, TransitionBalanced
<1>13. /\ Record(c, existing, end) /\ existing \subseteq spent' /\ spent' \subseteq Sources
  BY <1>3, <1>5, <1>6, <1>10, <1>11 DEF Leased
<1>. QED  BY <1>2, <1>7, <1>8, <1>9, <1>12, <1>13, RecordKeeps

\* The first composition that shows a source shows it.
LEMMA OwnerShowsIt ==
    ASSUME NEW x, \E s \in Scopes : layer[s] = x
    PROVE  StrokeOwner(x) \in Scopes /\ layer[StrokeOwner(x)] = x
<1>1. Order \in [1..Len(Order) -> Scopes] /\ Len(Order) \in Nat
  BY LimitAssumption
<1>2. PICK N : N = {i \in 1..Len(Order) : layer[Order[i]] = x}
  OBVIOUS
<1>3. N \in SUBSET Nat /\ N # {}
  BY <1>1, <1>2 DEF Scopes
<1>4. PICK k \in N : \A m \in N : k <= m
  BY <1>3, NumbersHaveLeast
<1>5. \A j \in 1..(k - 1) : layer[Order[j]] # x
  BY <1>1, <1>2, <1>4
<1>6. \E i \in DOMAIN Order : layer[Order[i]] = x /\ \A j \in 1..(i - 1) : layer[Order[j]] # x
  BY <1>1, <1>2, <1>5
<1>7. PICK i : i = CHOOSE j \in DOMAIN Order :
                      layer[Order[j]] = x /\ \A k1 \in 1..(j - 1) : layer[Order[k1]] # x
  OBVIOUS
<1>8. i \in DOMAIN Order /\ layer[Order[i]] = x
  BY <1>6, <1>7
<1>9. StrokeOwner(x) = Order[i]
  BY <1>7, Zenon DEF StrokeOwner
<1>. QED  BY <1>8, <1>9 DEF Scopes

\* A stroke is recorded where its source is shown.
LEMMA PaintKeeps ==
    ASSUME HistoryInv, NEW x \in Sources, Paint(x)
    PROVE  HistoryInv' /\ NewestStays
<1>1. PICK o : o = StrokeOwner(x)
  OBVIOUS
<1>2. PICK c : c = Command(o, "paint", x, pixels[x], recorded + 1)
  OBVIOUS
<1>3. /\ c.scope = o /\ c.id = recorded + 1 /\ c.kind = "paint" /\ c.source = x
      /\ c.before = pixels[x] /\ c.after = recorded + 1
  BY <1>2 DEF Command
<1>4. BranchesFit /\ HistoriesFit /\ Leased
  BY DEF HistoryInv
<1>5. /\ \E s \in scopes : layer[s] = x
      /\ pixels' = [pixels EXCEPT ![x] = recorded + 1]
      /\ painters' = [painters EXCEPT ![x] = @ \cup {o}]
      /\ Record(c, payload, RecordLeases(Now, c))
      /\ scopes' = scopes /\ layer' = layer /\ selection' = selection /\ spent' = spent
  BY <1>1, <1>2, Zenon DEF Paint
<1>6. o \in Scopes /\ layer[o] = x
  BY <1>1, <1>4, <1>5, OwnerShowsIt DEF Leased
<1>7. recorded < MaxCommands
  BY <1>5 DEF Record
<1>8. CommandFits(c)
  BY <1>3, <1>4, <1>6, <1>7, LimitAssumption DEF CommandFits, BranchesFit, Versions, Kinds
<1>9. StartsAt(c, layer[c.scope], selection[c.scope], pixels)
  BY <1>3, <1>6 DEF StartsAt
<1>10. Recorded(c)
  BY <1>3, <1>5 DEF Recorded, Written
<1>11. PICK end : end = RecordLeases(Now, c)
  OBVIOUS
<1>12. Balanced(end, payload, layer', [undo EXCEPT ![c.scope] = Kept(@ \cup {c})],
                [redo EXCEPT ![c.scope] = {}])
  <2>1. c.kind # "layer"
    BY <1>3
  <2>. QED  BY <1>3, <1>4, <1>5, <1>8, <1>11, <2>1, RecordingBalanced
<1>13. Record(c, payload, end) /\ payload \subseteq spent' /\ spent' \subseteq Sources
  BY <1>4, <1>5, <1>11 DEF Leased
<1>. QED  BY <1>3, <1>8, <1>9, <1>10, <1>12, <1>13, RecordKeeps

\* A command moves between the branches of its composition, and one of its
\* sides is written back.
Moved(s, c, us, rs) ==
    /\ c \in EntriesOf(s) /\ us[s] \cup rs[s] = EntriesOf(s)
    /\ \A t \in Scopes \ {s} : us[t] = undo[t] /\ rs[t] = redo[t]

\* Undo and redo move leases of the layer only, and a stroke finds its source.
LEMMA ReplayKeeps ==
    ASSUME HistoryInv, NEW s \in Scopes, NEW c, NEW value, NEW us, NEW rs,
           Moved(s, c, us, rs), Apply(c, value, us, rs),
           BranchFits(s, us[s], rs[s], recorded,
                      IF c.kind = "layer" THEN value ELSE layer[s],
                      IF c.kind = "select" THEN value ELSE selection[s],
                      Written(pixels, "paint", c, c.source, value), painters),
           c.kind = "layer" => {layer[s], value} = {c.before, c.after},
           c.kind = "paint" => c.source = layer[s] /\ value \in {c.before, c.after},
           c.kind = "select" => value \in {c.before, c.after}
    PROVE  HistoryInv' /\ NewestStays
<1>1. BranchesFit /\ HistoriesFit /\ Leased
  BY DEF HistoryInv
<1>2. /\ layer \in [Scopes -> Shown] /\ selection \in [Scopes -> Versions]
      /\ pixels \in [Sources -> Versions] /\ painters \in [Sources -> SUBSET Scopes]
      /\ recorded \in 0..MaxCommands /\ scopes \subseteq Scopes /\ spent \subseteq Sources
      /\ payload \subseteq spent
  BY <1>1 DEF BranchesFit, HistoriesFit, Leased
<1>3. c.scope = s /\ CommandFits(c)
  BY <1>1 DEF Moved, EntriesOf, BranchesFit, Chronicle
<1>4. PICK end : end = IF c.kind = "layer" THEN RestoreLayer(Now, layer[s], value) ELSE Now
  OBVIOUS
<1>5. Conclude(payload, end, us, rs)
  BY <1>3, <1>4, Zenon DEF Apply
<1>6. c.kind = "paint" => c.source \in payload
  <2>1. SUFFICES ASSUME c.kind = "paint" PROVE c.source \in payload
    OBVIOUS
  <2>2. PICK x \in Sources : x = c.source /\ layer[s] = x
    BY <1>3, <2>1 DEF CommandFits
  <2>3. PICK F : F = {t \in Scopes : layer[t] = x}
    OBVIOUS
  <2>4. IsFiniteSet(F) /\ F # {}
    BY <2>2, <2>3, ScopesFinite, FS_Subset
  <2>5. PICK l \in Nat : l = LiveOf(layer, x)
    BY <1>1, LeasedNow
  <2>6. PICK h \in Nat : h = Held(Retaining(undo, redo))[x]
    BY <1>1, LeasedNow
  <2>7. l # 0
    BY <2>3, <2>4, <2>5, FS_EmptySet DEF LiveOf
  <2>8. x \in payload <=> l + h > 0
    BY <1>1, <2>5, <2>6, LeasedNow
  <2>. QED  BY <2>2, <2>7, <2>8
<1>7. /\ layer' = Written(layer, "layer", c, s, value)
      /\ selection' = Written(selection, "select", c, s, value)
      /\ pixels' = Written(pixels, "paint", c, c.source, value)
      /\ scopes' = scopes /\ spent' = spent /\ recorded' = recorded /\ painters' = painters
  <2>1. /\ layer' = Restored(layer, "layer", c, s, value)
        /\ selection' = Restored(selection, "select", c, s, value)
        /\ pixels' = IF c.source \in payload
                     THEN Restored(pixels, "paint", c, c.source, value) ELSE pixels
        /\ scopes' = scopes /\ spent' = spent /\ recorded' = recorded /\ painters' = painters
    BY <1>3, Zenon DEF Apply
  <2>. QED  BY <1>6, <2>1 DEF Restored, Written
<1>8. /\ layer'[s] = IF c.kind = "layer" THEN value ELSE layer[s]
      /\ selection'[s] = IF c.kind = "select" THEN value ELSE selection[s]
      /\ \A t \in Scopes \ {s} : layer'[t] = layer[t] /\ selection'[t] = selection[t]
  BY <1>2, <1>7 DEF Written
<1>9. BranchFits(s, us[s], rs[s], recorded', layer'[s], selection'[s], pixels', painters')
  BY <1>7, <1>8
<1>10. ASSUME NEW t \in Scopes, t # s
       PROVE  BranchFits(t, us[t], rs[t], recorded', layer'[t], selection'[t], pixels', painters')
  <2>1. us[t] = undo[t] /\ rs[t] = redo[t]
    BY <1>10 DEF Moved
  <2>2. BranchFits(t, undo[t], redo[t], recorded, layer[t], selection[t], pixels, painters)
    BY <1>1, BranchesFitNow DEF FitsNow
  <2>3. ASSUME NEW x \in Sources, painters[x] = {t} PROVE pixels'[x] = pixels[x]
    <3>1. c.kind = "paint" => s \in painters[c.source]
      BY <1>1 DEF HistoriesFit, Moved
    <3>. QED  BY <1>2, <1>7, <1>10, <2>3, <3>1 DEF Written
  <2>4. PICK qx : qx = pixels'
    OBVIOUS
  <2>5. Spared(t, pixels, painters, qx, painters)
    BY <2>3, <2>4 DEF Spared
  <2>6. recorded \in Nat /\ recorded <= recorded
    BY <1>2
  <2>7. PICK l, v : l = layer[t] /\ v = selection[t]
    OBVIOUS
  <2>8. BranchFits(t, undo[t], redo[t], recorded, l, v, qx, painters)
    BY <2>2, <2>5, <2>6, <2>7, UntouchedFits
  <2>. QED  BY <1>7, <1>8, <1>10, <2>1, <2>4, <2>7, <2>8
<1>11. ValuesFit'
  <2>1. /\ c.kind = "layer" => value \in Shown
        /\ c.kind \in {"paint", "select"} => value \in Versions
    BY <1>3 DEF CommandFits
  <2>2. layer' \in [Scopes -> Shown] /\ selection' \in [Scopes -> Versions]
    BY <1>2, <1>7, <2>1 DEF Written
  <2>3. pixels' \in [Sources -> Versions]
    BY <1>2, <1>7, <2>1 DEF Written
  <2>. QED  BY <1>2, <1>7, <2>2, <2>3 DEF ValuesFit
<1>12. Balanced(end, payload, layer', us, rs)
  <2>1. Retaining(us, rs) = Retaining(undo, redo)
    BY Zenon DEF Moved, Retaining, EntriesOf
  <2>2. CASE c.kind = "layer"
    <3>1. end = RestoreLayer(Now, layer[s], value) /\ layer' = [layer EXCEPT ![s] = value]
      BY <1>4, <1>7, <2>2 DEF Written
    <3>2. c \in EntriesOf(s)
      BY DEF Moved
    <3>3. Balanced(RestoreLayer(Now, layer[s], value), payload, [layer EXCEPT ![s] = value], us, rs)
      BY <1>1, <2>1, <2>2, <3>2, ReplayBalanced
    <3>. QED  BY <3>1, <3>3
  <2>3. CASE c.kind # "layer"
    <3>1. end = Now /\ layer' = layer
      BY <1>4, <1>7, <2>3 DEF Written
    <3>2. c \in EntriesOf(s)
      BY DEF Moved
    <3>3. Balanced(Now, payload, layer, us, rs)
      BY <1>1, <2>1, <3>2, ReplayBalanced
    <3>. QED  BY <3>1, <3>3
  <2>. QED  BY <2>2, <2>3
<1>13. \A t \in Scopes : BranchFits(t, us[t], rs[t], recorded', layer'[t], selection'[t], pixels', painters')
  BY <1>9, <1>10
<1>14. payload \in SUBSET Sources /\ payload \subseteq spent'
  BY <1>2, <1>7
<1>15. NewestStays
  BY <1>2, <1>7 DEF NewestStays
<1>. QED  BY <1>5, <1>11, <1>12, <1>13, <1>14, <1>15, StepFits

\* The newest command that is done is undone.
LEMMA UndoKeeps ==
    ASSUME HistoryInv, NEW s \in Scopes, Undo(s)
    PROVE  HistoryInv' /\ NewestStays
<1>1. BranchesFit /\ HistoriesFit
  BY DEF HistoryInv
<1>2. undo[s] # {}
  BY DEF Undo
<1>3. PICK c : c = Newest(undo[s])
  OBVIOUS
<1>4. PICK us : us = [undo EXCEPT ![s] = @ \ {c}]
  OBVIOUS
<1>5. PICK rs : rs = [redo EXCEPT ![s] = @ \cup {c}]
  OBVIOUS
<1>6. Apply(c, c.before, us, rs)
  BY <1>3, <1>4, <1>5, Zenon DEF Undo
<1>7. c \in undo[s] /\ \A d \in undo[s] : d.id <= c.id
  <2>1. undo[s] \in SUBSET (undo[s] \cup redo[s]) /\ recorded \in Nat
        /\ Chronicle(s, undo[s], redo[s], recorded)
    BY <1>1 DEF BranchesFit
  <2>2. NumberedTo(undo[s], recorded)
    BY <2>1, NumberedParts
  <2>. QED  BY <1>2, <1>3, <2>2, NewestOf
<1>8. us[s] = undo[s] \ {c} /\ rs[s] = redo[s] \cup {c}
  BY <1>1, <1>4, <1>5 DEF BranchesFit
<1>9. Moved(s, c, us, rs)
  BY <1>1, <1>4, <1>5, <1>7, <1>8 DEF Moved, EntriesOf, BranchesFit
<1>10. BranchFits(s, undo[s], redo[s], recorded, layer[s], selection[s], pixels, painters)
  BY <1>1, BranchesFitNow DEF FitsNow
<1>11. Painted(pixels, painters) /\ recorded \in Nat
  BY <1>1 DEF Painted, BranchesFit, HistoriesFit
<1>12. /\ BranchFits(s, undo[s] \ {c}, redo[s] \cup {c}, recorded,
                     IF c.kind = "layer" THEN c.before ELSE layer[s],
                     IF c.kind = "select" THEN c.before ELSE selection[s],
                     Written(pixels, "paint", c, c.source, c.before), painters)
       /\ c.kind = "layer" => c.after = layer[s]
       /\ c.kind = "paint" => c.source = layer[s]
  <2>1. PICK K : K = undo[s]
    OBVIOUS
  <2>2. PICK l, v : l = layer[s] /\ v = selection[s]
    OBVIOUS
  <2>5. PICK U : U = redo[s]
    OBVIOUS
  <2>6. PICK n \in Nat : n = recorded
    BY <1>11
  <2>3. IsNewest(c, K) /\ BranchFits(s, K, U, n, l, v, pixels, painters)
    BY <1>7, <1>10, <2>1, <2>2, <2>5, <2>6 DEF IsNewest
  <2>4. /\ BranchFits(s, K \ {c}, U \cup {c}, n,
                      IF c.kind = "layer" THEN c.before ELSE l,
                      IF c.kind = "select" THEN c.before ELSE v,
                      Written(pixels, "paint", c, c.source, c.before), painters)
        /\ c.kind = "layer" => c.after = l
        /\ c.kind = "paint" => c.source = l
    <3>1. BranchFits(s, K \ {c}, U \cup {c}, n,
                      IF c.kind = "layer" THEN c.before ELSE l,
                      IF c.kind = "select" THEN c.before ELSE v,
                      Written(pixels, "paint", c, c.source, c.before), painters)
      BY <1>11, <2>3, UndoneBranch
    <3>2. EndsAt(c, l, v)
      BY <1>11, <2>3, <3>1, UndoneBranch
    <3>. QED  BY <3>1, <3>2 DEF EndsAt
  <2>. QED  BY <2>1, <2>2, <2>4, <2>5, <2>6
<1>13. c.kind = "layer" => {layer[s], c.before} = {c.before, c.after}
  BY <1>12
<1>. QED  BY <1>6, <1>8, <1>9, <1>12, <1>13, ReplayKeeps

\* The oldest command that is undone is redone.
LEMMA RedoKeeps ==
    ASSUME HistoryInv, NEW s \in Scopes, Redo(s)
    PROVE  HistoryInv' /\ NewestStays
<1>1. BranchesFit /\ HistoriesFit
  BY DEF HistoryInv
<1>2. redo[s] # {}
  BY DEF Redo
<1>3. PICK c : c = Oldest(redo[s])
  OBVIOUS
<1>4. PICK us : us = [undo EXCEPT ![s] = @ \cup {c}]
  OBVIOUS
<1>5. PICK rs : rs = [redo EXCEPT ![s] = @ \ {c}]
  OBVIOUS
<1>6. Apply(c, c.after, us, rs)
  BY <1>3, <1>4, <1>5, Zenon DEF Redo
<1>7. c \in redo[s] /\ \A d \in redo[s] : c.id <= d.id
  <2>1. redo[s] \in SUBSET (undo[s] \cup redo[s]) /\ recorded \in Nat
        /\ Chronicle(s, undo[s], redo[s], recorded)
    BY <1>1 DEF BranchesFit
  <2>2. NumberedTo(redo[s], recorded)
    BY <2>1, NumberedParts
  <2>. QED  BY <1>2, <1>3, <2>2, OldestOf
<1>8. us[s] = undo[s] \cup {c} /\ rs[s] = redo[s] \ {c}
  BY <1>1, <1>4, <1>5 DEF BranchesFit
<1>9. Moved(s, c, us, rs)
  BY <1>1, <1>4, <1>5, <1>7, <1>8 DEF Moved, EntriesOf, BranchesFit
<1>10. BranchFits(s, undo[s], redo[s], recorded, layer[s], selection[s], pixels, painters)
  BY <1>1, BranchesFitNow DEF FitsNow
<1>11. Painted(pixels, painters) /\ recorded \in Nat
  BY <1>1 DEF Painted, BranchesFit, HistoriesFit
<1>12. /\ BranchFits(s, undo[s] \cup {c}, redo[s] \ {c}, recorded,
                     IF c.kind = "layer" THEN c.after ELSE layer[s],
                     IF c.kind = "select" THEN c.after ELSE selection[s],
                     Written(pixels, "paint", c, c.source, c.after), painters)
       /\ c.kind = "layer" => c.before = layer[s]
       /\ c.kind = "paint" => c.source = layer[s]
  BY <1>7, <1>10, <1>11, RedoneBranch
<1>13. c.kind = "layer" => {layer[s], c.after} = {c.before, c.after}
  BY <1>12
<1>. QED  BY <1>6, <1>8, <1>9, <1>12, <1>13, ReplayKeeps

\* The leases of a source that a composition releases when it is removed.
Given(st, from, cs, x, l, h, f, r, live, left) ==
    /\ st = ReleaseAll(ReleaseAll(Now, "live", Once({from})), "history", Held(cs))
    /\ live = l - f /\ left = h - r
    /\ f = Once({from})[x] /\ f \in {0, 1} /\ f <= l
    /\ r = Held(cs)[x] /\ r \in Nat /\ r <= h

\* A composition is removed: its layer releases its source, its commands theirs.
LEMMA RemovedAt ==
    ASSUME NEW x \in Sources, NEW l \in Nat, NEW h \in Nat, NEW from, NEW cs, NEW st,
           At(Now, x, l, 0, h), NEW f, NEW r, NEW live, NEW left,
           Given(st, from, cs, x, l, h, f, r, live, left)
    PROVE  /\ live \in Nat /\ left \in Nat /\ At(st, x, live, 0, left)
           /\ x \in st.gone => live + left = 0
           /\ f + r > 0 => (live + left = 0 => x \in st.gone)
<1>1. PICK s1 : s1 = ReleaseAll(Now, "live", Once({from}))
  OBVIOUS
<1>2. st = ReleaseAll(s1, "history", Held(cs))
  BY <1>1 DEF Given
<1>3. PICK z \in Nat : z = 0
  OBVIOUS
<1>4. At(Now, x, l, z, h)
  BY <1>3
<1>5. /\ At(s1, x, live, z, h)
      /\ x \in s1.gone <=> x \in Now.gone \/ (f > 0 /\ live + z + h = 0)
  <2>0. live = l - Once({from})[x] /\ f = Once({from})[x]
    BY DEF Given
  <2>1. /\ At(s1, x, l - Once({from})[x], z, h)
        /\ x \in s1.gone <=> x \in Now.gone \/ (Once({from})[x] > 0 /\ l - Once({from})[x] + z + h = 0)
    BY <1>1, <1>4, Released
  <2>. QED  BY <2>0, <2>1
<1>6. /\ At(st, x, live, z, left)
      /\ x \in st.gone <=> x \in s1.gone \/ (r > 0 /\ live + z + left = 0)
  <2>0. left = h - Held(cs)[x] /\ r = Held(cs)[x]
    BY DEF Given
  <2>1. /\ At(st, x, live, z, h - Held(cs)[x])
        /\ x \in st.gone <=> x \in s1.gone \/ (Held(cs)[x] > 0 /\ live + z + (h - Held(cs)[x]) = 0)
    <3>1. PICK j \in Nat : j = live
      BY DEF Given
    <3>2. At(s1, x, j, z, h)
      BY <1>5, <3>1
    <3>3. /\ At(st, x, j, z, h - Held(cs)[x])
          /\ x \in st.gone <=> x \in s1.gone \/ (Held(cs)[x] > 0 /\ j + z + (h - Held(cs)[x]) = 0)
      BY <1>2, <3>2, Released
    <3>. QED  BY <3>1, <3>3
  <2>. QED  BY <2>0, <2>1
<1>7. live \in Nat /\ left \in Nat /\ x \notin Now.gone
  BY DEF Now, Given
<1> r \in Nat /\ f \in {0, 1} /\ r <= h /\ f <= l /\ live = l - f /\ left = h - r
  BY DEF Given
<1>8. At(st, x, live, 0, left)
  BY <1>3, <1>6
<1>9. x \in s1.gone <=> f > 0 /\ live + h = 0
  BY <1>3, <1>5, <1>7
<1>10. x \in st.gone <=> x \in s1.gone \/ (r > 0 /\ live + left = 0)
  BY <1>3, <1>6, <1>7
<1>11. live + h = 0 => live + left = 0
  BY <1>7
<1>12. ASSUME f + r > 0, live + left = 0 PROVE x \in st.gone
  <2>1. CASE r > 0
    BY <1>10, <1>12, <2>1
  <2>2. CASE r = 0
    <3>1. f > 0 /\ live + h = 0
      BY <1>7, <1>12, <2>2
    <3>. QED  BY <1>9, <1>10, <3>1
  <2>. QED  BY <2>1, <2>2
<1>. QED  BY <1>7, <1>8, <1>9, <1>10, <1>11, <1>12

\* A removed composition leaves no lease behind and takes none of another.
LEMMA RemoveKeeps ==
    ASSUME HistoryInv, NEW s \in Scopes, RemoveComposition(s)
    PROVE  HistoryInv' /\ NewestStays
<1>1. BranchesFit /\ HistoriesFit /\ Leased
  BY DEF HistoryInv
<1>2. /\ layer \in [Scopes -> Shown] /\ selection \in [Scopes -> Versions]
      /\ pixels \in [Sources -> Versions] /\ painters \in [Sources -> SUBSET Scopes]
      /\ recorded \in 0..MaxCommands /\ scopes \subseteq Scopes /\ spent \subseteq Sources
      /\ payload \subseteq spent /\ DOMAIN undo = Scopes /\ DOMAIN redo = Scopes
  BY <1>1 DEF BranchesFit, HistoriesFit, Leased
<1>3. PICK us : us = [undo EXCEPT ![s] = {}]
  OBVIOUS
<1>4. PICK rs : rs = [redo EXCEPT ![s] = {}]
  OBVIOUS
<1>5. PICK end : end = ReleaseAll(ReleaseAll(Now, "live", Once({layer[s]})), "history", Held(EntriesOf(s)))
  OBVIOUS
<1>6. /\ scopes' = scopes \ {s} /\ layer' = [layer EXCEPT ![s] = NoSource]
      /\ Conclude(payload, end, us, rs)
      /\ selection' = selection /\ pixels' = pixels /\ spent' = spent
      /\ recorded' = recorded /\ painters' = painters
  BY <1>3, <1>4, <1>5, Zenon DEF RemoveComposition
<1>7. /\ us[s] = {} /\ rs[s] = {}
      /\ \A t \in Scopes \ {s} : us[t] = undo[t] /\ rs[t] = redo[t] /\ layer'[t] = layer[t]
      /\ layer'[s] = NoSource
  BY <1>2, <1>3, <1>4, <1>6
<1>8. ASSUME NEW t \in Scopes
      PROVE  BranchFits(t, us[t], rs[t], recorded', layer'[t], selection'[t], pixels', painters')
  <2>1. BranchFits(t, undo[t], redo[t], recorded, layer[t], selection[t], pixels, painters)
    BY <1>1, BranchesFitNow DEF FitsNow
  <2>2. CASE t # s
    BY <1>6, <1>7, <2>1, <2>2
  <2>3. CASE t = s
    <3>1. /\ \A kind : OfKind({}, kind) = {}
          /\ \A x : About({}, "paint", x) = {}
      BY DEF OfKind, About
    <3>2. \A v : Threaded({}, {}, v)
      BY NothingThreaded DEF Threaded
    <3>3. \A v : LayersFit({}, {}, v) /\ SelectionsFit({}, {}, v)
      BY <3>1, <3>2, Zenon DEF LayersFit, SelectionsFit, StrokesBehind, StrokesAhead
    <3>4. \A x, v : StrokesFit({}, {}, x, v)
      BY <3>1, <3>2, Zenon DEF StrokesFit
    <3>5. \A n : Chronicle(s, {}, {}, n)
      BY FS_EmptySet DEF Chronicle
    <3>6. \A n, l, v, px, pt : BranchFits(s, {}, {}, n, l, v, px, pt)
      BY <3>3, <3>4, <3>5 DEF BranchFits
    <3>. QED  BY <1>7, <2>3, <3>6
  <2>. QED  BY <2>2, <2>3
<1>9. ValuesFit'
  BY <1>2, <1>6 DEF ValuesFit, Shown
<1>10. PICK all : all = Retaining(undo, redo)
  OBVIOUS
<1>11. PICK cs : cs = EntriesOf(s)
  OBVIOUS
<1>12. IsFiniteSet(all) /\ cs \in SUBSET all
  <2>1. \A t \in Scopes : IsFiniteSet(undo[t]) /\ IsFiniteSet(redo[t])
    BY <1>1 DEF BranchesFit, Chronicle
  <2>2. IsFiniteSet(all)
    BY <1>10, <2>1, RetainingFinite
  <2>. QED  BY <1>10, <1>11, <2>2 DEF Retaining, EntriesOf
<1>13. Retaining(us, rs) = all \ cs
  <2>1. \A t \in Scopes : \A d \in undo[t] \cup redo[t] : d.scope = t
    BY <1>1 DEF BranchesFit, Chronicle
  <2>2. \A d : d \in all <=> \E t \in Scopes : d \in undo[t] \cup redo[t]
    BY <1>10 DEF Retaining
  <2>3. \A d : d \in Retaining(us, rs) <=> \E t \in Scopes : d \in us[t] \cup rs[t]
    BY DEF Retaining
  <2>4. \A d : d \in cs <=> d \in undo[s] \cup redo[s]
    BY <1>11 DEF EntriesOf
  <2>5. ASSUME NEW d \in Retaining(us, rs) PROVE d \in all \ cs
    <3>1. PICK t \in Scopes : d \in us[t] \cup rs[t]
      BY <2>3
    <3>2. t # s /\ d \in undo[t] \cup redo[t]
      BY <1>7, <3>1
    <3>. QED  BY <2>1, <2>2, <2>4, <3>2
  <2>6. ASSUME NEW d \in all \ cs PROVE d \in Retaining(us, rs)
    <3>1. PICK t \in Scopes : d \in undo[t] \cup redo[t]
      BY <2>2
    <3>2. t # s
      BY <2>4, <3>1
    <3>. QED  BY <1>7, <2>3, <3>1, <3>2
  <2>. QED  BY <2>5, <2>6
<1>14. PICK shown : shown = [layer EXCEPT ![s] = NoSource]
  OBVIOUS
<1>15. ASSUME NEW x \in Sources
       PROVE  Settled(end, payload, x, LiveOf(shown, x), Held(all \ cs)[x])
  <2>1. PICK l \in Nat : l = LiveOf(layer, x)
    BY <1>1, LeasedNow
  <2>2. PICK h \in Nat : h = Held(all)[x]
    BY <1>1, <1>10, LeasedNow
  <2>3. At(Now, x, l, 0, h) /\ (x \in payload <=> l + h > 0)
    BY <1>1, <1>10, <2>1, <2>2, LeasedNow
  <2>4. PICK f : f = Once({layer[s]})[x]
    OBVIOUS
  <2>5. PICK r : r = Held(cs)[x]
    OBVIOUS
  <2>6. r \in Nat /\ r <= h /\ Held(all \ cs)[x] = h - r
    BY <1>12, <2>2, <2>5, HeldRemoves
  <2>7. f \in {0, 1} /\ f <= l /\ LiveOf(shown, x) = l - f
    <3>1. CASE layer[s] # NoSource
      <4>1. Reshown(layer, shown, s, NoSource)
        BY <1>2, <1>14, <3>1 DEF Reshown
      <4>2. Swapped(x, layer[s], NoSource, LiveOf(layer, x), LiveOf(shown, x))
        BY <4>1, LiveChanges
      <4>3. Once({NoSource})[x] = 0 /\ f \in {0, 1}
        BY <2>4, LimitAssumption DEF Once
      <4>4. f <= l /\ LiveOf(shown, x) = l - f + 0
        BY <2>1, <2>4, <4>2, <4>3 DEF Swapped
      <4>. QED  BY <2>1, <4>3, <4>4
    <3>2. CASE layer[s] = NoSource
      <4>1. shown = layer
        BY <1>2, <1>14, <3>2
      <4>2. f = 0
        BY <2>4, <3>2, LimitAssumption DEF Once
      <4>. QED  BY <2>1, <4>1, <4>2
    <3>. QED  BY <3>1, <3>2
  <2>8. PICK live : live = l - f
    OBVIOUS
  <2>9. PICK left : left = h - r
    OBVIOUS
  <2>10. Given(end, layer[s], cs, x, l, h, f, r, live, left)
    BY <1>5, <1>11, <2>4, <2>5, <2>6, <2>7, <2>8, <2>9 DEF Given
  <2>12. /\ live \in Nat /\ left \in Nat /\ At(end, x, live, 0, left)
         /\ x \in end.gone => live + left = 0
         /\ f + r > 0 => (live + left = 0 => x \in end.gone)
    BY <2>3, <2>10, RemovedAt
  <2>13. x \in payload \ end.gone <=> live + left > 0
    <3>1. ASSUME live + left > 0 PROVE x \in payload \ end.gone
      BY <2>3, <2>6, <2>7, <2>8, <2>9, <2>12, <3>1
    <3>2. ASSUME live + left = 0, x \in payload PROVE x \in end.gone
      <4>1. l + h > 0
        BY <2>3, <3>2
      <4>2. f + r > 0
        BY <2>6, <2>7, <2>8, <2>9, <2>12, <3>2, <4>1
      <4>. QED  BY <2>12, <3>2, <4>2
    <3>. QED  BY <2>12, <3>1, <3>2
  <2>. QED  BY <2>6, <2>7, <2>8, <2>9, <2>12, <2>13 DEF Settled
<1>16. \E f : end.leases = [x \in Sources |-> f[x]]
  BY <1>5, ReleasedAll
<1>17. Balanced(end, payload, layer', us, rs)
  BY <1>6, <1>13, <1>14, <1>15, <1>16, Zenon DEF Balanced
<1>18. payload \in SUBSET Sources /\ payload \subseteq spent'
  BY <1>2, <1>6
<1>19. NewestStays
  BY <1>2, <1>6 DEF NewestStays
<1>. QED  BY <1>6, <1>8, <1>9, <1>17, <1>18, <1>19, StepFits

-----------------------------------------------------------------------------
(* What the invariant implies.                                             *)

\* The newest command that is done and the oldest that is undone, of a thread.
LEMMA ThreadMeets ==
    ASSUME NEW K, NEW U, NEW n, NumberedTo(K \cup U, n), NEW v, Threaded(K, U, v),
           \A c \in K, d \in U : c.id < d.id
    PROVE  /\ \A c, d \in K \cup U : Neighbours(K \cup U, c, d) => c.after = d.before
           /\ K # {} => Newest(K).after = v
           /\ U # {} => Oldest(U).before = v
<1>1. NumberedTo(K, n) /\ NumberedTo(U, n)
  BY DEF NumberedTo
<1>2. K # {} => Newest(K).after = v
  BY <1>1, NewestOf DEF Threaded, Behind
<1>3. U # {} => Oldest(U).before = v
  BY <1>1, OldestOf DEF Threaded, Ahead
<1>4. \A c, d \in K \cup U : Neighbours(K \cup U, c, d) => c.after = d.before
  BY BranchesMeet
<1>. QED  BY <1>2, <1>3, <1>4

\* Threads that meet at the current value are what undo and redo walk along.
LEMMA ReplayRestored ==
    ASSUME HistoryInv
    PROVE  ReplayRestores
<1>1. BranchesFit /\ HistoriesFit /\ scopes \subseteq Scopes
  BY DEF HistoryInv, Leased
<1> SUFFICES ASSUME NEW s \in scopes, NEW kind \in Kinds, NEW x \in Sources
             PROVE  LET done == About(undo[s], kind, x)
                        undone == About(redo[s], kind, x)
                        path == done \cup undone
                    IN  \/ kind = "paint" /\ painters[x] # {s}
                        \/ /\ \A c, d \in path : Neighbours(path, c, d) => c.after = d.before
                           /\ done # {} => Newest(done).after = Value(s, kind, x)
                           /\ undone # {} => Oldest(undone).before = Value(s, kind, x)
  BY Zenon DEF ReplayRestores
<1>2. s \in Scopes
  BY <1>1
<1>3. BranchFits(s, undo[s], redo[s], recorded, layer[s], selection[s], pixels, painters)
  BY <1>1, <1>2, BranchesFitNow DEF FitsNow
<1>4. PICK done : done = About(undo[s], kind, x)
  OBVIOUS
<1>5. PICK undone : undone = About(redo[s], kind, x)
  OBVIOUS
<1>6. PICK v : v = Value(s, kind, x)
  OBVIOUS
<1>7. done \subseteq undo[s] /\ undone \subseteq redo[s]
  BY <1>4, <1>5 DEF About, OfKind
<1>8. NumberedTo(done \cup undone, recorded) /\ \A c \in done, d \in undone : c.id < d.id
  <2>1. Chronicle(s, undo[s], redo[s], recorded) /\ recorded \in Nat
    BY <1>1, <1>2 DEF BranchesFit
  <2>2. done \cup undone \in SUBSET (undo[s] \cup redo[s])
    BY <1>7
  <2>3. NumberedTo(done \cup undone, recorded)
    BY <2>1, <2>2, NumberedParts
  <2>. QED  BY <1>7, <2>1, <2>3 DEF Chronicle
<1>9. ASSUME ~(kind = "paint" /\ painters[x] # {s}) PROVE Threaded(done, undone, v)
  <2>1. CASE kind = "layer"
    <3>1. /\ done = OfKind(undo[s], "layer") /\ undone = OfKind(redo[s], "layer") /\ v = layer[s]
      BY <1>4, <1>5, <1>6, <2>1 DEF About, OfKind, Value
    <3>. QED  BY <1>3, <3>1, Zenon DEF BranchFits, LayersFit
  <2>2. CASE kind = "select"
    <3>1. /\ done = OfKind(undo[s], "select") /\ undone = OfKind(redo[s], "select")
          /\ v = selection[s]
      BY <1>4, <1>5, <1>6, <2>2 DEF About, OfKind, Value
    <3>. QED  BY <1>3, <3>1, Zenon DEF BranchFits, SelectionsFit
  <2>3. CASE kind = "paint"
    <3>1. /\ done = About(undo[s], "paint", x) /\ undone = About(redo[s], "paint", x)
          /\ v = pixels[x]
      BY <1>4, <1>5, <1>6, <2>3 DEF Value
    <3>2. painters[x] = {s}
      BY <1>9, <2>3
    <3>. QED  BY <1>3, <3>1, <3>2, Zenon DEF BranchFits, StrokesFit
  <2>. QED  BY <2>1, <2>2, <2>3 DEF Kinds
<1>10. ASSUME ~(kind = "paint" /\ painters[x] # {s})
       PROVE  /\ \A c, d \in done \cup undone : Neighbours(done \cup undone, c, d) => c.after = d.before
              /\ done # {} => Newest(done).after = v
              /\ undone # {} => Oldest(undone).before = v
  <2>1. Threaded(done, undone, v)
    BY <1>9, <1>10
  <2>2. PICK n : n = recorded
    OBVIOUS
  <2>3. NumberedTo(done \cup undone, n) /\ \A c \in done, d \in undone : c.id < d.id
    BY <1>8, <2>2
  <2>. QED  BY <2>1, <2>3, ThreadMeets, Zenon
<1>. QED  BY <1>4, <1>5, <1>6, <1>10, Zenon

\* What a layer shows, a transition needs or a stroke was painted on exists.
LEMMA SourcesExist ==
    ASSUME BranchesFit, HistoriesFit, Leased, NEW s \in Scopes
    PROVE  /\ layer[s] \in payload \cup {NoSource}
           /\ \A c \in EntriesOf(s) : /\ ResourcesOf(c) \subseteq payload
                                      /\ c.kind = "paint" => c.source \in payload
<1>1. /\ Chronicle(s, undo[s], redo[s], recorded) /\ recorded \in Nat /\ layer[s] \in Shown
      /\ LayersFit(undo[s], redo[s], layer[s])
  BY DEF BranchesFit, HistoriesFit
<1>2. PICK all : all = Retaining(undo, redo)
  OBVIOUS
<1>3. IsFiniteSet(all) /\ EntriesOf(s) \subseteq all
  <2>1. \A t \in Scopes : IsFiniteSet(undo[t]) /\ IsFiniteSet(redo[t])
    BY DEF BranchesFit, Chronicle
  <2>2. IsFiniteSet(all)
    BY <1>2, <2>1, RetainingFinite
  <2>. QED  BY <1>2, <2>2 DEF Retaining, EntriesOf
<1>4. ASSUME NEW x \in Sources, layer[s] = x PROVE x \in payload
  <2>1. PICK F : F = {t \in Scopes : layer[t] = x}
    OBVIOUS
  <2>2. IsFiniteSet(F) /\ F # {}
    BY <1>4, <2>1, ScopesFinite, FS_Subset
  <2>3. PICK l \in Nat : l = LiveOf(layer, x)
    BY LeasedNow
  <2>4. PICK h \in Nat : h = Held(all)[x]
    BY <1>2, LeasedNow
  <2>5. l # 0
    BY <2>1, <2>2, <2>3, FS_EmptySet DEF LiveOf
  <2>6. x \in payload <=> l + h > 0
    BY <1>2, <2>3, <2>4, LeasedNow
  <2>. QED  BY <2>5, <2>6
<1>5. ASSUME NEW d \in EntriesOf(s), NEW x \in Sources, x \in ResourcesOf(d) PROVE x \in payload
  <2>1. PICK l \in Nat : l = LiveOf(layer, x)
    BY LeasedNow
  <2>2. PICK h \in Nat : h = Held(all)[x]
    BY <1>2, LeasedNow
  <2>3. h > 0
    BY <1>3, <1>5, <2>2, HeldCounts
  <2>4. x \in payload <=> l + h > 0
    BY <1>2, <2>1, <2>2, LeasedNow
  <2>. QED  BY <2>3, <2>4
<1>6. layer[s] \in payload \cup {NoSource}
  BY <1>1, <1>4 DEF Shown
<1>7. ASSUME NEW c \in EntriesOf(s) PROVE ResourcesOf(c) \subseteq payload
  <2>1. CommandFits(c)
    BY <1>1 DEF Chronicle, EntriesOf
  <2>2. ResourcesOf(c) \subseteq Sources
    BY <2>1 DEF CommandFits, ResourcesOf, Shown
  <2>. QED  BY <1>5, <2>2
<1>8. ASSUME NEW c \in EntriesOf(s), c.kind = "paint" PROVE c.source \in payload
  <2>1. CommandFits(c) /\ c \in undo[s] \cup redo[s]
    BY <1>1 DEF Chronicle, EntriesOf
  <2>2. c.source \in Sources
    BY <1>8, <2>1 DEF CommandFits
  <2>3. c.source = layer[s] \/ \E d \in undo[s] \cup redo[s] : c.source \in ResourcesOf(d)
    BY <1>1, <1>8, <2>1, StrokeIsLeased
  <2>. QED  BY <1>4, <1>5, <2>2, <2>3 DEF EntriesOf
<1>. QED  BY <1>6, <1>7, <1>8

\* The next command of a branch is accepted and every source it needs exists.
LEMMA ReplayableNow ==
    ASSUME HistoryInv
    PROVE  ReplayableForEver
<1>1. BranchesFit /\ HistoriesFit /\ Leased
  BY DEF HistoryInv
<1>2. ASSUME NEW s \in Scopes, undo[s] # {}
      PROVE  Accepts(Newest(undo[s]), Newest(undo[s]).before)
  <2>1. PICK K : K = undo[s]
    OBVIOUS
  <2>2. PICK U : U = redo[s]
    OBVIOUS
  <2>3. PICK c : c = Newest(K)
    OBVIOUS
  <2>4. Chronicle(s, K, U, recorded) /\ recorded \in Nat
    BY <1>1, <2>1, <2>2 DEF BranchesFit
  <2>5. NumberedTo(K, recorded)
    <3>1. K \in SUBSET (K \cup U)
      OBVIOUS
    <3>. QED  BY <2>4, <3>1, NumberedParts
  <2>6. c \in K /\ \A d \in K : d.id <= c.id
    BY <1>2, <2>1, <2>3, <2>5, NewestOf
  <2>7. LayersFit(K, U, layer[s]) /\ SelectionsFit(K, U, selection[s])
    BY <1>1, <2>1, <2>2 DEF HistoriesFit
  <2>8. CommandFits(c) /\ c.scope = s
    BY <2>4, <2>6 DEF Chronicle
  <2>9. c.kind = "layer" => c.after = layer[s]
    <3>1. Behind(OfKind(K, "layer"), layer[s])
      BY <2>7 DEF LayersFit, Threaded
    <3>. QED  BY <2>6, <3>1 DEF Behind, OfKind
  <2>10. c.kind = "select" => c.after = selection[s]
    <3>1. Behind(OfKind(K, "select"), selection[s])
      BY <2>7 DEF SelectionsFit, Threaded
    <3>. QED  BY <2>6, <3>1 DEF Behind, OfKind
  <2>11. Accepts(c, c.before)
    BY <2>8, <2>9, <2>10 DEF CommandFits, Accepts
  <2>. QED  BY <2>1, <2>3, <2>11
<1>3. ASSUME NEW s \in Scopes, redo[s] # {}
      PROVE  Accepts(Oldest(redo[s]), Oldest(redo[s]).after)
  <2>1. PICK K : K = undo[s]
    OBVIOUS
  <2>2. PICK U : U = redo[s]
    OBVIOUS
  <2>3. PICK c : c = Oldest(U)
    OBVIOUS
  <2>4. Chronicle(s, K, U, recorded) /\ recorded \in Nat
    BY <1>1, <2>1, <2>2 DEF BranchesFit
  <2>5. NumberedTo(U, recorded)
    <3>1. U \in SUBSET (K \cup U)
      OBVIOUS
    <3>. QED  BY <2>4, <3>1, NumberedParts
  <2>6. c \in U /\ \A d \in U : c.id <= d.id
    BY <1>3, <2>2, <2>3, <2>5, OldestOf
  <2>7. LayersFit(K, U, layer[s]) /\ SelectionsFit(K, U, selection[s])
    BY <1>1, <2>1, <2>2 DEF HistoriesFit
  <2>8. CommandFits(c) /\ c.scope = s
    BY <2>4, <2>6 DEF Chronicle
  <2>9. c.kind = "layer" => c.before = layer[s]
    <3>1. Ahead(OfKind(U, "layer"), layer[s])
      BY <2>7 DEF LayersFit, Threaded
    <3>. QED  BY <2>6, <3>1 DEF Ahead, OfKind
  <2>10. c.kind = "select" => c.before = selection[s]
    <3>1. Ahead(OfKind(U, "select"), selection[s])
      BY <2>7 DEF SelectionsFit, Threaded
    <3>. QED  BY <2>6, <3>1 DEF Ahead, OfKind
  <2>11. Accepts(c, c.after)
    BY <2>8, <2>9, <2>10 DEF CommandFits, Accepts
  <2>. QED  BY <2>2, <2>3, <2>11
<1>4. \A s \in Scopes :
         /\ layer[s] \in payload \cup {NoSource}
         /\ \A c \in EntriesOf(s) : /\ ResourcesOf(c) \subseteq payload
                                    /\ c.kind = "paint" => c.source \in payload
  BY <1>1, SourcesExist
<1>. QED  BY <1>2, <1>3, <1>4, Zenon DEF ReplayableForEver

\* The invariant has the types.
LEMMA HistoryTypes ==
    ASSUME HistoryInv
    PROVE  HistoryTypeOK
<1>1. BranchesFit /\ HistoriesFit /\ Leased
  BY DEF HistoryInv
<1>2. \A s \in Scopes : \A c \in EntriesOf(s) : c.scope = s /\ c.kind \in Kinds /\ c.id \in 1..recorded
  BY <1>1 DEF BranchesFit, Chronicle, CommandFits, EntriesOf
<1>. QED  BY <1>1, <1>2 DEF HistoryTypeOK, BranchesFit, Leased, Shown, Versions

-----------------------------------------------------------------------------
(* The theorems about EditHistory.                                         *)

\* Nothing is recorded and nothing leased initially.
LEMMA HistoryStarts ==
    ASSUME HistoryInit
    PROVE  HistoryInv
<1>1. /\ scopes = Scopes
      /\ layer = [s \in Scopes |-> NoSource] /\ selection = [s \in Scopes |-> 0]
      /\ pixels = [x \in Sources |-> 0] /\ payload = {} /\ spent = {}
      /\ undo = [s \in Scopes |-> {}] /\ redo = [s \in Scopes |-> {}]
      /\ leases = [x \in Sources |-> [live |-> 0, session |-> 0, history |-> 0]]
      /\ recorded = 0 /\ painters = [x \in Sources |-> {}]
  BY DEF HistoryInit
<1>2. \A s \in Scopes : undo[s] = {} /\ redo[s] = {}
  BY <1>1
<1>3. /\ \A kind : OfKind({}, kind) = {}
      /\ \A x : About({}, "paint", x) = {}
  BY DEF OfKind, About
<1>4. \A v : Threaded({}, {}, v)
  BY NothingThreaded DEF Threaded
<1>5. \A v : LayersFit({}, {}, v) /\ SelectionsFit({}, {}, v)
  BY <1>3, <1>4, Zenon DEF LayersFit, SelectionsFit, StrokesBehind, StrokesAhead
<1>6. \A s \in Scopes : Chronicle(s, undo[s], redo[s], recorded)
  BY <1>2, FS_EmptySet DEF Chronicle
<1>7. BranchesFit
  BY <1>1, <1>6, LimitAssumption DEF BranchesFit, Shown, Versions
<1>8. HistoriesFit
  <2>1. \A s \in Scopes : /\ LayersFit(undo[s], redo[s], layer[s])
                          /\ SelectionsFit(undo[s], redo[s], selection[s])
    BY <1>2, <1>5
  <2>2. painters \in [Sources -> SUBSET Scopes] /\ \A s \in Scopes : EntriesOf(s) = {}
    BY <1>1, <1>2 DEF EntriesOf
  <2>3. \A s \in Scopes, x \in Sources : painters[x] # {s}
    BY <1>1
  <2>. QED  BY <2>1, <2>2, <2>3 DEF HistoriesFit
<1>9. Leased
  <2>1. leases \in [Sources -> [live : Nat, session : Nat, history : Nat]]
    BY <1>1
  <2>2. ASSUME NEW x \in Sources
        PROVE  /\ leases[x].live = 0 /\ leases[x].session = 0 /\ leases[x].history = 0
               /\ Total(leases, x) = 0
    BY <1>1 DEF Total
  <2>3. ASSUME NEW x \in Sources PROVE Cardinality({s \in Scopes : layer[s] = x}) = 0
    <3>1. {s \in Scopes : layer[s] = x} = {}
      BY <1>1, LimitAssumption
    <3>. QED  BY <3>1, FS_EmptySet
  <2>4. UNION {EntriesOf(t) : t \in Scopes} = {}
    BY <1>2 DEF EntriesOf
  <2>5. ASSUME NEW x \in Sources PROVE Held({})[x] = 0
    <3>1. {c \in {} : x \in ResourcesOf(c)} = {}
      OBVIOUS
    <3>. QED  BY <3>1, FS_EmptySet DEF Held
  <2>6. LeasesAreExact
    BY <1>1, <2>2, <2>3, <2>4, <2>5, Zenon DEF LeasesAreExact
  <2>7. \A x \in Sources : x \in payload <=> Total(leases, x) > 0
    BY <1>1, <2>2
  <2>. QED  BY <1>1, <2>1, <2>6, <2>7 DEF Leased
<1>. QED  BY <1>7, <1>8, <1>9 DEF HistoryInv

\* Every action keeps the invariant.
LEMMA HistoryStep ==
    ASSUME HistoryInv, HistoryNext
    PROVE  HistoryInv' /\ NewestStays
BY PaintKeeps, ReplaceKeeps, SelectKeeps, UndoKeeps, RedoKeeps, RemoveKeeps, Zenon DEF HistoryNext

\* So does a step that changes nothing.
LEMMA HistoryStutters ==
    ASSUME HistoryInv, UNCHANGED historyVars
    PROVE  HistoryInv' /\ NewestStays
<1> USE DEF historyVars
<1>1. HistoryInv'
  <2>1. BranchesFit'
    BY DEF HistoryInv, BranchesFit
  <2>2. HistoriesFit'
    BY DEF HistoryInv, HistoriesFit, EntriesOf
  <2>3. LeasesAreExact'
    <3>1. LeasesAreExact
      BY DEF HistoryInv, Leased
    <3>2. /\ leases' = leases /\ layer' = layer /\ payload' = payload
          /\ undo' = undo /\ redo' = redo
      OBVIOUS
    <3>3. \A t \in Scopes : EntriesOf(t)' = EntriesOf(t)
      BY <3>2 DEF EntriesOf
    <3>4. UNION {EntriesOf(t)' : t \in Scopes} = UNION {EntriesOf(t) : t \in Scopes}
      BY <3>3
    <3>5. ASSUME NEW x \in Sources
          PROVE  /\ leases'[x].live = Cardinality({s \in Scopes : layer'[s] = x})
                 /\ leases'[x].session = 0
                 /\ leases'[x].history = Held(UNION {EntriesOf(t)' : t \in Scopes})[x]
                 /\ x \in payload' => Total(leases', x) > 0
      <4>1. /\ leases[x].live = Cardinality({s \in Scopes : layer[s] = x})
            /\ leases[x].session = 0
            /\ leases[x].history = Held(UNION {EntriesOf(t) : t \in Scopes})[x]
            /\ x \in payload => Total(leases, x) > 0
        BY <3>1, Zenon DEF LeasesAreExact
      <4>2. {s \in Scopes : layer'[s] = x} = {s \in Scopes : layer[s] = x}
        BY <3>2
      <4>3. leases'[x].live = Cardinality({s \in Scopes : layer'[s] = x})
        BY <3>2, <4>1, <4>2
      <4>4. leases'[x].history = Held(UNION {EntriesOf(t)' : t \in Scopes})[x]
        BY <3>2, <3>4, <4>1, Zenon
      <4>. QED  BY <3>2, <4>1, <4>3, <4>4
    <3>. QED  BY <3>5, Zenon DEF LeasesAreExact, Held, ResourcesOf, Total
  <2>4. Leased'
    BY <2>3 DEF HistoryInv, Leased, Total
  <2>. QED  BY <2>1, <2>2, <2>4 DEF HistoryInv
<1>2. recorded \in Nat /\ recorded' = recorded
  BY DEF HistoryInv, BranchesFit
<1>. QED  BY <1>1, <1>2 DEF NewestStays

\* The branches of a composition are threaded, the strokes fit the layer and
\* the leases are balanced, in every state.
THEOREM HistoryInvariant == HistorySpec => []HistoryInv
<1>1. HistoryInit => HistoryInv
  BY HistoryStarts
<1>2. HistoryInv /\ [HistoryNext]_historyVars => HistoryInv'
  BY HistoryStep, HistoryStutters
<1>. QED  BY <1>1, <1>2, PTL DEF HistorySpec

\* Every variable of the history keeps its type.
THEOREM HistoryTypesStay == HistorySpec => []HistoryTypeOK
<1>1. HistoryInv => HistoryTypeOK
  BY HistoryTypes
<1>. QED  BY <1>1, HistoryInvariant, PTL

\* What can be undone or redone finds its sources, and no command is refused.
THEOREM ReplayableForEverAlways == HistorySpec => []ReplayableForEver
<1>1. HistoryInv => ReplayableForEver
  BY ReplayableNow
<1>. QED  BY <1>1, HistoryInvariant, PTL

\* Leases count exactly what refers to a source, and a source without any is gone.
THEOREM LeasesAreExactAlways == HistorySpec => []LeasesAreExact
<1>1. HistoryInv => LeasesAreExact
  BY DEF HistoryInv, Leased
<1>. QED  BY <1>1, HistoryInvariant, PTL

\* Undo and redo walk through states the document was in.
THEOREM ReplayRestoresAlways == HistorySpec => []ReplayRestores
<1>1. HistoryInv => ReplayRestores
  BY ReplayRestored
<1>. QED  BY <1>1, HistoryInvariant, PTL

\* A recorded command is kept, nothing is left to redo, and each class of the
\* rest is within the soft limits.
THEOREM LimitsKeepTheNewestAlways == HistorySpec => LimitsKeepTheNewest
<1>1. HistoryInv /\ [HistoryNext]_historyVars => [NewestStays]_historyVars
  BY HistoryStep
<1>2. HistorySpec => [][NewestStays]_historyVars
  BY <1>1, HistoryInvariant, PTL DEF HistorySpec
<1>. QED  BY <1>2 DEF LimitsKeepTheNewest, NewestStays

=============================================================================
