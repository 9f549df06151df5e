------------------------------- MODULE PushSteps -------------------------------
(***************************************************************************)
(* What the operators UploadSync is built from return: sorting, the choice *)
(* of an id for a scope, the answers of a stack of stores, what the upload *)
(* scan of a document covers. Then the steps, one lemma for each action:   *)
(* what a call has when it stands somewhere (Placed), where its next step  *)
(* leads and which of its variables it keeps. All of it holds for every    *)
(* value of the constants.                                                 *)
(***************************************************************************)
EXTENDS UploadSync, Numbers, FiniteSetTheorems

-----------------------------------------------------------------------------
(* Finite sets of numbers. *)

\* Among some subsets of a finite set there is one that leaves them with any element
\* taken away: what stands in for an induction over finite sets.
LEMMA Smallest ==
    ASSUME NEW S, IsFiniteSet(S), NEW G \in SUBSET SUBSET S, G # {}
    PROVE  \E T \in G : IsFiniteSet(T) /\ \A x \in T : T \ {x} \notin G
<1> DEFINE Sizes == {Cardinality(T) : T \in G}
<1>1. \A T \in G : IsFiniteSet(T) /\ Cardinality(T) \in Nat
  BY FS_Subset, FS_CardinalityType
<1>2. Sizes \in SUBSET Nat /\ Sizes # {}
  BY <1>1
<1>3. PICK n \in Sizes : \A m \in Sizes : n <= m
  BY <1>2, Least
<1>4. PICK T \in G : n = Cardinality(T)
  BY <1>3
<1>5. ASSUME NEW x \in T, T \ {x} \in G
      PROVE  FALSE
  <2>1. Cardinality(T \ {x}) = n - 1
    BY <1>1, <1>4, FS_RemoveElement
  <2>2. n <= n - 1 /\ n \in Nat
    BY <2>1, <1>2, <1>3, <1>5
  <2>3. QED
    BY <2>2
<1>6. QED
  BY <1>1, <1>4, <1>5

\* A finite set of naturals has a greatest element.
LEMMA FiniteGreatest ==
    ASSUME NEW S \in SUBSET Nat, IsFiniteSet(S), S # {}
    PROVE  \E x \in S : \A y \in S : x >= y
<1> DEFINE G == {T \in SUBSET S : T # {} /\ ~ \E x \in T : \A y \in T : x >= y}
<1>1. SUFFICES ASSUME G # {}
               PROVE  FALSE
  BY DEF G
<1>2. PICK T \in G : \A x \in T : T \ {x} \notin G
  <2> HIDE DEF G
  <2>1. G \in SUBSET SUBSET S
    BY DEF G
  <2>2. QED
    BY <1>1, <2>1, Smallest
<1>3. PICK x \in T : TRUE
  OBVIOUS
<1>4. CASE T \ {x} = {}
  BY <1>4
<1>5. CASE T \ {x} # {}
  <2>1. PICK z \in T \ {x} : \A y \in T \ {x} : z >= y
    BY <1>2, <1>5
  <2>2. x \in Nat /\ z \in Nat /\ T \subseteq Nat
    OBVIOUS
  <2>3. CASE x >= z
    <3>1. \A y \in T : x >= y
      BY <2>1, <2>2, <2>3
    <3>2. QED
      BY <3>1
  <2>4. CASE ~ (x >= z)
    <3>1. \A y \in T : z >= y
      BY <2>1, <2>2, <2>4
    <3>2. QED
      BY <3>1
  <2>5. QED
    BY <2>3, <2>4
<1>6. QED
  BY <1>4, <1>5

\* A finite set of naturals can be listed in increasing order.
LEMMA Listable ==
    ASSUME NEW S \in SUBSET Nat, IsFiniteSet(S)
    PROVE  \E s \in [1 .. Cardinality(S) -> S] :
             \A i, j \in 1 .. Cardinality(S) : i < j => s[i] < s[j]
<1> DEFINE Listed(T) == \E s \in [1 .. Cardinality(T) -> T] :
                          \A i, j \in 1 .. Cardinality(T) : i < j => s[i] < s[j]
           G == {T \in SUBSET S : ~ Listed(T)}
<1>1. SUFFICES ASSUME G # {}
               PROVE  FALSE
  OBVIOUS
<1>2. PICK T \in G : IsFiniteSet(T) /\ \A x \in T : T \ {x} \notin G
  <2> HIDE DEF G
  <2>1. G \in SUBSET SUBSET S
    BY DEF G
  <2>2. QED
    BY <1>1, <2>1, Smallest
<1>3. CASE T = {}
  <2>1. Cardinality(T) = 0
    BY <1>3, FS_EmptySet
  <2>2. 1 .. Cardinality(T) = {}
    BY <2>1
  <2>3. [i \in {} |-> 0] \in [{} -> T]
    OBVIOUS
  <2>4. Listed(T)
    BY <2>2, <2>3
  <2>5. QED
    BY <2>4
<1>4. CASE T # {}
  <2> DEFINE n == Cardinality(T)
  <2>1. T \in SUBSET Nat
    OBVIOUS
  <2>2. PICK x \in T : \A y \in T : x >= y
    BY <1>2, <1>4, <2>1, FiniteGreatest
  <2>3. n \in Nat /\ Cardinality(T \ {x}) = n - 1 /\ n - 1 \in Nat
    <3>1. IsFiniteSet(T) /\ IsFiniteSet(T \ {x}) /\ Cardinality(T \ {x}) = Cardinality(T) - 1
      BY <1>2, <2>2, FS_RemoveElement
    <3>2. Cardinality(T) \in Nat /\ Cardinality(T \ {x}) \in Nat
      BY <3>1, FS_CardinalityType
    <3>3. QED
      BY <3>1, <3>2
  <2>4. Listed(T \ {x})
    BY <1>2, <2>2
  <2>5. PICK s \in [1 .. n - 1 -> T \ {x}] : \A i, j \in 1 .. n - 1 : i < j => s[i] < s[j]
    BY <2>3, <2>4
  <2> HIDE DEF n
  <2>6. DEFINE t == [i \in 1 .. n |-> IF i = n THEN x ELSE s[i]]
  <2>7. \A i \in 1 .. n : i # n => i \in 1 .. n - 1
    BY <2>3
  <2>8. t \in [1 .. n -> T]
    BY <2>5, <2>7
  <2>9. ASSUME NEW i \in 1 .. n, NEW j \in 1 .. n, i < j
        PROVE  t[i] < t[j]
    <3>1. i \in 1 .. n - 1 /\ t[i] = s[i] /\ s[i] \in T \ {x}
      BY <2>3, <2>5, <2>7, <2>9
    <3>2. CASE j = n
      <4>1. s[i] \in Nat /\ x \in Nat /\ s[i] # x /\ x >= s[i]
        BY <2>1, <2>2, <3>1
      <4>2. t[j] = x
        BY <3>2
      <4>3. QED
        BY <3>1, <4>1, <4>2
    <3>3. CASE j # n
      BY <2>5, <2>7, <2>9, <3>1, <3>3
    <3>4. QED
      BY <3>2, <3>3
  <2>10. Listed(T)
    BY <2>8, <2>9 DEF n
  <2>11. QED
    BY <2>10
<1>5. QED
  BY <1>3, <1>4

\* slices.Sort of a finite set of paths or ids: each of them once.
LEMMA SortedLists ==
    ASSUME NEW S \in SUBSET Nat, IsFiniteSet(S)
    PROVE  /\ Sorted(S) \in Seq(S)
           /\ ToSet(Sorted(S)) = S
           /\ \A i, j \in DOMAIN Sorted(S) : i # j => Sorted(S)[i] # Sorted(S)[j]
           /\ Len(Sorted(S)) = Cardinality(S)
<1> DEFINE n == Cardinality(S)
           s == Sorted(S)
<1>1. n \in Nat
  BY FS_CardinalityType
<1>2. s \in [1 .. n -> S] /\ \A i, j \in 1 .. n : i < j => s[i] < s[j]
  BY Listable DEF Sorted
<1> HIDE DEF s, n
<1>3. ASSUME NEW i \in 1 .. n, NEW j \in 1 .. n, i # j
      PROVE  s[i] # s[j]
  <2>1. i < j \/ j < i
    BY <1>1, <1>3
  <2>2. s[i] \in Nat /\ s[j] \in Nat
    BY <1>2
  <2>3. QED
    BY <1>2, <2>1, <2>2
<1>4. s \in Injection(1 .. n, S)
  BY <1>2, <1>3 DEF Injection, IsInjective
<1>5. IsFiniteSet(1 .. n) /\ Cardinality(1 .. n) = n
  <2>1. 1 \in Int /\ n \in Int
    BY <1>1
  <2>2. QED
    BY <1>1, <2>1, FS_Interval
<1>6. s \in Surjection(1 .. n, S)
  BY <1>4, <1>5, FS_Injection DEF n
<1>7. \A x \in S : \E i \in 1 .. n : s[i] = x
  BY <1>6 DEF Surjection
<1>8. s \in Seq(S) /\ Len(s) = n /\ DOMAIN s = 1 .. n
  BY <1>1, <1>2
<1>9. ToSet(s) = S
  BY <1>2, <1>7, <1>8 DEF ToSet
<1>10. QED
  BY <1>3, <1>8, <1>9 DEF s, n

-----------------------------------------------------------------------------
(* The stack of stores. *)

Folders == [Layers -> [Paths -> Hashes \cup {NoFile}]]

\* A layer has files where it can load them.
Stored ==
    /\ file \in Folders
    /\ \A l \in Layers : \A p \in Paths \ Reaches[l] : file[l][p] = NoFile
    /\ ids \in [IndexIds -> [Hashes -> [Ids -> Scopes \cup {NoScope}]]]

\* Some id of a content can be given to a scope.
Visible(sc, s) == \E k \in Ids : sc[k] # NoScope /\ (s = Unscoped \/ sc[k] \in {s, Unscoped})

\* assetRecord.scopeFor: an id of the caller's scope or an unscoped one, whenever there is one.
LEMMA ScopeForGives ==
    ASSUME NEW sc \in [Ids -> Scopes \cup {NoScope}], NEW s \in Scopes
    PROVE  /\ ScopeFor(sc, s) \in Ids \cup {0}
           /\ ScopeFor(sc, s) # 0 <=> Visible(sc, s)
           /\ LET k == ScopeFor(sc, s)
              IN  k # 0 => sc[k] # NoScope /\ (s = Unscoped \/ sc[k] \in {s, Unscoped})
<1> DEFINE exact  == {k \in Ids : sc[k] # NoScope /\ s \in {Unscoped, sc[k]}}
           legacy == {k \in Ids : sc[k] = Unscoped}
           first  == CHOOSE k \in exact : \A j \in exact : k <= j
           last   == CHOOSE k \in legacy : \A j \in legacy : k >= j
<1>1. /\ exact \in SUBSET Nat /\ legacy \in SUBSET Nat /\ 0 \notin Ids
      /\ IsFiniteSet(legacy) /\ NoScope # Unscoped
  BY PushAssumption, FS_Subset
<1>2. ScopeFor(sc, s) = IF exact # {} THEN first ELSE IF legacy # {} THEN last ELSE 0
  BY DEF ScopeFor
<1>3. exact # {} => first \in exact
  <2> HIDE DEF exact
  <2>1. QED
    BY <1>1, Least
<1>4. legacy # {} => last \in legacy
  <2> HIDE DEF legacy
  <2>1. QED
    BY <1>1, FiniteGreatest
<1>5. Visible(sc, s) <=> exact # {} \/ legacy # {}
  BY <1>1 DEF Visible
<1> HIDE DEF first, last
<1>6. CASE exact # {}
  BY <1>1, <1>2, <1>3, <1>5, <1>6
<1>7. CASE exact = {} /\ legacy # {}
  BY <1>1, <1>2, <1>4, <1>5, <1>7
<1>8. CASE exact = {} /\ legacy = {}
  BY <1>1, <1>2, <1>5, <1>8
<1>9. QED
  BY <1>6, <1>7, <1>8

\* The first layer that can answer is one of those that can.
LEMMA FirstLayerFirst ==
    ASSUME NEW able \in SUBSET Layers
    PROVE  /\ FirstLayer(able) = 0 <=> able = {}
           /\ able # {} => FirstLayer(able) \in able
<1>1. able \in SUBSET Nat /\ 0 \notin Layers
  BY PushAssumption DEF Layers
<1>2. able # {} => FirstLayer(able) \in able
  BY <1>1, Least DEF FirstLayer
<1>3. QED
  BY <1>1, <1>2 DEF FirstLayer

\* A layer reads content or nothing.
LEMMA ReadTyped ==
    ASSUME Stored, NEW l \in Layers, NEW p \in Paths
    PROVE  /\ Read(l, p) \in Hashes \cup {NoFile}
           /\ file[l][p] # NoFile => p \in Reaches[l] /\ Read(l, p) = file[l][p]
           /\ Read(l, p) # NoFile => p \in Reaches[l]
<1>1. Backup(l, p) \in Hashes \cup {NoFile}
  BY DEF Backup
<1>2. file[l][p] \in Hashes \cup {NoFile} /\ (file[l][p] # NoFile => p \in Reaches[l])
  BY DEF Stored, Folders
<1>3. QED
  BY <1>1, <1>2 DEF Read

\* layeredStore.Load: the content of the first layer that can read the path.
LEMMA LoadFinds ==
    ASSUME Stored, NEW p \in Paths
    PROVE  /\ Load(p) \in Hashes \cup {NoFile}
           /\ Load(p) # NoFile <=> \E l \in Layers : Read(l, p) # NoFile
           /\ Load(p) # NoFile <=> Loads(p) # 0
           /\ Loads(p) # 0 => Loads(p) \in Layers /\ Read(Loads(p), p) = Load(p)
           /\ Loads(p) \in Nat
<1> DEFINE able == {l \in Layers : Read(l, p) # NoFile}
<1>1. /\ Loads(p) = 0 <=> able = {}
      /\ able # {} => Loads(p) \in able
  BY FirstLayerFirst DEF Loads
<1>2. Layers \subseteq Nat \ {0}
  BY PushAssumption DEF Layers
<1>3. CASE able = {}
  BY <1>1, <1>3 DEF Load
<1>4. CASE able # {}
  BY <1>1, <1>2, <1>4, ReadTyped DEF Load
<1>5. QED
  BY <1>3, <1>4

\* AssociationStore: the id a layer has for content is one recorded there and visible from the container.
LEMMA HeldGives ==
    ASSUME Stored, NEW l \in Layers, NEW s \in Scopes, NEW h \in Hashes
    PROVE  /\ Held(l, s, h) \in Ids \cup {0}
           /\ Held(l, s, h) # 0 <=> Visible(ids[IndexOf[l]][h], s)
           /\ LET k == Held(l, s, h)
                  sc == ids[IndexOf[l]][h]
              IN  k # 0 => sc[k] # NoScope /\ (s = Unscoped \/ sc[k] \in {s, Unscoped})
<1>1. IndexOf[l] \in IndexIds
  BY DEF IndexIds
<1>2. ids[IndexOf[l]][h] \in [Ids -> Scopes \cup {NoScope}]
  BY <1>1 DEF Stored
<1>3. QED
  BY <1>2, ScopeForGives DEF Held

\* layeredStore.Lookup: an id some layer records for the content it holds at the path.
LEMMA LookupGives ==
    ASSUME Stored, NEW s \in Scopes, NEW p \in Paths
    PROVE  /\ Lookup(s, p) \in Ids \cup {0}
           /\ Lookup(s, p) # 0 <=>
                \E l \in Layers : Read(l, p) # NoFile /\ Visible(ids[IndexOf[l]][Read(l, p)], s)
           /\ Lookup(s, p) # 0 =>
                \E i \in IndexIds, h \in Hashes :
                  LET k == Lookup(s, p)
                  IN  ids[i][h][k] # NoScope /\ (s = Unscoped \/ ids[i][h][k] \in {s, Unscoped})
<1> DEFINE able == {l \in Layers : LayerLookup(l, s, p) # 0}
           l == FirstLayer(able)
<1>1. /\ l = 0 <=> able = {}
      /\ able # {} => l \in able
  BY FirstLayerFirst
<1>2. Lookup(s, p) = IF l = 0 THEN 0 ELSE LayerLookup(l, s, p)
  BY DEF Lookup, Knows
<1>3. ASSUME NEW m \in Layers
      PROVE  /\ LayerLookup(m, s, p) \in Ids \cup {0}
             /\ LayerLookup(m, s, p) # 0 <=>
                  Read(m, p) # NoFile /\ Visible(ids[IndexOf[m]][Read(m, p)], s)
             /\ LayerLookup(m, s, p) # 0 =>
                  \E i \in IndexIds, h \in Hashes :
                    LET k == LayerLookup(m, s, p)
                    IN  ids[i][h][k] # NoScope /\ (s = Unscoped \/ ids[i][h][k] \in {s, Unscoped})
  <2>1. CASE Read(m, p) = NoFile
    BY <2>1 DEF LayerLookup
  <2>2. CASE Read(m, p) # NoFile
    <3>1. Read(m, p) \in Hashes /\ LayerLookup(m, s, p) = Held(m, s, Read(m, p))
      BY <2>2, ReadTyped DEF LayerLookup
    <3>2. IndexOf[m] \in IndexIds
      BY DEF IndexIds
    <3>3. QED
      BY <2>2, <3>1, <3>2, HeldGives
  <2>3. QED
    BY <2>1, <2>2
<1>4. 0 \notin Layers
  BY PushAssumption DEF Layers
<1> HIDE DEF l
<1>5. CASE able = {}
  BY <1>1, <1>2, <1>3, <1>5
<1>6. CASE able # {}
  <2>1. l \in Layers /\ Lookup(s, p) = LayerLookup(l, s, p) /\ Lookup(s, p) # 0
    BY <1>1, <1>2, <1>4, <1>6
  <2>2. QED
    BY <1>3, <2>1
<1>7. QED
  BY <1>5, <1>6

\* The same of the state after a step.
LEMMA LookupKnows ==
    Stored => \A s \in Scopes, p \in Paths :
      Lookup(s, p) # 0 <=>
        \E l \in Layers : Read(l, p) # NoFile /\ Visible(ids[IndexOf[l]][Read(l, p)], s)
  BY LookupGives

\* The same in the next state.
LEMMA LookupKnowsNext ==
    (Stored => \A s \in Scopes, p \in Paths :
      Lookup(s, p) # 0 <=>
        \E l \in Layers : Read(l, p) # NoFile /\ Visible(ids[IndexOf[l]][Read(l, p)], s))'
  BY LookupKnows, PTL

\* What a read leaves the folders as: as they are, or with files put back.
Restores == file' = file \/ \E asked : file' = Restored(asked)

\* No file is gone or changed.
Lasting ==
    /\ file' \in Folders
    /\ \A l \in Layers : \A p \in Paths \ Reaches[l] : file'[l][p] = NoFile
    /\ \A l \in Layers, p \in Paths : file[l][p] # NoFile => file'[l][p] = file[l][p]

\* Everybody reads what was read before.
SameReads == \A l \in Layers, p \in Paths : Read(l, p)' = Read(l, p)

\* repairFriendly puts back what a read of the path would have answered anyway.
LEMMA RestoresLast ==
    ASSUME Stored, Restores, saved' = saved
    PROVE  Lasting /\ SameReads
<1>1. \A l \in Layers, p \in Paths : Backup(l, p)' = Backup(l, p)
  BY DEF Backup
<1>2. CASE file' = file
  BY <1>1, <1>2 DEF Lasting, SameReads, Stored, Read
<1>3. CASE \E asked : file' = Restored(asked)
  <2>1. PICK asked : file' = Restored(asked)
    BY <1>3
  <2>2. ASSUME NEW l \in Layers, NEW p \in Paths
        PROVE  /\ file'[l][p] = IF <<l, p>> \in asked /\ file[l][p] = NoFile THEN Read(l, p) ELSE file[l][p]
               /\ file'[l][p] \in Hashes \cup {NoFile}
    <3>1. file'[l][p] = IF <<l, p>> \in asked /\ file[l][p] = NoFile THEN Read(l, p) ELSE file[l][p]
      BY <2>1 DEF Restored
    <3>2. Read(l, p) \in Hashes \cup {NoFile} /\ file[l][p] \in Hashes \cup {NoFile}
      BY ReadTyped DEF Stored, Folders
    <3>3. QED
      BY <3>1, <3>2
  <2>3. file' = [l \in Layers |-> [p \in Paths |-> file'[l][p]]]
    BY <2>1 DEF Restored
  <2>4. file' \in Folders
    BY <2>2, <2>3 DEF Folders
  <2>5. \A l \in Layers, p \in Paths : file[l][p] # NoFile => file'[l][p] = file[l][p]
    BY <2>2
  <2>6. ASSUME NEW l \in Layers, NEW p \in Paths
        PROVE  /\ p \notin Reaches[l] => file'[l][p] = NoFile
               /\ Read(l, p)' = Read(l, p)
    <3>1. Read(l, p) = IF p \notin Reaches[l] THEN NoFile ELSE IF file[l][p] # NoFile THEN file[l][p] ELSE Backup(l, p)
      BY DEF Read
    <3>2. Read(l, p)' = IF p \notin Reaches[l] THEN NoFile ELSE IF file'[l][p] # NoFile THEN file'[l][p] ELSE Backup(l, p)'
      BY DEF Read
    <3>3. p \notin Reaches[l] => file[l][p] = NoFile
      BY DEF Stored
    <3>4. Backup(l, p)' = Backup(l, p)
      BY <1>1
    <3>5. file'[l][p] = IF <<l, p>> \in asked /\ file[l][p] = NoFile THEN Read(l, p) ELSE file[l][p]
      BY <2>2
    <3>6. CASE p \notin Reaches[l]
      BY <3>1, <3>2, <3>3, <3>5, <3>6
    <3>7. CASE p \in Reaches[l] /\ file[l][p] = NoFile
      BY <3>1, <3>2, <3>4, <3>5, <3>7
    <3>8. CASE p \in Reaches[l] /\ file[l][p] # NoFile
      BY <3>1, <3>2, <3>5, <3>8
    <3>9. QED
      BY <3>6, <3>7, <3>8
  <2>7. QED
    BY <2>4, <2>5, <2>6 DEF Lasting, SameReads
<1>4. QED
  BY <1>2, <1>3 DEF Restores

\* Load puts the file back in the layer that answers.
LEMMA LoadedHas ==
    ASSUME Stored, NEW p \in Paths, Load(p) # NoFile, file' = Loaded(p)
    PROVE  Restores /\ \E l \in Layers : file'[l][p] # NoFile
<1>1. Loads(p) \in Layers /\ Read(Loads(p), p) = Load(p)
  BY LoadFinds
<1>2. file' = Restored({<<Loads(p), p>>})
  BY DEF Loaded
<1>3. file'[Loads(p)][p] = IF file[Loads(p)][p] = NoFile THEN Read(Loads(p), p) ELSE file[Loads(p)][p]
  BY <1>1, <1>2 DEF Restored
<1>4. QED
  BY <1>1, <1>2, <1>3 DEF Restores

\* A file is made for a record where the folder has none.
LEMMA MadeLasts ==
    ASSUME Stored, NEW l \in Layers, NEW n, NEW h \in Hashes, file' \in {file, Made(l, n, h)}
    PROVE  Lasting
<1>1. CASE file' = file
  BY <1>1 DEF Lasting, Stored
<1>2. CASE file' = Made(l, n, h)
  <2> DEFINE own == [q \in Paths |-> IF q \in Lists[l] /\ NameOf[q] = n /\ file[l][q] = NoFile THEN h ELSE file[l][q]]
  <2>1. file' = [file EXCEPT ![l] = own]
    BY <1>2 DEF Made
  <2>2. file \in Folders /\ \A m \in Layers, q \in Paths : file[m][q] \in Hashes \cup {NoFile}
    BY DEF Stored, Folders
  <2>3. own \in [Paths -> Hashes \cup {NoFile}]
    BY <2>2
  <2>4. \A q \in Paths : own[q] = IF q \in Lists[l] /\ NameOf[q] = n /\ file[l][q] = NoFile THEN h ELSE file[l][q]
    OBVIOUS
  <2> HIDE DEF own
  <2>5. file' \in Folders
    BY <2>1, <2>2, <2>3 DEF Folders
  <2>6. \A m \in Layers : file'[m] = IF m = l THEN own ELSE file[m]
    BY <2>1, <2>2 DEF Folders
  <2>7. Lists[l] \subseteq Reaches[l]
    BY PushAssumption
  <2>8. \A m \in Layers : \A p \in Paths \ Reaches[m] : file'[m][p] = NoFile
    BY <2>4, <2>6, <2>7 DEF Stored
  <2>9. \A m \in Layers, p \in Paths : file[m][p] # NoFile => file'[m][p] = file[m][p]
    BY <2>4, <2>6
  <2>10. QED
    BY <2>5, <2>8, <2>9 DEF Lasting
<1>3. QED
  BY <1>1, <1>2

-----------------------------------------------------------------------------
(* Sequences and the elements they have. *)

\* What the head and the tail of a list hold.
LEMMA HeadAndTail ==
    ASSUME NEW T, NEW s \in Seq(T), s # <<>>
    PROVE  /\ Head(s) \in T /\ Head(s) = s[1] /\ 1 \in DOMAIN s
           /\ Tail(s) \in Seq(T)
           /\ ToSet(s) = {Head(s)} \cup ToSet(Tail(s))
           /\ \A n \in DOMAIN Tail(s) : n + 1 \in DOMAIN s /\ n + 1 # 1 /\ Tail(s)[n] = s[n + 1]
           /\ \A n \in DOMAIN s : n = 1 \/ (n - 1 \in DOMAIN Tail(s) /\ Tail(s)[n - 1] = s[n])
<1>1. /\ Len(s) \in Nat \ {0} /\ DOMAIN s = 1 .. Len(s) /\ DOMAIN Tail(s) = 1 .. Len(s) - 1
      /\ \A n \in 1 .. Len(s) - 1 : Tail(s)[n] = s[n + 1]
      /\ Head(s) = s[1] /\ Tail(s) \in Seq(T)
  OBVIOUS
<1>2. \A n \in DOMAIN Tail(s) : n + 1 \in DOMAIN s /\ n + 1 # 1 /\ Tail(s)[n] = s[n + 1]
  BY <1>1
<1>3. \A n \in DOMAIN s : n = 1 \/ (n - 1 \in DOMAIN Tail(s) /\ Tail(s)[n - 1] = s[n])
  BY <1>1
<1>4. 1 \in DOMAIN s /\ s[1] \in T
  BY <1>1
<1>5. ToSet(s) \subseteq {Head(s)} \cup ToSet(Tail(s))
  BY <1>1, <1>3 DEF ToSet
<1>6. {Head(s)} \cup ToSet(Tail(s)) \subseteq ToSet(s)
  BY <1>1, <1>2, <1>4 DEF ToSet
<1>7. QED
  BY <1>1, <1>2, <1>3, <1>4, <1>5, <1>6

\* What a list holds after an append.
LEMMA AppendLists ==
    ASSUME NEW T, NEW s \in Seq(T), NEW x \in T
    PROVE  /\ Append(s, x) \in Seq(T)
           /\ Len(Append(s, x)) = Len(s) + 1
           /\ DOMAIN Append(s, x) = DOMAIN s \cup {Len(s) + 1}
           /\ Len(s) + 1 \notin DOMAIN s
           /\ Append(s, x)[Len(s) + 1] = x
           /\ \A n \in DOMAIN s : Append(s, x)[n] = s[n]
           /\ ToSet(Append(s, x)) = ToSet(s) \cup {x}
<1>1. /\ Append(s, x) \in Seq(T) /\ Len(s) \in Nat
      /\ Len(Append(s, x)) = Len(s) + 1
      /\ DOMAIN s = 1 .. Len(s) /\ DOMAIN Append(s, x) = 1 .. Len(s) + 1
      /\ Append(s, x)[Len(s) + 1] = x
      /\ \A n \in 1 .. Len(s) : Append(s, x)[n] = s[n]
  OBVIOUS
<1>2. DOMAIN Append(s, x) = DOMAIN s \cup {Len(s) + 1} /\ Len(s) + 1 \notin DOMAIN s
  BY <1>1
<1>3. ToSet(Append(s, x)) \subseteq ToSet(s) \cup {x}
  BY <1>1, <1>2 DEF ToSet
<1>4. ToSet(s) \cup {x} \subseteq ToSet(Append(s, x))
  BY <1>1, <1>2 DEF ToSet
<1>5. QED
  BY <1>1, <1>2, <1>3, <1>4

\* What two lists hold together.
LEMMA ElementsOfConcat ==
    ASSUME NEW T, NEW a \in Seq(T), NEW b \in Seq(T)
    PROVE  a \o b \in Seq(T) /\ ToSet(a \o b) = ToSet(a) \cup ToSet(b)
<1>1. /\ a \o b \in Seq(T)
      /\ Len(a \o b) = Len(a) + Len(b)
      /\ \A i \in 1 .. Len(a) + Len(b) :
           (a \o b)[i] = IF i <= Len(a) THEN a[i] ELSE b[i - Len(a)]
  OBVIOUS
<1>2. /\ Len(a) \in Nat /\ Len(b) \in Nat
      /\ DOMAIN a = 1 .. Len(a) /\ DOMAIN b = 1 .. Len(b)
      /\ DOMAIN (a \o b) = 1 .. Len(a) + Len(b)
  BY <1>1
<1>3. ASSUME NEW i \in 1 .. Len(a)
      PROVE  i \in DOMAIN (a \o b) /\ (a \o b)[i] = a[i]
  BY <1>1, <1>2
<1>4. ASSUME NEW i \in 1 .. Len(b)
      PROVE  i + Len(a) \in DOMAIN (a \o b) /\ (a \o b)[i + Len(a)] = b[i]
  BY <1>1, <1>2
<1>5. ASSUME NEW i \in DOMAIN (a \o b)
      PROVE  (a \o b)[i] \in ToSet(a) \cup ToSet(b)
  <2>1. CASE i <= Len(a)
    BY <1>1, <1>2, <2>1 DEF ToSet
  <2>2. CASE ~ (i <= Len(a))
    <3>1. i - Len(a) \in 1 .. Len(b)
      BY <1>2, <2>2
    <3>2. QED
      BY <1>1, <1>2, <2>2, <3>1 DEF ToSet
  <2>3. QED
    BY <2>1, <2>2
<1>6. ToSet(a \o b) \subseteq ToSet(a) \cup ToSet(b)
  BY <1>5 DEF ToSet
<1>7. ToSet(a) \subseteq ToSet(a \o b)
  BY <1>2, <1>3 DEF ToSet
<1>8. ToSet(b) \subseteq ToSet(a \o b)
  BY <1>2, <1>4 DEF ToSet
<1>9. QED
  BY <1>1, <1>6, <1>7, <1>8

-----------------------------------------------------------------------------
(* Worklists. *)

\* FSStore.Pending: the readable files of a layer's folder that have no id, each once.
LEMMA PendingLists ==
    ASSUME NEW l \in Layers, NEW s
    PROVE  /\ Unsent(l, s) \in SUBSET Paths
           /\ LayerPending(l, s) \in Seq(Paths)
           /\ ToSet(LayerPending(l, s)) = Unsent(l, s)
<1>1. Unsent(l, s) \in SUBSET Paths
  BY PushAssumption DEF Unsent
<1>2. Unsent(l, s) \in SUBSET Nat /\ IsFiniteSet(Unsent(l, s))
  BY <1>1, PushAssumption, FS_Subset
<1>3. LayerPending(l, s) \in Seq(Unsent(l, s)) /\ ToSet(LayerPending(l, s)) = Unsent(l, s)
  BY <1>2, SortedLists DEF LayerPending
<1>4. QED
  BY <1>1, <1>3

\* layeredStore.Pending: another layer's worklist adds the paths that are not there yet.
LEMMA MergeLists ==
    ASSUME NEW l \in Layers, NEW s, NEW acc \in Seq(Paths)
    PROVE  /\ MergedInto(acc, l, s) \in Seq(Paths)
           /\ ToSet(MergedInto(acc, l, s)) = ToSet(acc) \cup Unsent(l, s)
<1> DEFINE new == Unsent(l, s) \ ToSet(acc)
<1>1. new \in SUBSET Paths
  BY PendingLists
<1>2. new \in SUBSET Nat /\ IsFiniteSet(new)
  BY <1>1, PushAssumption, FS_Subset
<1> HIDE DEF new
<1>3. Sorted(new) \in Seq(Paths) /\ ToSet(Sorted(new)) = new
  <2>1. Sorted(new) \in Seq(new) /\ ToSet(Sorted(new)) = new
    BY <1>2, SortedLists
  <2>2. QED
    BY <1>1, <2>1
<1>4. /\ acc \o Sorted(new) \in Seq(Paths)
      /\ ToSet(acc \o Sorted(new)) = ToSet(acc) \cup new
  BY <1>3, ElementsOfConcat
<1>5. QED
  BY <1>4 DEF MergedInto, new

-----------------------------------------------------------------------------
(* Documents. *)

\* The nodes whose file the scan of a document finds.
Scanned(doc) == {j \in DOMAIN doc : NamesFile(doc[j])} \cup ImageDefinitions(doc)

\* collectImages: the destinations of the documents' images that are no URLs.
LEMMA LocalImagesAre ==
    ASSUME NEW docs, NEW p
    PROVE  p \in LocalImages(docs) <=>
             p # Remote /\ \E doc \in docs : \E i \in Scanned(doc) : p = doc[i].dest
<1> DEFINE dests(doc) == {doc[i].dest : i \in Scanned(doc)}
<1>1. LocalImages(docs) = (UNION {dests(doc) : doc \in docs}) \ {Remote}
  BY DEF LocalImages, Scanned
<1>2. p \in UNION {dests(doc) : doc \in docs} <=> \E doc \in docs : p \in dests(doc)
  <2> HIDE DEF dests
  <2>1. QED
    OBVIOUS
<1>3. \A doc : p \in dests(doc) <=> \E i \in Scanned(doc) : p = doc[i].dest
  OBVIOUS
<1> HIDE DEF dests
<1>4. QED
  BY <1>1, <1>2, <1>3

\* collectLocalImages finds paths, and every path the encoder will ask the store about:
\* images, media nodes that spend their path, and the definitions of reference images.
LEMMA ScanCoversEncoder ==
    ASSUME NEW docs \in Seq(Seq(DocNodes))
    PROVE  /\ LocalImages(ToSet(docs) \ {<<>>}) \in SUBSET Paths
           /\ \A n \in DOMAIN docs : /\ LookupKeys(docs[n]) \in SUBSET Paths
                                     /\ LookupKeys(docs[n]) \subseteq LocalImages(ToSet(docs) \ {<<>>})
<1>1. \A n \in DOMAIN docs : docs[n] \in Seq(DocNodes)
  OBVIOUS
<1>2. ASSUME NEW doc \in Seq(DocNodes), NEW i \in DOMAIN doc, doc[i].dest # Remote
      PROVE  doc[i].dest \in Paths
  <2>1. doc[i] \in DocNodes
    OBVIOUS
  <2>2. QED
    BY <1>2, <2>1 DEF DocNodes
<1>3. ASSUME NEW doc \in Seq(DocNodes), NEW i \in ImageDefinitions(doc)
      PROVE  i \in DOMAIN doc
  <2>1. PICK j \in DOMAIN doc : i = FirstDefinition(doc, doc[j].label) /\ i # 0
    BY DEF ImageDefinitions
  <2> DEFINE I == {x \in 1 .. Len(doc) : doc[x].kind = "definition" /\ doc[x].label = doc[j].label}
  <2>2. i = IF I # {} THEN Min(I) ELSE 0
    BY <2>1 DEF FirstDefinition, SelectInSeq
  <2>3. I # {} => Min(I) \in I
    <3>1. I \in SUBSET Nat
      OBVIOUS
    <3> HIDE DEF I
    <3>2. QED
      BY <3>1, Least DEF Min
  <2>4. i \in I
    <3> HIDE DEF I
    <3>1. QED
      BY <2>1, <2>2, <2>3
  <2>5. QED
    BY <2>4
<1>4. LocalImages(ToSet(docs) \ {<<>>}) \in SUBSET Paths
  <2>1. SUFFICES ASSUME NEW p \in LocalImages(ToSet(docs) \ {<<>>})
                 PROVE  p \in Paths
    OBVIOUS
  <2>2. PICK doc \in ToSet(docs) \ {<<>>} : \E i \in Scanned(doc) : p = doc[i].dest /\ p # Remote
    BY LocalImagesAre
  <2>3. doc \in Seq(DocNodes)
    BY <1>1 DEF ToSet
  <2>4. QED
    BY <1>2, <1>3, <2>2, <2>3 DEF Scanned
<1>5. ASSUME NEW n \in DOMAIN docs, NEW p \in LookupKeys(docs[n])
      PROVE  p \in LocalImages(ToSet(docs) \ {<<>>})
  <2> DEFINE doc == docs[n]
  <2>1. PICK i \in DOMAIN doc :
          /\ p = doc[i].dest /\ p # Remote
          /\ \/ doc[i].kind = "image" \/ SpendsPath(doc[i])
             \/ /\ doc[i].kind = "definition"
                /\ \E k \in DOMAIN doc : doc[k].kind = "imageRef" /\ doc[k].label = doc[i].label
                /\ FirstDefinition(doc, doc[i].label) = i
    BY DEF LookupKeys
  <2>2. doc \in ToSet(docs) \ {<<>>} /\ doc \in Seq(DocNodes)
    BY <1>1 DEF ToSet
  <2> HIDE DEF doc
  <2>3. CASE NamesFile(doc[i])
    BY <2>1, <2>2, <2>3, LocalImagesAre DEF Scanned
  <2>4. CASE ~ NamesFile(doc[i])
    <3>1. PICK k \in DOMAIN doc : /\ doc[k].kind = "imageRef"
                                  /\ FirstDefinition(doc, doc[k].label) = i
      BY <2>1, <2>4 DEF NamesFile
    <3>2. i # 0
      BY <2>1, <2>2
    <3>3. i \in ImageDefinitions(doc)
      BY <3>1, <3>2 DEF ImageDefinitions
    <3>4. QED
      BY <2>1, <2>2, <3>3, LocalImagesAre DEF Scanned
  <2>5. QED
    BY <2>3, <2>4
<1>6. QED
  BY <1>4, <1>5

-----------------------------------------------------------------------------
(* Where a pusher stands. *)

Places == {"idle", "hook", "list", "readable", "held", "load", "upload", "route",
           "read", "add", "encode", "done"}

Entries == [path : Paths, hash : Hashes]

Answers == [path : Paths, id : Ids, n : Nat]

Encodings == UNION {[S -> Ids \cup {0}] : S \in SUBSET Paths}

Jobs == [kind : {"none", "sync", "one", "all"}, view : Scopes, docs : Seq(Seq(DocNodes)), hook : Nat,
         todo : Seq(Paths), paths : Seq(Paths), batch : Seq(Entries), results : Seq(Answers),
         at : Nat, read : Hashes \cup {NoFile}, err : BOOLEAN, encoded : Seq(Encodings),
         full : BOOLEAN, since : Nat, there : SUBSET Paths, minted : SUBSET Ids, failed : SUBSET Ids]

Names == [IndexIds -> [Hashes -> Nat]]

Typed ==
    /\ Stored
    /\ name \in Names /\ saved \in Names
    /\ uploaded \in [Ids -> Hashes \cup {NoFile}]
    /\ edits \in 0 .. MaxEdits /\ pushes \in 0 .. MaxPushes
    /\ pc \in [Pushers -> Places]
    /\ job \in [Pushers -> Jobs]

Associating == {"route", "read", "add"}

\* A call that ends has encoded all of its documents, or reports an error and none.
Ended(j) == IF j.err /\ j.kind # "one" THEN j.encoded = <<>> ELSE Len(j.encoded) = Len(j.docs)

\* What the variables of a call are when it stands at l.
Placed(l, j) ==
    /\ l = "idle" <=> j.kind = "none"
    /\ l # "idle" => j.kind \in Kinds
    /\ l \in {"hook", "readable", "held"} => j.kind # "sync"
    /\ l = "list" => j.kind = "sync" /\ j.at \in Layers
    /\ l = "hook" => j.hook >= 1
    /\ l \in {"list", "hook", "readable", "held", "load", "upload"} => ~ j.err
    /\ l \in {"list", "hook", "readable", "held"} => j.batch = <<>>
    /\ l \notin Associating => j.results = <<>>
    /\ l \in {"readable", "held", "load", "upload"} \cup Associating =>
         j.kind = "sync" \/ (j.hook \in DOMAIN Hooks /\ Hooks[j.hook] = "upload")
    /\ l = "held" => j.todo # <<>>
    /\ l \in {"read", "add"} => j.results # <<>> /\ j.at \in Layers
    /\ l = "add" => j.read # NoFile
    /\ l \notin {"encode", "done"} => j.encoded = <<>>
    /\ l = "encode" => Len(j.encoded) <= Len(j.docs) /\ (j.err => j.kind = "one")
    /\ l = "encode" => j.err \/ j.kind = "sync" \/ j.hook > Len(Hooks)
    /\ l = "done" => Ended(j)
    /\ l = "done" => j.err \/ j.kind = "sync" \/ j.hook > Len(Hooks)

Control == \A c \in Pushers : Placed(pc[c], job[c])

-----------------------------------------------------------------------------
(* Steps of one pusher. *)

\* A step of c leaves the other pushers where they are.
LEMMA GotoFrame ==
    ASSUME Typed, NEW c \in Pushers, NEW l \in Places, NEW r \in Jobs, Goto(c, l, r)
    PROVE  /\ pc' \in [Pushers -> Places] /\ job' \in [Pushers -> Jobs]
           /\ pc'[c] = l /\ job'[c] = r
           /\ \A d \in Pushers : d # c => pc'[d] = pc[d] /\ job'[d] = job[d]
  BY DEF Typed, Goto

\* A step that leaves its job fit for the place it goes to keeps the control invariant.
LEMMA GotoKeepsControl ==
    ASSUME Typed, Control, NEW c \in Pushers, NEW l \in Places, NEW r \in Jobs,
           Goto(c, l, r), Placed(l, r)
    PROVE  Control'
<1>1. ASSUME NEW d \in Pushers
      PROVE  Placed(pc'[d], job'[d])
  <2>1. CASE d = c
    BY <2>1, GotoFrame
  <2>2. CASE d # c
    <3>1. pc'[d] = pc[d] /\ job'[d] = job[d] /\ Placed(pc[d], job[d])
      BY <2>2, GotoFrame DEF Control
    <3>2. QED
      BY <3>1
  <2>3. QED
    BY <2>1, <2>2
<1>2. QED
  BY <1>1 DEF Control

\* A step of c into some place it belongs to, and what that place is.
Moves(c) ==
    LET l == pc'[c]
        r == job'[c]
    IN  l \in Places /\ r \in Jobs /\ Goto(c, l, r) /\ Placed(l, r)

\* What moves keeps types and control.
LEMMA MovesKeep ==
    ASSUME Typed, Control, NEW c \in Pushers, Moves(c)
    PROVE  /\ pc' \in [Pushers -> Places] /\ job' \in [Pushers -> Jobs]
           /\ Control'
  BY GotoFrame, GotoKeepsControl DEF Moves

\* A step to a place with a job fit for it moves.
LEMMA GotoMoves ==
    ASSUME Typed, NEW c \in Pushers, NEW l \in Places, NEW r \in Jobs, Goto(c, l, r), Placed(l, r)
    PROVE  Moves(c) /\ pc'[c] = l /\ job'[c] = r
  BY GotoFrame DEF Moves

\* What a call keeps from its start.
Kept(j, r) ==
    /\ r.kind = j.kind /\ r.view = j.view /\ r.docs = j.docs /\ r.since = j.since
    /\ j.there \subseteq r.there

\* What it keeps but for the steps that upload and associate.
Seeks(j, r) ==
    /\ Kept(j, r)
    /\ r.results = j.results /\ r.minted = j.minted /\ r.failed = j.failed /\ r.full = j.full
    /\ j.err => r.err

\* The same of the steps that look for no file.
Quiet(j, r) == Seeks(j, r) /\ r.there = j.there

\* Where uploadPaths and the hooks around it return to.
LEMMA ReturnUploadMoves ==
    ASSUME Typed, NEW c \in Pushers, NEW j \in Jobs,
           j.kind # "none", j.kind \in Kinds, j.encoded = <<>>, j.results = <<>>, ~ j.err => j.batch = <<>>,
           ReturnUpload(c, j)
    PROVE  LET l == pc'[c]
               r == job'[c]
           IN  /\ Moves(c) /\ Quiet(j, r)
               /\ r.err = j.err /\ r.todo = j.todo /\ r.paths = j.paths /\ r.batch = j.batch
               /\ r.encoded = <<>>
               /\ \/ j.err /\ l \in {"encode", "done"}
                  \/ ~ j.err /\ j.kind = "sync" /\ l = "encode"
                  \/ ~ j.err /\ j.kind # "sync" /\ l = "hook" /\ r.hook = j.hook + 1
<1> DEFINE r == [j EXCEPT !.hook = j.hook + 1]
<1>1. r \in Jobs
  <2>1. j.hook + 1 \in Nat
    BY DEF Jobs
  <2>2. QED
    BY <2>1 DEF Jobs
<1>2. /\ Quiet(j, r) /\ r.err = j.err /\ r.todo = j.todo /\ r.paths = j.paths /\ r.batch = j.batch
      /\ r.encoded = j.encoded /\ r.hook = j.hook + 1
  BY DEF Jobs, Quiet, Seeks, Kept
<1>3. j.docs \in Seq(Seq(DocNodes)) /\ Len(j.docs) \in Nat /\ j.err \in BOOLEAN
  BY DEF Jobs
<1> HIDE DEF r
<1>4. CASE j.err
  <2>1. Goto(c, AfterError(c, j), j)
    BY <1>4 DEF ReturnUpload
  <2>2. AfterError(c, j) \in {"encode", "done"} /\ Placed(AfterError(c, j), j)
    BY <1>3, <1>4 DEF AfterError, Places, Placed, Ended, Associating
  <2>3. AfterError(c, j) \in Places
    BY <2>2 DEF Places
  <2>4. Moves(c) /\ pc'[c] = AfterError(c, j) /\ job'[c] = j
    BY <2>1, <2>2, <2>3, GotoMoves
  <2>5. QED
    BY <1>4, <2>2, <2>4 DEF Quiet, Seeks, Kept
<1>5. CASE ~ j.err
  <2> DEFINE l == IF j.kind = "sync" THEN "encode" ELSE "hook"
  <2> j.hook \in Nat
    BY DEF Jobs
  <2>1. Goto(c, l, r)
    BY <1>5 DEF ReturnUpload, r
  <2>2. l \in Places /\ Placed(l, r)
    BY <1>2, <1>3, <1>5 DEF Places, Placed, Associating, Quiet, Seeks, Kept
  <2>3. Moves(c) /\ pc'[c] = l /\ job'[c] = r
    BY <1>1, <2>1, <2>2, GotoMoves
  <2>4. QED
    BY <1>2, <1>5, <2>3 DEF Quiet, Seeks, Kept
<1>6. QED
  BY <1>4, <1>5

\* The job of an idle pusher is empty.
LEMMA BlankEmpty ==
    /\ Blank.kind = "none" /\ ~ Blank.err /\ Blank.batch = <<>> /\ Blank.results = <<>>
    /\ Blank.todo = <<>> /\ Blank.paths = <<>> /\ Blank.encoded = <<>>
    /\ Blank.full /\ Blank.minted = {} /\ Blank.failed = {} /\ Blank.since = 0 /\ Blank.there = {}
  BY DEF Blank

\* The job of an idle pusher fits an idle pusher.
LEMMA BlankTyped == Blank \in Jobs /\ Placed("idle", Blank)
<1>1. Blank \in Jobs
  BY PushAssumption DEF Blank, Jobs
<1>2. Placed("idle", Blank)
  BY DEF Blank, Placed, Associating
<1>3. QED
  BY <1>1, <1>2

\* The initial state has its types.
LEMMA InitTyped == Init => Typed /\ Control
<1> SUFFICES ASSUME Init
             PROVE  Typed /\ Control
  OBVIOUS
<1>1. Stored
  BY DEF Init, Stored, Folders
<1>2. Typed
  <2>1. name \in Names /\ saved \in Names
    BY DEF Init, Names, Unnamed
  <2>2. QED
    BY <1>1, <2>1, BlankTyped, PushAssumption DEF Init, Typed, Places
<1>3. Control
  BY BlankTyped DEF Init, Control
<1>4. QED
  BY <1>2, <1>3

\* A push starts with nothing done: at the first layer for a sync, at the first hook for a conversion.
LEMMA PushMoves ==
    ASSUME Typed, NEW c \in Pushers, Push(c)
    PROVE  /\ Moves(c)
           /\ LET r == job'[c]
              IN  /\ r.minted = {} /\ r.failed = {} /\ r.results = <<>> /\ r.batch = <<>>
                  /\ r.todo = <<>> /\ r.encoded = <<>> /\ r.since = edits /\ r.there = Present(r.kind)
                  /\ \/ pc'[c] = "list" /\ r.at = 1
                     \/ pc'[c] = "hook" /\ r.hook = 1
<1>1. PICK k \in Kinds, v \in Views, docs \in Batches :
        Goto(c, IF k = "sync" THEN "list" ELSE "hook",
             [Blank EXCEPT !.kind = k, !.view = v, !.docs = docs, !.hook = IF k = "sync" THEN 0 ELSE 1,
                           !.at = 1, !.since = edits, !.there = Present(k)])
  BY Zenon DEF Push
<1> DEFINE l == IF k = "sync" THEN "list" ELSE "hook"
           found == Present(k)
           r == [Blank EXCEPT !.kind = k, !.view = v, !.docs = docs, !.hook = IF k = "sync" THEN 0 ELSE 1,
                              !.at = 1, !.since = edits, !.there = found]
<1>2. /\ k \in {"sync", "one", "all"} /\ v \in Scopes /\ docs \in Seq(Seq(DocNodes))
      /\ edits \in Nat /\ 1 \in Layers
  BY PushAssumption, BatchAssumption DEF Typed, Layers
<1>7. found \in SUBSET Paths /\ found = Present(k)
  BY DEF Present
<1> HIDE DEF found
<1>3. /\ r \in Jobs
      /\ r.kind = k /\ r.at = 1 /\ ~ r.err /\ r.batch = <<>> /\ r.results = <<>>
      /\ r.encoded = <<>> /\ r.minted = {} /\ r.failed = {} /\ r.todo = <<>> /\ r.since = edits
      /\ r.hook = IF k = "sync" THEN 0 ELSE 1
      /\ r.there = found
  <2>1. 1 \in Nat /\ (IF k = "sync" THEN 0 ELSE 1) \in Nat
    OBVIOUS
  <2>2. r \in Jobs
    BY <1>2, <1>7, <2>1, BlankTyped DEF Jobs
  <2>3. r.kind = k /\ r.at = 1 /\ r.since = edits /\ r.there = found /\ r.hook = IF k = "sync" THEN 0 ELSE 1
    BY <2>2, BlankTyped DEF Jobs
  <2>4. /\ r.err = Blank.err /\ r.batch = Blank.batch /\ r.results = Blank.results
        /\ r.encoded = Blank.encoded /\ r.minted = Blank.minted /\ r.failed = Blank.failed
        /\ r.todo = Blank.todo
    BY <2>2, BlankTyped DEF Jobs
  <2>5. QED
    BY <2>2, <2>3, <2>4, BlankEmpty
<1>4. l \in Places /\ Placed(l, r)
  <2> HIDE DEF r
  <2>1. QED
    BY <1>2, <1>3 DEF Places, Placed, Associating
<1>5. Moves(c) /\ pc'[c] = l /\ job'[c] = r
  <2> HIDE DEF r, l
  <2>1. Goto(c, l, r)
    BY <1>1 DEF r, l, found
  <2>2. QED
    BY <1>3, <1>4, <2>1, GotoMoves
<1>6. QED
  <2> HIDE DEF r
  <2>1. QED
    BY <1>3, <1>5, <1>7

\* The types of a call's variables.
LEMMA JobTyped ==
    ASSUME Typed, NEW c \in Pushers
    PROVE  LET j == job[c]
           IN  /\ j \in Jobs /\ j.view \in Scopes /\ j.docs \in Seq(Seq(DocNodes)) /\ j.hook \in Nat
               /\ j.todo \in Seq(Paths) /\ j.paths \in Seq(Paths) /\ j.batch \in Seq(Entries)
               /\ j.results \in Seq(Answers) /\ j.at \in Nat /\ j.err \in BOOLEAN
               /\ j.encoded \in Seq(Encodings) /\ j.full \in BOOLEAN /\ j.since \in Nat
               /\ j.minted \in SUBSET Ids /\ j.failed \in SUBSET Ids /\ j.there \in SUBSET Paths
               /\ j.read \in Hashes \cup {NoFile}
               /\ j.kind \in {"none", "sync", "one", "all"}
<1>1. job[c] \in Jobs
  BY DEF Typed
<1>2. QED
  BY <1>1 DEF Jobs

\* Sync lists one layer after the other.
LEMMA ListLayerMoves ==
    ASSUME Typed, Control, NEW c \in Pushers, ListLayer(c)
    PROVE  LET j == job[c]
               l == pc'[c]
               r == job'[c]
               all == ToSet(j.todo) \cup Unsent(j.at, j.view)
           IN  /\ Moves(c) /\ Quiet(j, r) /\ pc[c] = "list" /\ r.batch = <<>> /\ r.encoded = <<>>
               /\ j.at \in Layers
               /\ \/ l = "list" /\ r.at = j.at + 1 /\ ToSet(r.todo) = all
                  \/ l = "load" /\ j.at = NLayers /\ ToSet(r.todo) = all
                  \/ l = "encode" /\ ~ r.err /\ j.at = NLayers /\ all = {}
                  \/ l = "done" /\ r.err
<1> DEFINE j == job[c]
           all == MergedInto(j.todo, j.at, Scope(c))
<1>1. /\ pc[c] = "list" /\ j.kind = "sync" /\ j.kind \in Kinds /\ j.at \in Layers /\ ~ j.err /\ j.batch = <<>>
      /\ j.results = <<>> /\ j.encoded = <<>> /\ j \in Jobs /\ j.at \in Nat /\ Scope(c) = j.view
  BY JobTyped DEF ListLayer, Control, Placed, Associating, Scope
<1>2. all \in Seq(Paths) /\ ToSet(all) = ToSet(j.todo) \cup Unsent(j.at, j.view)
  BY <1>1, JobTyped, MergeLists
<1> HIDE DEF all
<1>3. CASE j.at < NLayers /\ Goto(c, "list", [j EXCEPT !.todo = all, !.at = j.at + 1])
  <2> DEFINE r == [j EXCEPT !.todo = all, !.at = j.at + 1]
  <2>1. j.at + 1 \in Nat /\ j.at + 1 \in Layers
    BY <1>1, <1>3, PushAssumption DEF Layers
  <2>2. r \in Jobs
    BY <1>1, <1>2, <2>1 DEF Jobs
  <2>3. /\ Quiet(j, r) /\ r.todo = all /\ r.at = j.at + 1 /\ r.batch = j.batch /\ r.err = j.err
        /\ r.encoded = j.encoded
    BY <1>1 DEF Jobs, Quiet, Seeks, Kept
  <2> HIDE DEF r
  <2>4. "list" \in Places /\ Placed("list", r)
    BY <1>1, <2>1, <2>3 DEF Places, Placed, Associating, Quiet, Seeks, Kept
  <2>5. Goto(c, "list", r)
    BY <1>3 DEF r
  <2>6. Moves(c) /\ pc'[c] = "list" /\ job'[c] = r
    BY <2>2, <2>4, <2>5, GotoMoves
  <2>7. QED
    BY <1>1, <1>2, <2>3, <2>6
<1>4. CASE j.at = NLayers /\ Goto(c, "load", [j EXCEPT !.todo = all])
  <2> DEFINE r == [j EXCEPT !.todo = all]
  <2>1. r \in Jobs
    BY <1>1, <1>2 DEF Jobs
  <2>2. /\ Quiet(j, r) /\ r.todo = all /\ r.batch = j.batch /\ r.err = j.err
        /\ r.encoded = j.encoded
    BY <1>1 DEF Jobs, Quiet, Seeks, Kept
  <2> HIDE DEF r
  <2>3. "load" \in Places /\ Placed("load", r)
    BY <1>1, <2>2 DEF Places, Placed, Associating, Quiet, Seeks, Kept
  <2>4. Goto(c, "load", r)
    BY <1>4 DEF r
  <2>5. Moves(c) /\ pc'[c] = "load" /\ job'[c] = r
    BY <2>1, <2>3, <2>4, GotoMoves
  <2>6. QED
    BY <1>1, <1>2, <1>4, <2>2, <2>5
<1>5. CASE j.at = NLayers /\ all = <<>> /\ ReturnUpload(c, [j EXCEPT !.todo = all])
  <2> DEFINE r == [j EXCEPT !.todo = all]
  <2>1. r \in Jobs
    BY <1>1, <1>2 DEF Jobs
  <2>2. /\ Quiet(j, r) /\ r.todo = all /\ r.batch = j.batch /\ r.err = j.err
        /\ r.encoded = j.encoded
    BY <1>1 DEF Jobs, Quiet, Seeks, Kept
  <2> HIDE DEF r
  <2>3. ReturnUpload(c, r)
    BY <1>5 DEF r
  <2>4. /\ Moves(c) /\ Quiet(r, job'[c]) /\ pc'[c] = "encode" /\ ~ job'[c].err
        /\ job'[c].batch = <<>> /\ job'[c].encoded = <<>>
    BY <1>1, <2>1, <2>2, <2>3, ReturnUploadMoves DEF Quiet, Seeks, Kept
  <2>5. ToSet(all) = {}
    BY <1>5 DEF ToSet
  <2>6. QED
    BY <1>1, <1>2, <1>5, <2>2, <2>4, <2>5 DEF Quiet, Seeks, Kept
<1>6. CASE Goto(c, "done", [j EXCEPT !.err = TRUE])
  <2> DEFINE r == [j EXCEPT !.err = TRUE]
  <2>1. r \in Jobs
    BY <1>1 DEF Jobs
  <2>2. Quiet(j, r) /\ r.batch = j.batch /\ r.err = TRUE /\ r.encoded = j.encoded
    BY <1>1 DEF Jobs, Quiet, Seeks, Kept
  <2> HIDE DEF r
  <2>3. "done" \in Places /\ Placed("done", r)
    BY <1>1, <2>2 DEF Places, Placed, Associating, Quiet, Seeks, Kept, Ended
  <2>4. Goto(c, "done", r)
    BY <1>6 DEF r
  <2>5. Moves(c) /\ pc'[c] = "done" /\ job'[c] = r
    BY <2>1, <2>3, <2>4, GotoMoves
  <2>6. QED
    BY <1>1, <2>2, <2>5
<1>7. QED
  BY <1>3, <1>4, <1>5, <1>6 DEF ListLayer, all

\* Pipeline.fireHooks runs one hook, or its upload hook scans the documents.
LEMMA RunHookMoves ==
    ASSUME Typed, Control, NEW c \in Pushers, RunHook(c)
    PROVE  LET j == job[c]
               l == pc'[c]
               r == job'[c]
               refs == LocalImages(ToSet(j.docs) \ {<<>>})
           IN  /\ Moves(c) /\ Quiet(j, r) /\ pc[c] = "hook" /\ r.batch = <<>> /\ r.encoded = <<>>
               /\ \/ l = "encode" /\ ~ r.err /\ j.hook > Len(Hooks) /\ r.hook = j.hook
                  \/ l = "hook" /\ r.hook = j.hook + 1 /\ (Hooks[j.hook] = "other" \/ refs = {})
                  \/ l \in {"encode", "done"} /\ r.err
                  \/ l = "readable" /\ r.hook = j.hook /\ ToSet(r.todo) = refs /\ r.paths = <<>>
<1> DEFINE j == job[c]
           refs == LocalImages(ToSet(j.docs) \ {<<>>})
<1>1. /\ pc[c] = "hook" /\ j.kind \notin {"none", "sync"} /\ j.kind \in Kinds /\ j.hook \in Nat /\ j.hook >= 1
      /\ ~ j.err /\ j.err \in BOOLEAN /\ j.batch = <<>>
      /\ j.results = <<>> /\ j.encoded = <<>> /\ j \in Jobs
      /\ Len(j.docs) \in Nat /\ Len(Hooks) \in Nat /\ DOMAIN Hooks = 1 .. Len(Hooks)
  <2>1. /\ pc[c] = "hook" /\ j.kind \notin {"none", "sync"} /\ j.kind \in Kinds /\ j.hook >= 1
        /\ ~ j.err /\ j.batch = <<>> /\ j.results = <<>> /\ j.encoded = <<>>
    BY DEF RunHook, Control, Placed, Associating
  <2>2. j.hook \in Nat /\ j.err \in BOOLEAN /\ j \in Jobs /\ j.docs \in Seq(Seq(DocNodes))
    BY JobTyped
  <2>3. Len(j.docs) \in Nat
    BY <2>2
  <2>4. Len(Hooks) \in Nat /\ DOMAIN Hooks = 1 .. Len(Hooks)
    BY PushAssumption
  <2>5. QED
    BY <2>1, <2>2, <2>3, <2>4
<1>2. refs \in SUBSET Paths
  BY JobTyped, ScanCoversEncoder
<1> HIDE DEF refs
<1> DEFINE next == [j EXCEPT !.hook = j.hook + 1]
<1>3. CASE Goto(c, "hook", next) /\ (Hooks[j.hook] = "other" \/ refs = {})
  <2>1. j.hook + 1 \in Nat /\ j.hook + 1 >= 1
    BY <1>1
  <2>2. next \in Jobs
    BY <1>1, <2>1 DEF Jobs
  <2>3. /\ Quiet(j, next) /\ next.batch = j.batch /\ next.err = j.err
        /\ next.encoded = j.encoded /\ next.hook = j.hook + 1
    BY <1>1 DEF Jobs, Quiet, Seeks, Kept
  <2> HIDE DEF next
  <2>4. "hook" \in Places /\ Placed("hook", next)
    BY <1>1, <2>1, <2>3 DEF Places, Placed, Associating, Quiet, Seeks, Kept
  <2>5. Moves(c) /\ pc'[c] = "hook" /\ job'[c] = next
    BY <1>3, <2>2, <2>4, GotoMoves
  <2>6. QED
    BY <1>1, <1>3, <2>3, <2>5 DEF refs
<1>4. CASE j.hook > Len(Hooks) /\ Goto(c, "encode", j)
  <2>1. "encode" \in Places /\ Placed("encode", j)
    <3>1. Len(<<>>) = 0
      OBVIOUS
    <3>2. QED
      BY <1>1, <1>4, <3>1 DEF Places, Placed, Associating
  <2>2. Moves(c) /\ pc'[c] = "encode" /\ job'[c] = j
    BY <1>1, <1>4, <2>1, GotoMoves
  <2>3. QED
    BY <1>1, <1>4, <2>2 DEF Quiet, Seeks, Kept
<1>5. CASE Goto(c, AfterError(c, j), [j EXCEPT !.err = TRUE])
  <2> DEFINE r == [j EXCEPT !.err = TRUE]
  <2>1. r \in Jobs
    BY <1>1 DEF Jobs
  <2>2. Quiet(j, r) /\ r.batch = j.batch /\ r.err = TRUE /\ r.encoded = j.encoded
    BY <1>1 DEF Jobs, Quiet, Seeks, Kept
  <2> HIDE DEF r
  <2>3. AfterError(c, j) \in {"encode", "done"} /\ Placed(AfterError(c, j), r)
    <3>1. Len(<<>>) = 0
      OBVIOUS
    <3>2. QED
      BY <1>1, <2>2, <3>1 DEF AfterError, Places, Placed, Associating, Quiet, Seeks, Kept, Ended
  <2>4. AfterError(c, j) \in Places
    BY <2>3 DEF Places
  <2>5. Goto(c, AfterError(c, j), r)
    BY <1>5 DEF r
  <2>6. Moves(c) /\ pc'[c] = AfterError(c, j) /\ job'[c] = r
    BY <2>1, <2>3, <2>4, <2>5, GotoMoves
  <2>7. QED
    BY <1>1, <2>2, <2>3, <2>6
<1>6. CASE /\ j.hook <= Len(Hooks) /\ Hooks[j.hook] = "upload"
           /\ Goto(c, "readable", [j EXCEPT !.todo = Sorted(refs), !.paths = <<>>])
  <2> DEFINE list == Sorted(refs)
             r == [j EXCEPT !.todo = list, !.paths = <<>>]
  <2>1. list \in Seq(Paths) /\ ToSet(list) = refs /\ <<>> \in Seq(Paths)
    <3>1. refs \in SUBSET Nat /\ IsFiniteSet(refs)
      BY <1>2, PushAssumption, FS_Subset
    <3>2. list \in Seq(refs) /\ ToSet(list) = refs
      BY <3>1, SortedLists
    <3>3. QED
      BY <1>2, <3>2
  <2> HIDE DEF list
  <2>2. r \in Jobs
    BY <1>1, <2>1 DEF Jobs
  <2>3. /\ Quiet(j, r) /\ r.todo = list /\ r.paths = <<>> /\ r.batch = j.batch /\ r.err = j.err
        /\ r.encoded = j.encoded /\ r.hook = j.hook
    BY <1>1 DEF Jobs, Quiet, Seeks, Kept
  <2>4. Goto(c, "readable", r)
    BY <1>6 DEF list
  <2> HIDE DEF r
  <2>5. j.hook \in DOMAIN Hooks
    BY <1>1, <1>6
  <2>6. "readable" \in Places /\ Placed("readable", r)
    BY <1>1, <1>6, <2>3, <2>5 DEF Places, Placed, Associating, Quiet, Seeks, Kept
  <2>7. Moves(c) /\ pc'[c] = "readable" /\ job'[c] = r
    BY <2>2, <2>4, <2>6, GotoMoves
  <2>8. QED
    BY <1>1, <2>1, <2>3, <2>7 DEF refs
<1>7. QED
  BY <1>3, <1>4, <1>5, <1>6 DEF RunHook, refs

\* PendingRefs takes the next reference, or hands over what it found.
LEMMA CheckReadableMoves ==
    ASSUME Typed, Control, NEW c \in Pushers, CheckReadable(c)
    PROVE  LET j == job[c]
               l == pc'[c]
               r == job'[c]
           IN  /\ Moves(c) /\ Seeks(j, r) /\ pc[c] = "readable" /\ r.batch = <<>> /\ r.encoded = <<>>
               /\ Restores /\ j.kind # "sync"
               /\ \/ /\ l = "readable" /\ Load(Head(j.todo)) = NoFile /\ r.there = j.there
                     /\ r.paths = j.paths /\ ToSet(j.todo) = {Head(j.todo)} \cup ToSet(r.todo)
                  \/ /\ l = "held" /\ Load(Head(j.todo)) # NoFile /\ r.paths = j.paths /\ r.todo = j.todo
                     /\ r.there = j.there \cup {Head(j.todo)} /\ Head(j.todo) \in Paths
                     /\ Head(j.todo) \in ToSet(j.todo)
                     /\ \E m \in Layers : file'[m][Head(j.todo)] # NoFile
                  \/ l = "load" /\ j.todo = <<>> /\ r.todo = j.paths /\ r.there = j.there
                  \/ l = "hook" /\ j.todo = <<>> /\ j.paths = <<>> /\ r.there = j.there
<1> DEFINE j == job[c]
<1>1. /\ pc[c] = "readable" /\ j.kind \notin {"none", "sync"} /\ j.kind \in Kinds /\ ~ j.err /\ j.batch = <<>>
      /\ j.results = <<>> /\ j.encoded = <<>> /\ j \in Jobs
      /\ j.hook \in DOMAIN Hooks /\ Hooks[j.hook] = "upload"
      /\ j.todo \in Seq(Paths) /\ j.paths \in Seq(Paths)
  BY JobTyped DEF CheckReadable, Control, Placed, Associating
<1>2. CASE /\ j.todo # <<>> /\ Load(Head(j.todo)) = NoFile /\ file' = file
           /\ Goto(c, "readable", [j EXCEPT !.todo = Tail(j.todo)])
  <2> DEFINE rest == Tail(j.todo)
             r == [j EXCEPT !.todo = rest]
  <2>1. rest \in Seq(Paths) /\ ToSet(j.todo) = {Head(j.todo)} \cup ToSet(rest)
    BY <1>1, <1>2, HeadAndTail
  <2> HIDE DEF rest
  <2>2. r \in Jobs
    BY <1>1, <2>1 DEF Jobs
  <2>3. /\ Quiet(j, r) /\ r.todo = rest /\ r.paths = j.paths /\ r.batch = j.batch /\ r.err = j.err
        /\ r.encoded = j.encoded /\ r.hook = j.hook
    BY <1>1 DEF Jobs, Quiet, Seeks, Kept
  <2>4. Goto(c, "readable", r)
    BY <1>2 DEF rest
  <2> HIDE DEF r
  <2>5. "readable" \in Places /\ Placed("readable", r)
    BY <1>1, <2>3 DEF Places, Placed, Associating, Quiet, Seeks, Kept
  <2>6. Moves(c) /\ pc'[c] = "readable" /\ job'[c] = r
    BY <2>2, <2>4, <2>5, GotoMoves
  <2>7. QED
    BY <1>1, <1>2, <2>1, <2>3, <2>6 DEF Quiet, Restores
<1>3. CASE /\ j.todo # <<>> /\ Load(Head(j.todo)) # NoFile /\ file' = Loaded(Head(j.todo))
           /\ Goto(c, "held", [j EXCEPT !.there = j.there \cup {Head(j.todo)}])
  <2> DEFINE p == Head(j.todo)
             there == j.there \cup {p}
             r == [j EXCEPT !.there = there]
  <2>1. p \in Paths /\ p \in ToSet(j.todo)
    BY <1>1, <1>3, HeadAndTail
  <2>2. Restores /\ \E m \in Layers : file'[m][p] # NoFile
    BY <1>3, <2>1, LoadedHas DEF Typed
  <2>3. there \in SUBSET Paths /\ j.there \subseteq there
    BY <2>1, JobTyped
  <2>4. Goto(c, "held", r)
    BY <1>3
  <2> HIDE DEF there
  <2>5. r \in Jobs
    BY <1>1, <2>3 DEF Jobs
  <2>6. /\ Seeks(j, r) /\ r.there = there /\ r.todo = j.todo /\ r.paths = j.paths /\ r.batch = j.batch
        /\ r.err = j.err /\ r.encoded = j.encoded /\ r.hook = j.hook
    BY <1>1, <2>3 DEF Jobs, Seeks, Kept
  <2> HIDE DEF r
  <2>7. "held" \in Places /\ Placed("held", r)
    BY <1>1, <1>3, <2>6 DEF Places, Placed, Associating, Seeks, Kept
  <2>8. Moves(c) /\ pc'[c] = "held" /\ job'[c] = r
    BY <2>4, <2>5, <2>7, GotoMoves
  <2> HIDE DEF p
  <2>9. QED
    BY <1>1, <1>3, <2>1, <2>2, <2>6, <2>8 DEF p, there
<1>4. CASE j.todo = <<>> /\ j.paths # <<>> /\ file' = file /\ Goto(c, "load", [j EXCEPT !.todo = j.paths])
  <2> DEFINE r == [j EXCEPT !.todo = j.paths]
  <2>1. r \in Jobs
    BY <1>1 DEF Jobs
  <2>2. /\ Quiet(j, r) /\ r.todo = j.paths /\ r.batch = j.batch /\ r.err = j.err
        /\ r.encoded = j.encoded /\ r.hook = j.hook
    BY <1>1 DEF Jobs, Quiet, Seeks, Kept
  <2>3. Goto(c, "load", r)
    BY <1>4
  <2> HIDE DEF r
  <2>4. "load" \in Places /\ Placed("load", r)
    BY <1>1, <2>2 DEF Places, Placed, Associating, Quiet, Seeks, Kept
  <2>5. Moves(c) /\ pc'[c] = "load" /\ job'[c] = r
    BY <2>1, <2>3, <2>4, GotoMoves
  <2>6. QED
    BY <1>1, <1>4, <2>2, <2>5 DEF Quiet, Restores
<1>5. CASE j.todo = <<>> /\ j.paths = <<>> /\ file' = file /\ ReturnUpload(c, j)
  <2>1. /\ Moves(c) /\ Quiet(j, job'[c]) /\ pc'[c] = "hook"
        /\ job'[c].batch = j.batch /\ job'[c].encoded = <<>>
    BY <1>1, <1>5, ReturnUploadMoves
  <2>2. QED
    BY <1>1, <1>5, <2>1 DEF Quiet, Restores
<1>6. QED
  BY <1>2, <1>3, <1>4, <1>5 DEF CheckReadable

\* PendingRefs keeps a readable reference that has no id.
LEMMA CheckHeldMoves ==
    ASSUME Typed, Control, NEW c \in Pushers, CheckHeld(c)
    PROVE  LET j == job[c]
               r == job'[c]
               p == Head(j.todo)
           IN  /\ Moves(c) /\ Quiet(j, r) /\ pc[c] = "held" /\ pc'[c] = "readable"
               /\ r.batch = <<>> /\ r.encoded = <<>> /\ Restores
               /\ p \in Paths /\ ToSet(j.todo) = {p} \cup ToSet(r.todo)
               /\ ToSet(r.paths) = ToSet(j.paths) \cup (IF Lookup(j.view, p) = 0 THEN {p} ELSE {})
<1> DEFINE j == job[c]
           p == Head(j.todo)
           rest == Tail(j.todo)
           found == IF Lookup(j.view, p) = 0 THEN Append(j.paths, p) ELSE j.paths
           r == [j EXCEPT !.todo = rest, !.paths = found]
<1>1. /\ pc[c] = "held" /\ j.kind \notin {"none", "sync"} /\ j.kind \in Kinds /\ ~ j.err /\ j.batch = <<>>
      /\ j.results = <<>> /\ j.encoded = <<>> /\ j \in Jobs
      /\ j.hook \in DOMAIN Hooks /\ Hooks[j.hook] = "upload"
      /\ j.todo \in Seq(Paths) /\ j.paths \in Seq(Paths) /\ j.todo # <<>>
  BY JobTyped DEF CheckHeld, Control, Placed, Associating
<1>2. p \in Paths /\ rest \in Seq(Paths) /\ ToSet(j.todo) = {p} \cup ToSet(rest)
  BY <1>1, HeadAndTail
<1>3. Goto(c, "readable", r)
  BY DEF CheckHeld, Scope
<1> HIDE DEF p, rest
<1>4. /\ found \in Seq(Paths)
      /\ ToSet(found) = ToSet(j.paths) \cup (IF Lookup(j.view, p) = 0 THEN {p} ELSE {})
  BY <1>1, <1>2, AppendLists
<1> HIDE DEF found
<1>5. r \in Jobs
  BY <1>1, <1>2, <1>4 DEF Jobs
<1>6. /\ Quiet(j, r) /\ r.todo = rest /\ r.paths = found /\ r.batch = j.batch /\ r.err = j.err
      /\ r.encoded = j.encoded /\ r.hook = j.hook
  BY <1>1 DEF Jobs, Quiet, Seeks, Kept
<1> HIDE DEF r
<1>7. "readable" \in Places /\ Placed("readable", r)
  BY <1>1, <1>6 DEF Places, Placed, Associating, Quiet, Seeks, Kept
<1>8. Moves(c) /\ pc'[c] = "readable" /\ job'[c] = r
  BY <1>3, <1>5, <1>7, GotoMoves
<1>9. Restores
  BY DEF CheckHeld, LookedUp, Restores
<1>10. QED
  BY <1>1, <1>2, <1>4, <1>6, <1>8, <1>9 DEF p, rest

\* uploadPaths loads the next path, or hands the batch over.
LEMMA LoadPathMoves ==
    ASSUME Typed, Control, NEW c \in Pushers, LoadPath(c)
    PROVE  LET j == job[c]
               l == pc'[c]
               r == job'[c]
               p == Head(j.todo)
           IN  /\ Moves(c) /\ Quiet(j, r) /\ pc[c] = "load" /\ r.encoded = <<>> /\ Restores
               /\ \/ l = "upload" /\ j.todo = <<>> /\ r.batch = j.batch
                  \/ l \in {"encode", "done"} /\ r.err /\ r.batch = j.batch
                  \/ /\ l = "load" /\ p \in Paths /\ ToSet(j.todo) = {p} \cup ToSet(r.todo)
                     /\ Load(p) \in Hashes
                     /\ \/ Seen(j.batch, p, Load(p)) /\ r.batch = j.batch
                        \/ /\ ~ Seen(j.batch, p, Load(p))
                           /\ r.batch = Append(j.batch, [path |-> p, hash |-> Load(p)])
<1> DEFINE j == job[c]
           p == Head(j.todo)
           h == Load(p)
<1>1. /\ pc[c] = "load" /\ j.kind # "none" /\ j.kind \in Kinds /\ ~ j.err /\ j.results = <<>> /\ j.encoded = <<>>
      /\ j.kind = "sync" \/ (j.hook \in DOMAIN Hooks /\ Hooks[j.hook] = "upload")
  BY DEF LoadPath, Control, Placed, Associating
<1>2. j \in Jobs /\ j.todo \in Seq(Paths) /\ j.batch \in Seq(Entries)
  BY JobTyped
<1>3. CASE j.todo = <<>> /\ file' = file /\ Goto(c, "upload", j)
  <2>1. "upload" \in Places /\ Placed("upload", j)
    BY <1>1, <1>3 DEF Places, Placed, Associating
  <2>2. Moves(c) /\ pc'[c] = "upload" /\ job'[c] = j
    BY <1>2, <1>3, <2>1, GotoMoves
  <2>3. QED
    BY <1>1, <1>3, <2>2 DEF Quiet, Seeks, Kept, Restores
<1>4. CASE file' = file /\ ReturnUpload(c, [j EXCEPT !.err = TRUE])
  <2> DEFINE r == [j EXCEPT !.err = TRUE]
  <2>1. r \in Jobs
    BY <1>2 DEF Jobs
  <2>2. Quiet(j, r) /\ r.batch = j.batch /\ r.err = TRUE /\ r.encoded = j.encoded
    BY <1>2 DEF Jobs, Quiet, Seeks, Kept
  <2>3. ReturnUpload(c, r)
    BY <1>4
  <2> HIDE DEF r
  <2>4. /\ Moves(c) /\ Quiet(r, job'[c]) /\ job'[c].err /\ job'[c].batch = r.batch
        /\ job'[c].encoded = <<>> /\ pc'[c] \in {"encode", "done"}
    BY <1>1, <2>1, <2>2, <2>3, ReturnUploadMoves DEF Quiet, Seeks, Kept
  <2>5. QED
    BY <1>1, <1>4, <2>2, <2>4 DEF Quiet, Seeks, Kept, Restores
<1>5. CASE /\ j.todo # <<>> /\ h # NoFile /\ file' = Loaded(p)
           /\ Goto(c, "load", [j EXCEPT !.todo = Tail(j.todo),
                  !.batch = IF Seen(j.batch, p, h) THEN j.batch
                            ELSE Append(j.batch, [path |-> p, hash |-> h])])
  <2> DEFINE rest == Tail(j.todo)
             entry == [path |-> p, hash |-> h]
             batch == IF Seen(j.batch, p, h) THEN j.batch ELSE Append(j.batch, entry)
             r == [j EXCEPT !.todo = rest, !.batch = batch]
  <2>1. p \in Paths /\ rest \in Seq(Paths) /\ ToSet(j.todo) = {p} \cup ToSet(rest)
    BY <1>2, <1>5, HeadAndTail
  <2>2. h \in Hashes
    BY <1>5, <2>1, LoadFinds DEF Typed
  <2>3. batch \in Seq(Entries)
    <3>1. entry \in Entries
      BY <2>1, <2>2 DEF Entries
    <3>2. QED
      BY <1>2, <3>1
  <2>4. Goto(c, "load", r)
    BY <1>5
  <2> HIDE DEF rest
  <2>5. \/ Seen(j.batch, p, Load(p)) /\ batch = j.batch
        \/ ~ Seen(j.batch, p, Load(p)) /\ batch = Append(j.batch, [path |-> p, hash |-> Load(p)])
    OBVIOUS
  <2> HIDE DEF batch
  <2>6. r \in Jobs
    BY <1>2, <2>1, <2>3 DEF Jobs
  <2>7. /\ Quiet(j, r) /\ r.todo = rest /\ r.batch = batch /\ r.err = j.err
        /\ r.encoded = j.encoded /\ r.hook = j.hook
    BY <1>2 DEF Jobs, Quiet, Seeks, Kept
  <2> HIDE DEF r
  <2>8. "load" \in Places /\ Placed("load", r)
    BY <1>1, <2>7 DEF Places, Placed, Associating, Quiet, Seeks, Kept
  <2>9. Moves(c) /\ pc'[c] = "load" /\ job'[c] = r
    BY <2>4, <2>6, <2>8, GotoMoves
  <2>10. Restores
    BY <1>5 DEF Loaded, Restores
  <2> HIDE DEF p, h
  <2>11. QED
    BY <1>1, <2>1, <2>2, <2>5, <2>7, <2>9, <2>10 DEF p, h
<1>6. QED
  BY <1>3, <1>4, <1>5 DEF LoadPath

\* An association that fails: the others are still tried.
LEMMA FailedResultIs ==
    ASSUME NEW j \in Jobs, j.results # <<>>
    PROVE  LET r == FailedResult(j)
           IN  /\ r \in Jobs /\ Kept(j, r) /\ r.there = j.there
               /\ r.results = Tail(j.results) /\ r.err = TRUE /\ ~ r.full
               /\ r.failed = j.failed \cup {Head(j.results).id} /\ r.minted = j.minted
               /\ r.batch = j.batch /\ r.encoded = j.encoded /\ r.hook = j.hook
<1> DEFINE rest == Tail(j.results)
           failed == j.failed \cup {Head(j.results).id}
           r == [j EXCEPT !.results = rest, !.err = TRUE, !.full = FALSE, !.failed = failed]
<1>1. rest \in Seq(Answers) /\ failed \in SUBSET Ids
  <2>1. j.results \in Seq(Answers) /\ j.failed \in SUBSET Ids
    BY DEF Jobs
  <2>2. rest \in Seq(Answers) /\ Head(j.results) \in Answers
    BY <2>1, HeadAndTail
  <2>3. QED
    BY <2>1, <2>2 DEF Answers
<1>2. FailedResult(j) = r
  BY DEF FailedResult
<1>3. rest = Tail(j.results) /\ failed = j.failed \cup {Head(j.results).id}
  OBVIOUS
<1> HIDE DEF rest, failed
<1>4. r \in Jobs
  BY <1>1 DEF Jobs
<1>5. /\ Kept(j, r) /\ r.there = j.there
      /\ r.results = rest /\ r.err = TRUE /\ r.full = FALSE /\ r.failed = failed
      /\ r.minted = j.minted /\ r.batch = j.batch /\ r.encoded = j.encoded /\ r.hook = j.hook
  BY DEF Jobs, Kept
<1> HIDE DEF r
<1>6. QED
  BY <1>2, <1>3, <1>4, <1>5

\* An association after which the call goes on to the next result.
Skips(j, r) ==
    /\ Kept(j, r) /\ r.there = j.there
    /\ r.results = Tail(j.results) /\ r.minted = j.minted /\ r.batch = j.batch
    /\ r.encoded = <<>>
    /\ \/ r.err /\ ~ r.full /\ r.failed = j.failed \cup {Head(j.results).id}
       \/ r.err = j.err /\ r.full = j.full /\ r.failed = j.failed

\* A failed association leads back to the next result.
LEMMA FailureMoves ==
    ASSUME Typed, Control, NEW c \in Pushers, pc[c] \in Associating, job[c].results # <<>>,
           Goto(c, "route", FailedResult(job[c]))
    PROVE  /\ Moves(c) /\ pc'[c] = "route" /\ Skips(job[c], job'[c]) /\ job'[c].err /\ ~ job'[c].full
           /\ job'[c].failed = job[c].failed \cup {Head(job[c].results).id}
<1> DEFINE j == job[c]
           r == FailedResult(j)
<1>1. /\ j.kind # "none" /\ j.kind \in Kinds /\ j.encoded = <<>>
      /\ j.kind = "sync" \/ (j.hook \in DOMAIN Hooks /\ Hooks[j.hook] = "upload")
  BY DEF Control, Placed, Associating
<1>2. j \in Jobs
  BY JobTyped
<1>3. /\ r \in Jobs /\ Kept(j, r) /\ r.there = j.there
      /\ r.results = Tail(j.results) /\ r.err = TRUE /\ ~ r.full
      /\ r.failed = j.failed \cup {Head(j.results).id} /\ r.minted = j.minted
      /\ r.batch = j.batch /\ r.encoded = j.encoded /\ r.hook = j.hook
  BY <1>2, FailedResultIs
<1>4. Goto(c, "route", r)
  OBVIOUS
<1> HIDE DEF r
<1>5. "route" \in Places /\ Placed("route", r)
  BY <1>1, <1>3 DEF Places, Placed, Associating, Kept
<1>6. Moves(c) /\ pc'[c] = "route" /\ job'[c] = r
  BY <1>3, <1>4, <1>5, GotoMoves
<1>7. QED
  BY <1>1, <1>3, <1>6 DEF Skips

\* Associate, step one: the layer that can load the path.
LEMMA RouteAssociateMoves ==
    ASSUME Typed, Control, NEW c \in Pushers, RouteAssociate(c)
    PROVE  LET j == job[c]
               l == pc'[c]
               r == job'[c]
           IN  /\ Moves(c) /\ Kept(j, r) /\ r.minted = j.minted /\ r.encoded = <<>> /\ pc[c] = "route"
               /\ Restores
               /\ \/ /\ l \in {"encode", "done", "hook"} /\ Quiet(j, r) /\ r.batch = <<>> /\ j.results = <<>>
                     /\ r.err = j.err
                     /\ l = "hook" => r.hook = j.hook + 1
                  \/ l = "route" /\ Skips(j, r) /\ r.err /\ ~ r.full /\ j.results # <<>>
                     /\ r.failed = j.failed \cup {Head(j.results).id}
                  \/ /\ l = "read" /\ Quiet(j, r) /\ r.batch = j.batch /\ j.results # <<>>
                     /\ r.at = Loads(Head(j.results).path) /\ r.at \in Layers /\ r.err = j.err
<1> DEFINE j == job[c]
           p == Head(j.results).path
<1>1. /\ pc[c] = "route" /\ j.kind # "none" /\ j.kind \in Kinds /\ j.encoded = <<>>
      /\ j.kind = "sync" \/ (j.hook \in DOMAIN Hooks /\ Hooks[j.hook] = "upload")
  BY DEF RouteAssociate, Control, Placed, Associating
<1>2. j \in Jobs /\ j.results \in Seq(Answers)
  BY JobTyped
<1>7. Restores
  BY DEF RouteAssociate, Loaded, Restores
<1>3. CASE j.results = <<>> /\ ReturnUpload(c, [j EXCEPT !.batch = <<>>])
  <2> DEFINE r == [j EXCEPT !.batch = <<>>]
  <2>1. r \in Jobs
    <3>1. <<>> \in Seq(Entries)
      OBVIOUS
    <3>2. QED
      BY <1>2, <3>1 DEF Jobs
  <2>2. Quiet(j, r) /\ r.batch = <<>> /\ r.err = j.err /\ r.encoded = j.encoded /\ r.hook = j.hook
    BY <1>2 DEF Jobs, Quiet, Seeks, Kept
  <2>3. ReturnUpload(c, r)
    BY <1>3
  <2> HIDE DEF r
  <2>4. r.kind # "none" /\ r.kind \in Kinds /\ r.encoded = <<>> /\ r.results = <<>>
    BY <1>1, <1>3, <2>2 DEF Quiet, Seeks, Kept
  <2>5. /\ Moves(c) /\ Quiet(r, job'[c]) /\ job'[c].batch = <<>> /\ job'[c].err = j.err
        /\ job'[c].encoded = <<>> /\ pc'[c] \in {"encode", "done", "hook"}
        /\ pc'[c] = "hook" => job'[c].hook = j.hook + 1
    BY <2>1, <2>2, <2>3, <2>4, ReturnUploadMoves
  <2>6. Quiet(j, job'[c])
    BY <2>2, <2>5 DEF Quiet, Seeks, Kept
  <2>7. QED
    BY <1>1, <1>3, <1>7, <2>5, <2>6 DEF Quiet, Seeks
<1>4. CASE j.results # <<>> /\ Goto(c, "route", FailedResult(j))
  <2>1. /\ Moves(c) /\ pc'[c] = "route" /\ Skips(j, job'[c]) /\ job'[c].err /\ ~ job'[c].full
        /\ job'[c].failed = j.failed \cup {Head(j.results).id}
    BY <1>1, <1>4, FailureMoves DEF Associating
  <2>2. QED
    BY <1>1, <1>4, <1>7, <2>1 DEF Skips
<1>5. CASE j.results # <<>> /\ Loads(p) # 0 /\ Goto(c, "read", [j EXCEPT !.at = Loads(p)])
  <2> DEFINE at == Loads(p)
             r == [j EXCEPT !.at = at]
  <2>1. at \in Layers /\ at \in Nat
    <3>1. Head(j.results) \in Answers
      BY <1>2, <1>5, HeadAndTail
    <3>2. p \in Paths
      BY <3>1 DEF Answers
    <3>3. QED
      BY <1>5, <3>2, LoadFinds DEF Typed
  <2>2. Goto(c, "read", r)
    BY <1>5
  <2>3. at = Loads(Head(j.results).path)
    OBVIOUS
  <2> HIDE DEF at
  <2>4. r \in Jobs
    BY <1>2, <2>1 DEF Jobs
  <2>5. /\ Quiet(j, r) /\ r.at = at /\ r.batch = j.batch /\ r.err = j.err
        /\ r.encoded = j.encoded /\ r.hook = j.hook
    BY <1>2 DEF Jobs, Quiet, Seeks, Kept
  <2> HIDE DEF r
  <2>6. "read" \in Places /\ Placed("read", r)
    BY <1>1, <1>5, <2>1, <2>5 DEF Places, Placed, Associating, Quiet, Seeks, Kept
  <2>7. Moves(c) /\ pc'[c] = "read" /\ job'[c] = r
    BY <2>2, <2>4, <2>6, GotoMoves
  <2>8. QED
    BY <1>1, <1>5, <1>7, <2>1, <2>3, <2>5, <2>7 DEF Quiet, Seeks
<1>6. QED
  BY <1>3, <1>4, <1>5 DEF RouteAssociate, PathOf

\* Associate, step two: that layer reads the content.
LEMMA ReadAssociateMoves ==
    ASSUME Typed, Control, NEW c \in Pushers, ReadAssociate(c)
    PROVE  LET j == job[c]
               l == pc'[c]
               r == job'[c]
           IN  /\ Moves(c) /\ Kept(j, r) /\ r.minted = j.minted /\ r.encoded = <<>> /\ pc[c] = "read"
               /\ j.results # <<>> /\ j.at \in Layers /\ Restores
               /\ \/ l = "route" /\ Skips(j, r) /\ r.err /\ ~ r.full
                     /\ r.failed = j.failed \cup {Head(j.results).id}
                  \/ /\ l = "add" /\ Quiet(j, r) /\ r.batch = j.batch /\ r.at = j.at
                     /\ r.err = j.err
                     /\ r.read = Read(j.at, Head(j.results).path) /\ r.read \in Hashes
<1> DEFINE j == job[c]
           h == Read(j.at, Head(j.results).path)
<1>1. /\ pc[c] = "read" /\ j.kind # "none" /\ j.kind \in Kinds /\ j.encoded = <<>> /\ j.results # <<>> /\ j.at \in Layers
      /\ j.kind = "sync" \/ (j.hook \in DOMAIN Hooks /\ Hooks[j.hook] = "upload")
  BY DEF ReadAssociate, Control, Placed, Associating
<1>2. j \in Jobs /\ j.results \in Seq(Answers)
  BY JobTyped
<1>6. Restores
  BY DEF ReadAssociate, Restores
<1>3. CASE Goto(c, "route", FailedResult(j))
  <2>1. /\ Moves(c) /\ pc'[c] = "route" /\ Skips(j, job'[c]) /\ job'[c].err /\ ~ job'[c].full
        /\ job'[c].failed = j.failed \cup {Head(j.results).id}
    BY <1>1, <1>3, FailureMoves DEF Associating
  <2>2. QED
    BY <1>1, <1>6, <2>1 DEF Skips
<1>4. CASE h # NoFile /\ Goto(c, "add", [j EXCEPT !.read = h])
  <2> DEFINE r == [j EXCEPT !.read = h]
  <2>1. h \in Hashes
    <3>1. Head(j.results) \in Answers
      BY <1>1, <1>2, HeadAndTail
    <3>2. Head(j.results).path \in Paths
      BY <3>1 DEF Answers
    <3>3. QED
      BY <1>1, <1>4, <3>2, ReadTyped DEF Typed
  <2>2. Goto(c, "add", r)
    BY <1>4
  <2>3. h = Read(j.at, Head(j.results).path)
    OBVIOUS
  <2> HIDE DEF h
  <2>4. r \in Jobs
    BY <1>2, <2>1 DEF Jobs
  <2>5. /\ Quiet(j, r) /\ r.read = h /\ r.at = j.at /\ r.batch = j.batch /\ r.err = j.err
        /\ r.encoded = j.encoded /\ r.hook = j.hook
    BY <1>2 DEF Jobs, Quiet, Seeks, Kept
  <2> HIDE DEF r
  <2>6. "add" \in Places /\ Placed("add", r)
    BY <1>1, <1>4, <2>5 DEF Places, Placed, Associating, Quiet, Seeks, Kept
  <2>7. Moves(c) /\ pc'[c] = "add" /\ job'[c] = r
    BY <2>2, <2>4, <2>6, GotoMoves
  <2>8. QED
    BY <1>1, <1>6, <2>1, <2>3, <2>5, <2>7 DEF Quiet, Seeks
<1>5. QED
  BY <1>3, <1>4 DEF ReadAssociate, PathOf

\* What an association adds to the ids of an index.
Adds(j) == [ids EXCEPT ![IndexOf[j.at]][j.read][Head(j.results).id] = j.view]

\* Associate, step three: the id is recorded, or the save fails.
LEMMA AddAssociateMoves ==
    ASSUME Typed, Control, NEW c \in Pushers, AddAssociate(c)
    PROVE  LET j == job[c]
               r == job'[c]
           IN  /\ Moves(c) /\ Skips(j, r) /\ pc[c] = "add" /\ pc'[c] = "route"
               /\ j.results # <<>> /\ j.at \in Layers /\ j.read \in Hashes
               /\ Head(j.results) \in Answers
               /\ ids' \in {ids, Adds(j)}
               /\ \/ ids' = Adds(j)
                  \/ r.err /\ ~ r.full /\ r.failed = j.failed \cup {Head(j.results).id}
<1> DEFINE j == job[c]
<1>1. /\ pc[c] = "add" /\ j.kind # "none" /\ j.kind \in Kinds /\ j.encoded = <<>> /\ j.results # <<>> /\ j.at \in Layers
      /\ j.kind = "sync" \/ (j.hook \in DOMAIN Hooks /\ Hooks[j.hook] = "upload")
      /\ j.read # NoFile
  BY DEF AddAssociate, Control, Placed, Associating
<1>2. j \in Jobs /\ j.results \in Seq(Answers) /\ j.read \in Hashes \cup {NoFile}
  BY JobTyped
<1>3. Head(j.results) \in Answers /\ Tail(j.results) \in Seq(Answers)
  BY <1>1, <1>2, HeadAndTail
<1>4. CASE ids' = Adds(j) /\ Goto(c, "route", [j EXCEPT !.results = Tail(j.results)])
  <2> DEFINE rest == Tail(j.results)
             r == [j EXCEPT !.results = rest]
  <2>1. Goto(c, "route", r) /\ rest \in Seq(Answers) /\ rest = Tail(j.results)
    BY <1>3, <1>4
  <2> HIDE DEF rest
  <2>2. r \in Jobs
    BY <1>2, <2>1 DEF Jobs
  <2>3. /\ Kept(j, r) /\ r.there = j.there /\ r.results = rest /\ r.minted = j.minted /\ r.failed = j.failed
        /\ r.full = j.full /\ r.err = j.err /\ r.encoded = j.encoded /\ r.hook = j.hook
        /\ r.batch = j.batch
    BY <1>2 DEF Jobs, Kept
  <2> HIDE DEF r
  <2>4. "route" \in Places /\ Placed("route", r)
    BY <1>1, <2>3 DEF Places, Placed, Associating, Kept
  <2>5. Moves(c) /\ pc'[c] = "route" /\ job'[c] = r
    BY <2>1, <2>2, <2>4, GotoMoves
  <2>6. QED
    BY <1>1, <1>2, <1>3, <1>4, <2>1, <2>3, <2>5 DEF Skips
<1>5. CASE ids' \in {ids, Adds(j)} /\ Goto(c, "route", FailedResult(j))
  <2>1. /\ Moves(c) /\ pc'[c] = "route" /\ Skips(j, job'[c]) /\ job'[c].err /\ ~ job'[c].full
        /\ job'[c].failed = j.failed \cup {Head(j.results).id}
    BY <1>1, <1>5, FailureMoves DEF Associating
  <2>2. QED
    BY <1>1, <1>2, <1>3, <1>5, <2>1
<1>6. Adds(j) = [ids EXCEPT ![OwnerIndex(j.at)][j.read][Head(j.results).id] = Scope(c)]
  BY DEF Adds, OwnerIndex, Scope
<1>7. \/ ids' = Adds(j) /\ Goto(c, "route", [j EXCEPT !.results = Tail(j.results)])
      \/ ids' \in {ids, Adds(j)} /\ Goto(c, "route", FailedResult(j))
  BY <1>6, Zenon DEF AddAssociate
<1>8. QED
  BY <1>4, <1>5, <1>7

\* What an association writes besides: the name of the record, in memory and on disk, and
\* a file that was missing.
LEMMA AddAssociateWrites ==
    ASSUME Typed, NEW c \in Pushers, AddAssociate(c), job[c].at \in Layers, job[c].read \in Hashes,
           Head(job[c].results) \in Answers
    PROVE  Lasting /\ name' \in Names /\ saved' \in Names
<1> DEFINE j == job[c]
           i == IndexOf[j.at]
           p == Head(j.results).path
<1>1. p \in Paths /\ i \in IndexIds
  BY DEF Answers, IndexIds
<1>2. PICK n \in NamesFor(j.at, p, j.read) :
        LET named == [name EXCEPT ![i][j.read] = n]
            made == Made(j.at, n, j.read)
        IN  /\ file' \in {file, made}
            /\ name' \in {name, named}
            /\ saved' \in {saved, [saved EXCEPT ![i] = named[i]]}
  BY Zenon DEF AddAssociate, PathOf, OwnerIndex
<1>3. n \in Nat
  <2>1. NameOf[p] \in Nat /\ Suffixed \in Nat
    BY <1>1, PushAssumption DEF Suffixed
  <2>2. name[i][j.read] \in Nat
    BY <1>1 DEF Typed, Names
  <2>3. n \in {Suffixed, NameOf[p], name[i][j.read]}
    BY <1>2 DEF NamesFor
  <2>4. QED
    BY <2>1, <2>2, <2>3
<1> HIDE DEF p, i
<1>4. Lasting
  <2>1. file' \in {file, Made(j.at, n, j.read)}
    BY <1>2
  <2>2. QED
    BY <2>1, MadeLasts DEF Typed
<1> DEFINE own == [name[i] EXCEPT ![j.read] = n]
           named == [name EXCEPT ![i] = own]
<1>5. name \in Names /\ saved \in Names
  BY DEF Typed
<1>6. [name EXCEPT ![i][j.read] = n] = named
  BY <1>1, <1>5 DEF Names
<1>7. own \in [Hashes -> Nat]
  BY <1>1, <1>3, <1>5 DEF Names
<1>8. named \in Names
  <2> HIDE DEF own
  <2>1. QED
    BY <1>1, <1>5, <1>7 DEF Names
<1>9. name' \in {name, named} /\ saved' \in {saved, [saved EXCEPT ![i] = named[i]]}
  BY <1>2, <1>6
<1> HIDE DEF own, named
<1>10. named[i] \in [Hashes -> Nat]
  BY <1>1, <1>8 DEF Names
<1>11. [saved EXCEPT ![i] = named[i]] \in Names
  BY <1>1, <1>5, <1>10 DEF Names
<1>12. QED
  BY <1>4, <1>5, <1>8, <1>9, <1>11

\* ToADF encodes the next document, or the call ends.
LEMMA EncodeMoves ==
    ASSUME Typed, Control, NEW c \in Pushers, Encode(c)
    PROVE  LET j == job[c]
               l == pc'[c]
               r == job'[c]
               n == Len(j.encoded) + 1
               encoding == [p \in LookupKeys(j.docs[n]) |-> Lookup(j.view, p)]
           IN  /\ Moves(c) /\ Quiet(j, r) /\ pc[c] = "encode" /\ r.batch = j.batch /\ r.err = j.err
               /\ Restores
               /\ \/ l = "done" /\ r.encoded = j.encoded
                  \/ /\ l = "encode" /\ n \in DOMAIN j.docs /\ r.encoded = Append(j.encoded, encoding)
                     /\ encoding \in Encodings
<1> DEFINE j == job[c]
           n == Len(j.encoded) + 1
           encoding == [p \in LookupKeys(j.docs[n]) |-> Lookup(j.view, p)]
<1>1. /\ pc[c] = "encode" /\ j.kind # "none" /\ j.kind \in Kinds /\ j.results = <<>> /\ Len(j.encoded) <= Len(j.docs)
      /\ j.err => j.kind = "one"
      /\ j.err \/ j.kind = "sync" \/ j.hook > Len(Hooks)
  BY DEF Encode, Control, Placed, Associating
<1>2. /\ j \in Jobs /\ j.encoded \in Seq(Encodings) /\ j.docs \in Seq(Seq(DocNodes))
      /\ j.view \in Scopes
  BY JobTyped
<1>3. Len(j.encoded) \in Nat /\ Len(j.docs) \in Nat /\ DOMAIN j.docs = 1 .. Len(j.docs)
  BY <1>2
<1>7. Restores
  BY DEF Encode, LookedUp, Restores
<1>4. CASE n > Len(j.docs) /\ Goto(c, "done", j)
  <2>1. Len(j.encoded) = Len(j.docs)
    BY <1>1, <1>3, <1>4
  <2>2. "done" \in Places /\ Placed("done", j)
    BY <1>1, <2>1 DEF Places, Placed, Associating, Ended
  <2>3. Moves(c) /\ pc'[c] = "done" /\ job'[c] = j
    BY <1>2, <1>4, <2>2, GotoMoves
  <2>4. QED
    BY <1>1, <1>7, <2>3 DEF Quiet, Seeks, Kept
<1>5. CASE n <= Len(j.docs) /\ Goto(c, "encode", [j EXCEPT !.encoded = Append(j.encoded, encoding)])
  <2>1. n \in DOMAIN j.docs /\ n <= Len(j.docs)
    BY <1>3, <1>5
  <2>2. encoding \in Encodings
    <3>1. LookupKeys(j.docs[n]) \in SUBSET Paths
      BY <1>2, <2>1, ScanCoversEncoder
    <3>2. \A p \in LookupKeys(j.docs[n]) : Lookup(j.view, p) \in Ids \cup {0}
      BY <1>2, <3>1, LookupGives DEF Typed
    <3>3. encoding \in [LookupKeys(j.docs[n]) -> Ids \cup {0}]
      BY <3>2
    <3> HIDE DEF encoding
    <3>4. QED
      BY <3>1, <3>3 DEF Encodings
  <2> DEFINE all == Append(j.encoded, encoding)
             r == [j EXCEPT !.encoded = all]
  <2>3. Goto(c, "encode", r) /\ all = Append(j.encoded, encoding)
    BY <1>5
  <2>4. all \in Seq(Encodings) /\ Len(all) = n
    <3> HIDE DEF encoding
    <3>1. QED
      BY <1>2, <2>2
  <2> HIDE DEF all
  <2>5. r \in Jobs
    BY <1>2, <2>4 DEF Jobs
  <2>6. /\ Quiet(j, r) /\ r.encoded = all /\ r.batch = j.batch /\ r.err = j.err /\ r.hook = j.hook
    BY <1>2 DEF Jobs, Quiet, Seeks, Kept
  <2> HIDE DEF r
  <2>7. "encode" \in Places /\ Placed("encode", r)
    BY <1>1, <2>1, <2>4, <2>6 DEF Places, Placed, Associating, Quiet, Seeks, Kept
  <2>8. Moves(c) /\ pc'[c] = "encode" /\ job'[c] = r
    BY <2>3, <2>5, <2>7, GotoMoves
  <2>9. QED
    <3> HIDE DEF encoding, n
    <3>1. QED
      BY <1>1, <1>7, <2>1, <2>2, <2>3, <2>6, <2>8 DEF encoding, n
<1>6. QED
  BY <1>4, <1>5 DEF Encode, Scope

\* The answers of the product: what was taken of the batch has an id each.
Answer(j, r, taken) ==
    /\ \A i \in DOMAIN r.results :
         /\ taken[i] \in DOMAIN j.batch
         /\ r.results[i].path = j.batch[taken[i]].path
         /\ r.results[i].id \in r.minted
         /\ uploaded[r.results[i].id] = NoFile
         /\ uploaded'[r.results[i].id] = j.batch[taken[i]].hash
    /\ \A i, n \in DOMAIN r.results : i # n => taken[i] # taken[n]
    /\ \A k \in r.minted \ j.minted : \E i \in DOMAIN r.results : r.results[i].id = k
    /\ r.full => \A n \in DOMAIN j.batch : \E i \in DOMAIN r.results : taken[i] = n

\* Uploader.Upload answers for some of the batch with ids nobody has.
LEMMA UploadMoves ==
    ASSUME Typed, Control, NEW c \in Pushers, Upload(c)
    PROVE  LET j == job[c]
               r == job'[c]
           IN  /\ Moves(c) /\ Kept(j, r) /\ r.there = j.there /\ pc[c] = "upload" /\ pc'[c] = "route"
               /\ r.encoded = <<>> /\ r.batch = j.batch /\ r.failed = j.failed
               /\ ~ j.err
               /\ r.full => j.full /\ ~ r.err
               /\ uploaded' \in [Ids -> Hashes \cup {NoFile}]
               /\ j.minted \subseteq r.minted
               /\ \A k \in Ids : uploaded[k] # NoFile => uploaded'[k] = uploaded[k]
               /\ \A k \in r.minted \ j.minted : uploaded[k] = NoFile /\ uploaded'[k] # NoFile
               /\ \E taken : Answer(j, r, taken)
<1> DEFINE j == job[c]
           fresh == {k \in Ids : uploaded[k] = NoFile}
           minted == Sorted(fresh)
<1>1. /\ pc[c] = "upload" /\ j.kind # "none" /\ j.kind \in Kinds /\ ~ j.err /\ j.encoded = <<>>
      /\ j.kind = "sync" \/ (j.hook \in DOMAIN Hooks /\ Hooks[j.hook] = "upload")
  BY DEF Upload, Control, Placed, Associating
<1>2. /\ j \in Jobs /\ j.batch \in Seq(Entries) /\ j.minted \in SUBSET Ids /\ j.full \in BOOLEAN
  BY JobTyped
<1>3. PICK some \in SUBSET DOMAIN j.batch, err \in {"upload" \in Faults, FALSE} :
        LET taken == Sorted(some)
        IN  /\ Len(taken) <= Len(minted)
            /\ uploaded' = [k \in Ids |->
                   IF \E i \in DOMAIN taken : minted[i] = k
                   THEN j.batch[taken[CHOOSE i \in DOMAIN taken : minted[i] = k]].hash
                   ELSE uploaded[k]]
            /\ Goto(c, "route", [j EXCEPT !.err = err, !.at = 0,
                   !.full = j.full /\ some = DOMAIN j.batch /\ ~err,
                   !.minted = j.minted \cup {minted[i] : i \in DOMAIN taken},
                   !.results = [i \in DOMAIN taken |-> [path |-> j.batch[taken[i]].path,
                                                        id |-> minted[i], n |-> i]]])
  BY Zenon DEF Upload
<1>0. err \in BOOLEAN
  <2>1. err = ("upload" \in Faults) \/ err = FALSE
    BY <1>3, Zenon
  <2>2. ("upload" \in Faults) \in BOOLEAN
    OBVIOUS
  <2>3. CASE err = ("upload" \in Faults)
    BY <2>2, <2>3, Zenon
  <2>4. CASE err = FALSE
    BY <2>4
  <2>5. QED
    BY <2>1, <2>3, <2>4
<1> DEFINE taken == Sorted(some)
<1>4. /\ minted \in Seq(fresh) /\ fresh \in SUBSET Ids
      /\ \A i, n \in DOMAIN minted : i # n => minted[i] # minted[n]
  <2>1. fresh \in SUBSET Nat /\ IsFiniteSet(fresh) /\ fresh \in SUBSET Ids
    BY PushAssumption, FS_Subset
  <2> HIDE DEF fresh
  <2>2. QED
    BY <2>1, SortedLists
<1>5. /\ taken \in Seq(some) /\ ToSet(taken) = some
      /\ \A i, n \in DOMAIN taken : i # n => taken[i] # taken[n]
  <2>1. DOMAIN j.batch = 1 .. Len(j.batch) /\ Len(j.batch) \in Nat
    BY <1>2
  <2>2. IsFiniteSet(1 .. Len(j.batch))
    BY <2>1, FS_Interval
  <2>3. some \in SUBSET Nat /\ IsFiniteSet(some)
    BY <2>1, <2>2, FS_Subset
  <2>4. QED
    BY <2>3, SortedLists
<1> HIDE DEF minted, taken
<1>6. /\ DOMAIN taken = 1 .. Len(taken) /\ Len(taken) \in Nat
      /\ DOMAIN minted = 1 .. Len(minted) /\ Len(minted) \in Nat
      /\ Len(taken) <= Len(minted)
  BY <1>3, <1>4, <1>5 DEF taken
<1>7. ASSUME NEW i \in DOMAIN taken
      PROVE  /\ i \in DOMAIN minted /\ minted[i] \in fresh /\ taken[i] \in DOMAIN j.batch
             /\ i \in Nat /\ taken[i] \in some
  BY <1>4, <1>5, <1>6
<1> DEFINE ids_ == {minted[i] : i \in DOMAIN taken}
           new == j.minted \cup ids_
           full == j.full /\ some = DOMAIN j.batch /\ ~err
           results == [i \in DOMAIN taken |-> [path |-> j.batch[taken[i]].path,
                                               id |-> minted[i], n |-> i]]
           r == [j EXCEPT !.err = err, !.at = 0, !.full = full, !.minted = new, !.results = results]
<1>8. Goto(c, "route", r)
  BY <1>3 DEF taken
<1>9. results \in Seq(Answers)
  <2>1. ASSUME NEW i \in DOMAIN taken
        PROVE  [path |-> j.batch[taken[i]].path, id |-> minted[i], n |-> i] \in Answers
    <3>1. j.batch[taken[i]] \in Entries
      BY <1>2, <1>7
    <3>2. j.batch[taken[i]].path \in Paths /\ minted[i] \in Ids /\ i \in Nat
      BY <1>4, <1>7, <3>1 DEF Entries
    <3>3. QED
      BY <3>2 DEF Answers
  <2>2. QED
    BY <1>6, <2>1
<1>10. new \in SUBSET Ids /\ full \in BOOLEAN
  BY <1>0, <1>2, <1>4, <1>7
<1>11. \A i \in DOMAIN taken : minted[i] \in ids_
  OBVIOUS
<1>12. DOMAIN results = DOMAIN taken
  OBVIOUS
<1>13. \A i \in DOMAIN taken : results[i].path = j.batch[taken[i]].path /\ results[i].id = minted[i]
  OBVIOUS
<1>14. \A k \in ids_ : \E i \in DOMAIN taken : minted[i] = k
  OBVIOUS
<1>15. \A k \in ids_ : k \in fresh
  BY <1>7
<1>16. new = j.minted \cup ids_
  OBVIOUS
<1>17. full => j.full /\ some = DOMAIN j.batch /\ ~ err
  OBVIOUS
<1> HIDE DEF results, new, full, ids_
<1>18. r \in Jobs
  BY <1>0, <1>2, <1>9, <1>10 DEF Jobs
<1>19. /\ Kept(j, r) /\ r.there = j.there /\ r.err = err /\ r.full = full /\ r.minted = new /\ r.results = results
       /\ r.batch = j.batch /\ r.encoded = j.encoded /\ r.hook = j.hook /\ r.failed = j.failed
  BY <1>2 DEF Jobs, Kept
<1> HIDE DEF r
<1>20. "route" \in Places /\ Placed("route", r)
  BY <1>1, <1>19 DEF Places, Placed, Associating, Kept
<1>21. Moves(c) /\ pc'[c] = "route" /\ job'[c] = r
  BY <1>8, <1>18, <1>20, GotoMoves
<1>22. ASSUME NEW k \in Ids
       PROVE  uploaded'[k] = IF \E i \in DOMAIN taken : minted[i] = k
                             THEN j.batch[taken[CHOOSE i \in DOMAIN taken : minted[i] = k]].hash
                             ELSE uploaded[k]
  BY <1>3 DEF taken
<1>23. ASSUME NEW i \in DOMAIN taken
       PROVE  uploaded'[minted[i]] = j.batch[taken[i]].hash
  <2> DEFINE m == CHOOSE x \in DOMAIN taken : minted[x] = minted[i]
  <2>1. m \in DOMAIN taken /\ minted[m] = minted[i]
    OBVIOUS
  <2> HIDE DEF m
  <2>2. m = i
    BY <1>4, <1>7, <2>1
  <2>3. minted[i] \in Ids
    BY <1>4, <1>7
  <2>4. uploaded'[minted[i]] = j.batch[taken[m]].hash
    BY <1>22, <2>3 DEF m
  <2>5. QED
    BY <2>2, <2>4
<1>24. \A k \in Ids : k \notin ids_ => uploaded'[k] = uploaded[k]
  BY <1>11, <1>22
<1>25. \A k \in ids_ : uploaded[k] = NoFile /\ uploaded'[k] \in Hashes
  <2>1. ASSUME NEW i \in DOMAIN taken
        PROVE  uploaded'[minted[i]] \in Hashes
    <3>1. j.batch[taken[i]] \in Entries
      BY <1>2, <1>7
    <3>2. QED
      BY <1>23, <3>1 DEF Entries
  <2>2. QED
    BY <1>14, <1>15, <2>1
<1>26. uploaded' \in [Ids -> Hashes \cup {NoFile}]
  <2>1. uploaded \in [Ids -> Hashes \cup {NoFile}] /\ DOMAIN uploaded' = Ids
    BY <1>3 DEF Typed
  <2>2. \A k \in Ids : uploaded'[k] \in Hashes \cup {NoFile}
    BY <1>24, <1>25, <2>1
  <2>3. uploaded' = [k \in Ids |-> uploaded'[k]]
    BY <1>3
  <2>4. QED
    BY <2>2, <2>3
<1>27. Answer(j, r, taken)
  <2>1. \A i \in DOMAIN r.results :
          /\ taken[i] \in DOMAIN j.batch
          /\ r.results[i].path = j.batch[taken[i]].path
          /\ r.results[i].id \in r.minted
          /\ uploaded[r.results[i].id] = NoFile
          /\ uploaded'[r.results[i].id] = j.batch[taken[i]].hash
    BY <1>7, <1>11, <1>12, <1>13, <1>16, <1>19, <1>23, <1>25
  <2>2. \A i, n \in DOMAIN r.results : i # n => taken[i] # taken[n]
    BY <1>5, <1>12, <1>19
  <2>3. \A k \in r.minted \ j.minted : \E i \in DOMAIN r.results : r.results[i].id = k
    BY <1>12, <1>13, <1>14, <1>16, <1>19
  <2>4. ASSUME r.full, NEW n \in DOMAIN j.batch
        PROVE  \E i \in DOMAIN r.results : taken[i] = n
    <3>1. n \in ToSet(taken)
      BY <1>5, <1>17, <1>19, <2>4
    <3>2. QED
      BY <1>12, <1>19, <3>1 DEF ToSet
  <2>5. QED
    BY <2>1, <2>2, <2>3, <2>4 DEF Answer
<1>28. NoFile \notin Hashes
  BY PushAssumption
<1>29. /\ j.minted \subseteq r.minted
       /\ \A k \in Ids : uploaded[k] # NoFile => uploaded'[k] = uploaded[k]
       /\ \A k \in r.minted \ j.minted : uploaded[k] = NoFile /\ uploaded'[k] # NoFile
  BY <1>16, <1>19, <1>24, <1>25, <1>28
<1>30. QED
  BY <1>1, <1>17, <1>19, <1>21, <1>26, <1>27, <1>29

-----------------------------------------------------------------------------
(* All steps. *)

\* A step that neither uploads nor associates: it may put files back.
Silent(c) == Moves(c) /\ Seeks(job[c], job'[c]) /\ Restores /\ UNCHANGED Books

\* An association that ends in an error before the index is asked.
Failing(c) ==
    /\ Moves(c) /\ Kept(job[c], job'[c]) /\ Restores /\ UNCHANGED Books
    /\ job[c].results # <<>> /\ job'[c].results = Tail(job[c].results)
    /\ job'[c].minted = job[c].minted /\ job'[c].batch = job[c].batch /\ job'[c].encoded = <<>>
    /\ job'[c].err /\ ~ job'[c].full /\ job'[c].failed = job[c].failed \cup {Head(job[c].results).id}

\* Only the check whether a picture can be read looks for files.
Looks(c) ==
    \/ job'[c].there = job[c].there
    \/ /\ CheckReadable(c) /\ pc'[c] = "held" /\ job[c].kind # "sync"
       /\ job'[c].there = job[c].there \cup {Head(job[c].todo)} /\ job'[c].todo = job[c].todo

\* A step of a push is silent, fails, uploads or records, and keeps what the push was called with.
LEMMA CallKinds ==
    ASSUME Typed, Control, NEW c \in Pushers, Call(c)
    PROVE  /\ Silent(c) \/ Failing(c) \/ Upload(c) \/ AddAssociate(c)
           /\ Moves(c) /\ Kept(job[c], job'[c]) /\ Looks(c)
           /\ edits' = edits /\ pushes' = pushes
<1>1. CASE ListLayer(c)
  <2>1. Moves(c) /\ Quiet(job[c], job'[c])
    BY <1>1, ListLayerMoves
  <2>2. UNCHANGED <<World, pushes>>
    BY <1>1 DEF ListLayer
  <2>3. QED
    BY <2>1, <2>2 DEF Silent, Quiet, Seeks, World, Books, Restores, Looks
<1>2. CASE RunHook(c)
  <2>1. Moves(c) /\ Quiet(job[c], job'[c])
    BY <1>2, RunHookMoves
  <2>2. UNCHANGED <<World, pushes>>
    BY <1>2 DEF RunHook
  <2>3. QED
    BY <2>1, <2>2 DEF Silent, Quiet, Seeks, World, Books, Restores, Looks
<1>3. CASE CheckReadable(c)
  <2>1. Moves(c) /\ Seeks(job[c], job'[c]) /\ Restores
    BY <1>3, CheckReadableMoves
  <2>2. Looks(c)
    BY <1>3, CheckReadableMoves DEF Looks
  <2>3. UNCHANGED <<Books, pushes>>
    BY <1>3 DEF CheckReadable
  <2>4. QED
    BY <2>1, <2>2, <2>3 DEF Silent, Seeks, Books
<1>4. CASE CheckHeld(c)
  <2>1. Moves(c) /\ Quiet(job[c], job'[c]) /\ Restores
    BY <1>4, CheckHeldMoves
  <2>2. UNCHANGED <<Books, pushes>>
    BY <1>4 DEF CheckHeld
  <2>3. QED
    BY <2>1, <2>2 DEF Silent, Quiet, Seeks, Books, Looks
<1>5. CASE LoadPath(c)
  <2>1. Moves(c) /\ Quiet(job[c], job'[c]) /\ Restores
    BY <1>5, LoadPathMoves
  <2>2. UNCHANGED <<Books, pushes>>
    BY <1>5 DEF LoadPath
  <2>3. QED
    BY <2>1, <2>2 DEF Silent, Quiet, Seeks, Books, Looks
<1>6. CASE Upload(c)
  <2>1. Moves(c) /\ Kept(job[c], job'[c]) /\ job'[c].there = job[c].there
    BY <1>6, UploadMoves
  <2>2. UNCHANGED <<edits, pushes>>
    BY <1>6 DEF Upload
  <2>3. QED
    BY <1>6, <2>1, <2>2 DEF Looks
<1>7. CASE RouteAssociate(c)
  <2>1. UNCHANGED <<Books, pushes>>
    BY <1>7 DEF RouteAssociate
  <2>2. QED
    BY <1>7, <2>1, RouteAssociateMoves DEF Silent, Failing, Skips, Quiet, Seeks, Books, Looks
<1>8. CASE ReadAssociate(c)
  <2>1. UNCHANGED <<Books, pushes>>
    BY <1>8 DEF ReadAssociate
  <2>2. QED
    BY <1>8, <2>1, ReadAssociateMoves DEF Silent, Failing, Skips, Quiet, Seeks, Books, Looks
<1>9. CASE AddAssociate(c)
  <2>1. UNCHANGED <<edits, pushes>>
    BY <1>9 DEF AddAssociate
  <2>2. QED
    BY <1>9, <2>1, AddAssociateMoves DEF Skips, Looks
<1>10. CASE Encode(c)
  <2>1. Moves(c) /\ Quiet(job[c], job'[c]) /\ Restores
    BY <1>10, EncodeMoves
  <2>2. UNCHANGED <<Books, pushes>>
    BY <1>10 DEF Encode
  <2>3. QED
    BY <2>1, <2>2 DEF Silent, Quiet, Seeks, Books, Looks
<1>11. QED
  BY <1>1, <1>2, <1>3, <1>4, <1>5, <1>6, <1>7, <1>8, <1>9, <1>10 DEF Call

\* No step of a push changes or removes a file, and but for an association none changes what is read.
LEMMA CallLasts ==
    ASSUME Typed, Control, NEW c \in Pushers, Call(c)
    PROVE  Lasting /\ (AddAssociate(c) \/ SameReads)
<1>1. Stored
  BY DEF Typed
<1>2. CASE Silent(c) \/ Failing(c)
  <2>1. Restores /\ saved' = saved
    BY <1>2 DEF Silent, Failing, Books
  <2>2. QED
    BY <1>1, <2>1, RestoresLast
<1>3. CASE Upload(c)
  <2>1. Restores /\ saved' = saved
    BY <1>3 DEF Upload, Restores
  <2>2. QED
    BY <1>1, <2>1, RestoresLast
<1>4. CASE AddAssociate(c)
  BY <1>4, AddAssociateMoves, AddAssociateWrites
<1>5. QED
  BY <1>2, <1>3, <1>4, CallKinds

\* What an association changes in the indexes.
LEMMA AddsWrites ==
    ASSUME Typed, NEW c \in Pushers, job[c].at \in Layers, job[c].read \in Hashes,
           Head(job[c].results) \in Answers, ids' \in {ids, Adds(job[c])}
    PROVE  LET j == job[c]
           IN  /\ ids' \in [IndexIds -> [Hashes -> [Ids -> Scopes \cup {NoScope}]]]
               /\ IndexOf[j.at] \in IndexIds /\ Head(j.results).id \in Ids
               /\ \A i \in IndexIds, h \in Hashes, k \in Ids :
                    \/ ids'[i][h][k] = ids[i][h][k]
                    \/ /\ i = IndexOf[j.at] /\ h = j.read /\ k = Head(j.results).id
                       /\ ids'[i][h][k] = j.view
               /\ ids' = Adds(j) => ids'[IndexOf[j.at]][j.read][Head(j.results).id] = j.view
<1> DEFINE j == job[c]
           x == IndexOf[j.at]
           k0 == Head(j.results).id
<1>1. x \in IndexIds /\ k0 \in Ids /\ j.view \in Scopes
  BY JobTyped DEF IndexIds, Answers
<1>2. ids \in [IndexIds -> [Hashes -> [Ids -> Scopes \cup {NoScope}]]]
  BY DEF Typed, Stored
<1>3. Adds(j) = [ids EXCEPT ![x] = [ids[x] EXCEPT ![j.read] = [ids[x][j.read] EXCEPT ![k0] = j.view]]]
  BY <1>2 DEF Adds
<1> HIDE DEF x, k0
<1>4. [ids[x][j.read] EXCEPT ![k0] = j.view] \in [Ids -> Scopes \cup {NoScope}]
  BY <1>1, <1>2
<1>5. [ids[x] EXCEPT ![j.read] = [ids[x][j.read] EXCEPT ![k0] = j.view]]
        \in [Hashes -> [Ids -> Scopes \cup {NoScope}]]
  BY <1>1, <1>2, <1>4
<1>6. Adds(j) \in [IndexIds -> [Hashes -> [Ids -> Scopes \cup {NoScope}]]]
  BY <1>1, <1>2, <1>3, <1>5
<1>7. Adds(j)[x][j.read][k0] = j.view
  BY <1>1, <1>2, <1>3
<1>8. ASSUME NEW i \in IndexIds, NEW h \in Hashes, NEW k \in Ids
      PROVE  \/ Adds(j)[i][h][k] = ids[i][h][k]
             \/ i = x /\ h = j.read /\ k = k0
  BY <1>1, <1>2, <1>3
<1>9. ids' \in [IndexIds -> [Hashes -> [Ids -> Scopes \cup {NoScope}]]]
  BY <1>2, <1>6
<1>10. \A i \in IndexIds, h \in Hashes, k \in Ids :
         \/ ids'[i][h][k] = ids[i][h][k]
         \/ i = x /\ h = j.read /\ k = k0 /\ ids'[i][h][k] = j.view
  BY <1>7, <1>8
<1>11. ids' = Adds(j) => ids'[x][j.read][k0] = j.view
  BY <1>7
<1>12. QED
  BY <1>1, <1>9, <1>10, <1>11 DEF x, k0

\* Every step keeps types and control.
LEMMA StepTyped ==
    ASSUME Typed, Control, [Next]_vars
    PROVE  Typed' /\ Control'
<1>1. /\ Stored /\ uploaded \in [Ids -> Hashes \cup {NoFile}]
      /\ edits \in 0 .. MaxEdits /\ pushes \in 0 .. MaxPushes
      /\ file \in Folders /\ name \in Names /\ saved \in Names
      /\ MaxPushes \in Nat /\ MaxEdits \in Nat
  BY PushAssumption DEF Typed, Stored
<1>2. ASSUME NEW c \in Pushers, Push(c)
      PROVE  Typed' /\ Control'
  <2>1. Moves(c)
    BY <1>2, PushMoves
  <2>2. pushes' \in 0 .. MaxPushes
    BY <1>1, <1>2 DEF Push
  <2>3. UNCHANGED World
    BY <1>2 DEF Push
  <2>4. QED
    BY <1>1, <2>1, <2>2, <2>3, MovesKeep DEF World, Books, Typed, Stored
<1>3. ASSUME NEW c \in Pushers, Call(c)
      PROVE  Typed' /\ Control'
  <2>1. Moves(c) /\ edits' = edits /\ pushes' = pushes /\ Lasting
    BY <1>3, CallKinds, CallLasts
  <2>2. /\ uploaded' \in [Ids -> Hashes \cup {NoFile}]
        /\ ids' \in [IndexIds -> [Hashes -> [Ids -> Scopes \cup {NoScope}]]]
        /\ name' \in Names /\ saved' \in Names
    <3>1. CASE Silent(c) \/ Failing(c)
      BY <1>1, <3>1 DEF Silent, Failing, Books, Stored
    <3>2. CASE Upload(c)
      <4>1. uploaded' \in [Ids -> Hashes \cup {NoFile}]
        BY <3>2, UploadMoves
      <4>2. UNCHANGED <<ids, name, saved>>
        BY <3>2 DEF Upload
      <4>3. QED
        BY <1>1, <4>1, <4>2 DEF Stored
    <3>3. CASE AddAssociate(c)
      <4>1. ids' \in [IndexIds -> [Hashes -> [Ids -> Scopes \cup {NoScope}]]]
        BY <3>3, AddAssociateMoves, AddsWrites
      <4>2. name' \in Names /\ saved' \in Names
        BY <3>3, AddAssociateMoves, AddAssociateWrites
      <4>3. uploaded' = uploaded
        BY <3>3 DEF AddAssociate
      <4>4. QED
        BY <1>1, <4>1, <4>2, <4>3
    <3>4. QED
      BY <1>3, <3>1, <3>2, <3>3, CallKinds
  <2>3. Stored'
    BY <2>1, <2>2 DEF Lasting, Stored
  <2>4. QED
    BY <1>1, <2>1, <2>2, <2>3, MovesKeep DEF Typed
<1>4. ASSUME NEW l \in Layers, NEW p \in Reaches[l], NEW h \in Hashes \cup {NoFile}, file' = [file EXCEPT ![l][p] = h]
      PROVE  /\ file' \in Folders
             /\ \A m \in Layers : \A q \in Paths \ Reaches[m] : file'[m][q] = NoFile
  <2>1. p \in Paths
    BY PushAssumption
  <2>2. file' \in Folders
    BY <1>1, <1>4, <2>1 DEF Folders
  <2>3. \A m \in Layers, q \in Paths : file'[m][q] = file[m][q] \/ (m = l /\ q = p)
    BY <1>1, <1>4, <2>1 DEF Folders
  <2>4. QED
    BY <1>1, <2>2, <2>3 DEF Stored
<1>5. CASE UserWrites \/ UserRemoves
  <2>1. PICK l \in Layers, h \in Hashes \cup {NoFile} : \E p \in Reaches[l] : file' = [file EXCEPT ![l][p] = h]
    BY <1>5 DEF UserWrites, UserRemoves
  <2>2. Stored'
    <3>1. ids' = ids
      BY <1>5 DEF UserWrites, UserRemoves
    <3>2. QED
      BY <1>1, <1>4, <2>1, <3>1 DEF Stored
  <2>3. edits' \in 0 .. MaxEdits
    BY <1>1, <1>5 DEF UserWrites, UserRemoves
  <2>4. UNCHANGED <<name, saved, uploaded, pushes, pc, job>>
    BY <1>5 DEF UserWrites, UserRemoves
  <2>5. QED
    BY <2>2, <2>3, <2>4 DEF Typed, Control
<1>6. CASE UNCHANGED vars
  BY <1>6 DEF vars, Typed, Stored, Control
<1>7. QED
  BY <1>2, <1>3, <1>5, <1>6 DEF Next

================================================================================
