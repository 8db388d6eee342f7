--------------------------- MODULE LlmGatewayProofs ---------------------------
(***************************************************************************)
(* Proofs about the LLM gateway: about ModelCalls and ModelRegistry, for   *)
(* any clients, edits, retries and usage, whatever fails or is cancelled;  *)
(* and about TokenQuota, for any requests, caps, tokens and length of time.*)
(***************************************************************************)
EXTENDS ModelCalls, TokenQuota, FiniteSetTheorems, TLAPS

-----------------------------------------------------------------------------
(***************************************************************************)
(* The registries.  A replaced registry is older than the one that was     *)
(* loaded last, and never comes back; it is closed, or about to be, only   *)
(* when nobody holds it, because _references counts at least its holders.  *)
(* Who was cancelled is counted for ever: that leaks, but closes nothing.  *)
(***************************************************************************)

Holders(r) == {c \in Clients : lease[c].at \in {"swap", "held"} /\ lease[c].reg = r}
\* Closed, or about to be.
Dead(r) == r \in closed \/ \E c \in Clients : lease[c].drop = r

LeaseShape ==
    \A c \in Clients :
        /\ lease[c].at \in {"none", "last"} => lease[c].reg = Nil
        /\ lease[c].at \in {"swap", "held"} => lease[c].reg \in Registries
        /\ lease[c].at \in {"none", "held"} => lease[c].drop = Nil
        /\ lease[c].at \in {"swap", "last"} => lease[c].drop \in Edits

CacheShape ==
    /\ cached \in {Nil, Fallback, loaded}
    /\ cached = Nil => loaded = 0
    /\ loaded <= rows.edit
    /\ \A r \in retired : r < loaded

HoldersAreCounted ==
    \A r \in Registries : IsFiniteSet(Holders(r)) /\ Cardinality(Holders(r)) <= refs[r]

NobodyHoldsTheDead == \A r \in Edits : Dead(r) => r < loaded /\ Holders(r) = {}

RegistryInv ==
    /\ RegistryTypeOK
    /\ LeaseShape
    /\ CacheShape
    /\ HoldersAreCounted
    /\ NobodyHoldsTheDead

LEMMA NilIsNoRegistry == Nil \notin Registries /\ Registries = 0..MaxEdits + 1
                         /\ Edits \subseteq Registries \ {Fallback}
  BY RegistryAssumption DEF Registries, Edits, Fallback

LEMMA RegistryInvInit == RegistryInit => RegistryInv
  <1> SUFFICES ASSUME RegistryInit PROVE RegistryInv
    OBVIOUS
  <1> USE RegistryAssumption
  <1>1. \A c \in Clients : lease[c] = NoLease
    BY DEF RegistryInit
  <1>2. RegistryTypeOK
    <2>1. 0 \in Registries /\ 1 \in Edits
      BY DEF Registries, Edits, Fallback
    <2>2. NoLease \in Lease
      BY DEF Lease, NoLease
    <2>3. rows \in [edit : Edits, kind : RowsKind]
      BY <2>1 DEF RegistryInit
    <2>4. /\ refs \in [Registries -> Nat] /\ lease \in [Clients -> Lease]
          /\ faults \in 0..MaxFaults
      BY <2>2 DEF RegistryInit
    <2> QED BY <2>3, <2>4 DEF RegistryInit, RegistryTypeOK
  <1>3. LeaseShape /\ CacheShape
    BY <1>1 DEF RegistryInit, LeaseShape, CacheShape, NoLease, Edits, Fallback
  <1>4. \A r \in Registries : Holders(r) = {}
    BY <1>1 DEF Holders, NoLease
  <1>5. HoldersAreCounted
    BY <1>4, FS_EmptySet DEF HoldersAreCounted, RegistryInit
  <1>6. \A r \in Edits : ~Dead(r)
    BY <1>1, NilIsNoRegistry DEF Dead, NoLease, RegistryInit
  <1> QED BY <1>2, <1>3, <1>5, <1>6 DEF RegistryInv, NobodyHoldsTheDead

\* A step that leaves the references and the cache alone and lets nobody hold more.
LEMMA HeldByFewer ==
    ASSUME RegistryInv,
           RegistryTypeOK', LeaseShape',
           refs' = refs, cached' = cached, loaded' = loaded, retired' = retired,
           loaded <= rows'.edit,
           \A r \in Registries : Holders(r)' \subseteq Holders(r),
           \A r \in Edits : Dead(r)' => Dead(r)
    PROVE  RegistryInv'
  <1>1. CacheShape'
    BY DEF RegistryInv, CacheShape
  <1>2. HoldersAreCounted'
    <2> SUFFICES ASSUME NEW r \in Registries
                 PROVE  IsFiniteSet(Holders(r)') /\ Cardinality(Holders(r)') <= refs[r]
      BY DEF HoldersAreCounted
    <2>1. /\ IsFiniteSet(Holders(r)) /\ Cardinality(Holders(r)) <= refs[r]
          /\ Holders(r)' \in SUBSET Holders(r)
      BY DEF RegistryInv, HoldersAreCounted
    <2>2. /\ IsFiniteSet(Holders(r)')
          /\ Cardinality(Holders(r)') <= Cardinality(Holders(r))
      BY <2>1, FS_Subset
    <2>3. /\ Cardinality(Holders(r)') \in Nat /\ Cardinality(Holders(r)) \in Nat
          /\ refs[r] \in Nat
      BY <2>1, <2>2, FS_CardinalityType DEF RegistryInv, RegistryTypeOK
    <2> QED BY <2>1, <2>2, <2>3
  <1>3. NobodyHoldsTheDead'
    BY NilIsNoRegistry DEF RegistryInv, NobodyHoldsTheDead
  <1> QED BY <1>1, <1>2, <1>3 DEF RegistryInv

\* Whatever _refresh finds, the cache holds the registry loaded last or the fallback, and
\* what has to be closed is the old one, which nobody holds.
LEMMA RefreshEffect ==
    ASSUME RegistryInv, NEW drop \in Registries \cup {Nil},
           \/ Refresh(drop)
           \/ cached # Nil /\ drop = Nil /\ UNCHANGED <<cached, loaded, expired, retired, faults>>,
           UNCHANGED rows
    PROVE  /\ cached' \in {Fallback, loaded'} /\ cached' \in Registries
           /\ loaded' \in {0} \cup Edits /\ loaded <= loaded' /\ loaded' <= rows'.edit
           /\ expired' \in BOOLEAN /\ faults' \in 0..MaxFaults
           /\ retired' \subseteq Edits /\ \A r \in retired' : r < loaded'
           /\ drop # Nil => /\ drop \in Edits /\ drop < loaded' /\ drop # cached'
                            /\ refs[drop] = 0
  <1>1. /\ cached \in {Nil, Fallback, loaded} /\ (cached = Nil => loaded = 0)
        /\ loaded <= rows.edit /\ \A r \in retired : r < loaded
        /\ rows'.edit = rows.edit
        /\ rows.edit \in Edits /\ loaded \in {0} \cup Edits /\ cached \in Registries \cup {Nil}
        /\ retired \subseteq Edits /\ faults \in 0..MaxFaults /\ expired \in BOOLEAN
    BY DEF RegistryInv, CacheShape, RegistryTypeOK
  <1>2. /\ \A e \in Edits : e \in Int /\ e > 0
        /\ Fallback = 0 /\ 0 \in Registries
        /\ Edits \subseteq Registries
    BY RegistryAssumption DEF Registries, Edits, Fallback
  <1>3. loaded \in Int /\ rows.edit \in Int /\ loaded <= loaded
    BY <1>1, <1>2
  <1>4. ASSUME UNCHANGED <<loaded, retired>>, drop = Nil,
               cached' \in {Fallback, loaded}, cached' \in Registries,
               expired' \in BOOLEAN, faults' \in 0..MaxFaults
        PROVE  /\ cached' \in {Fallback, loaded'} /\ cached' \in Registries
               /\ loaded' \in {0} \cup Edits /\ loaded <= loaded' /\ loaded' <= rows'.edit
               /\ expired' \in BOOLEAN /\ faults' \in 0..MaxFaults
               /\ retired' \subseteq Edits /\ \A r \in retired' : r < loaded'
               /\ drop # Nil => /\ drop \in Edits /\ drop < loaded' /\ drop # cached'
                                /\ refs[drop] = 0
    BY <1>1, <1>3, <1>4
  <1>5. CASE LoadFails(drop)
    <2>1. /\ UNCHANGED <<loaded, retired>> /\ drop = Nil /\ expired' = FALSE
          /\ cached' = IF cached = Nil THEN Fallback ELSE cached
      BY <1>5 DEF LoadFails
    <2>2. cached' \in {Fallback, loaded} /\ cached' \in Registries
      BY <1>1, <1>2, <2>1
    <2>3. faults' \in 0..MaxFaults
      BY <1>1, <1>5, RegistryAssumption DEF LoadFails
    <2> QED BY <1>4, <2>1, <2>2, <2>3
  <1>6. CASE LoadFindsNoChange(drop)
    <2>1. /\ UNCHANGED <<cached, loaded, retired, faults>> /\ drop = Nil /\ expired' = FALSE
          /\ cached # Nil
      BY <1>6 DEF LoadFindsNoChange
    <2> QED BY <1>1, <1>4, <2>1
  <1>7. CASE LoadFindsChange(drop)
    <2>1. /\ loaded' = rows.edit /\ loaded < rows.edit
          /\ cached' \in {Fallback, rows.edit} /\ expired' = FALSE /\ faults' = faults
      <3>1. loaded # rows.edit
        BY <1>1, <1>2, <1>7 DEF LoadFindsChange
      <3> QED BY <1>1, <1>3, <1>7, <3>1 DEF LoadFindsChange
    <2>2. Replaced(cached) => cached \in Edits /\ cached = loaded
      <3>1. Replaced(cached) => cached = loaded /\ cached # 0
        BY <1>1, <1>2 DEF Replaced
      <3> QED BY <1>1, <3>1
    <2>3. /\ drop # Nil => drop = cached /\ Replaced(cached) /\ refs[cached] = 0
          /\ retired' \subseteq retired \cup {cached}
          /\ retired' # retired => Replaced(cached)
      BY <1>7 DEF LoadFindsChange
    <2>4. retired' \subseteq Edits /\ \A r \in retired' : r < loaded'
      <3> SUFFICES ASSUME NEW r \in retired' PROVE r \in Edits /\ r < loaded'
        OBVIOUS
      <3>1. CASE r \in retired
        <4>1. r \in Edits /\ r \in Int /\ r < loaded
          BY <1>1, <1>2, <3>1
        <4> QED BY <1>3, <2>1, <4>1
      <3>2. CASE r \notin retired
        <4>1. r = cached /\ Replaced(cached)
          BY <2>3, <3>2
        <4> QED BY <2>1, <2>2, <4>1
      <3> QED BY <3>1, <3>2
    <2>5. drop # Nil => drop \in Edits /\ drop < loaded' /\ drop # cached' /\ refs[drop] = 0
      <3> SUFFICES ASSUME drop # Nil
                   PROVE  drop \in Edits /\ drop < loaded' /\ drop # cached' /\ refs[drop] = 0
        OBVIOUS
      <3>1. drop \in Edits /\ drop = loaded /\ refs[drop] = 0
        BY <2>2, <2>3
      <3>2. drop \in Int /\ drop # 0
        BY <1>2, <3>1
      <3> QED BY <1>2, <1>3, <2>1, <3>1, <3>2
    <2>6. loaded <= loaded' /\ loaded' <= rows'.edit
      BY <1>1, <1>3, <2>1
    <2>7. cached' \in Registries
      BY <1>1, <1>2, <2>1
    <2> QED BY <1>1, <2>1, <2>4, <2>5, <2>6, <2>7
  <1>8. CASE cached # Nil /\ drop = Nil /\ UNCHANGED <<cached, loaded, expired, retired, faults>>
    BY <1>1, <1>4, <1>8
  <1> QED BY <1>5, <1>6, <1>7, <1>8 DEF Refresh

LEMMA AcquireStep ==
    ASSUME RegistryInv, NEW c \in Clients, NEW force, Acquire(c, force)
    PROVE  RegistryInv' /\ lease[c].at = "none" /\ \A d \in Clients \ {c} : lease'[d] = lease[d]
  <1>1. PICK drop \in Registries \cup {Nil} :
           /\ \/ Refresh(drop)
              \/ cached # Nil /\ drop = Nil
                 /\ UNCHANGED <<cached, loaded, expired, retired, faults>>
           /\ Lend(c, drop)
    BY DEF Acquire
  <1>2. UNCHANGED <<rows, closed, leaked>> /\ lease[c].at = "none"
    BY DEF Acquire
  <1>3. /\ cached' \in {Fallback, loaded'} /\ cached' \in Registries
        /\ loaded' \in {0} \cup Edits /\ loaded <= loaded' /\ loaded' <= rows'.edit
        /\ expired' \in BOOLEAN /\ faults' \in 0..MaxFaults
        /\ retired' \subseteq Edits /\ \A r \in retired' : r < loaded'
        /\ drop # Nil => /\ drop \in Edits /\ drop < loaded' /\ drop # cached'
                         /\ refs[drop] = 0
    BY <1>1, <1>2, RefreshEffect
  <1>4. /\ refs' = [refs EXCEPT ![cached'] = @ + 1]
        /\ lease' = [lease EXCEPT ![c] = [at |-> IF drop = Nil THEN "held" ELSE "swap",
                                          reg |-> cached', drop |-> drop]]
    BY <1>1 DEF Lend
  <1>5. /\ lease'[c] = [at |-> IF drop = Nil THEN "held" ELSE "swap",
                        reg |-> cached', drop |-> drop]
        /\ \A d \in Clients \ {c} : lease'[d] = lease[d]
    BY <1>4 DEF RegistryInv, RegistryTypeOK
  <1>6. RegistryTypeOK'
    <2>1. refs' \in [Registries -> Nat]
      BY <1>3, <1>4 DEF RegistryInv, RegistryTypeOK
    <2>2. lease' \in [Clients -> Lease]
      BY <1>3, <1>4 DEF RegistryInv, RegistryTypeOK, Lease
    <2> QED BY <1>2, <1>3, <2>1, <2>2 DEF RegistryInv, RegistryTypeOK
  <1>7. LeaseShape'
    BY <1>3, <1>5 DEF RegistryInv, LeaseShape
  <1>8. CacheShape'
    BY <1>3, NilIsNoRegistry DEF CacheShape
  <1>9. ASSUME NEW r \in Registries
        PROVE  /\ r # cached' => Holders(r)' = Holders(r) /\ refs'[r] = refs[r]
               /\ r = cached' => Holders(r)' = Holders(r) \cup {c} /\ refs'[r] = refs[r] + 1
    <2>1. r # cached' => Holders(r)' = Holders(r)
      BY <1>2, <1>5 DEF Holders
    <2>2. r = cached' => Holders(r)' = Holders(r) \cup {c}
      BY <1>5 DEF Holders
    <2>3. /\ r # cached' => refs'[r] = refs[r]
          /\ r = cached' => refs'[r] = refs[r] + 1
      BY <1>3, <1>4 DEF RegistryInv, RegistryTypeOK
    <2> QED BY <2>1, <2>2, <2>3
  <1>10. HoldersAreCounted'
    <2> SUFFICES ASSUME NEW r \in Registries
                 PROVE  IsFiniteSet(Holders(r)') /\ Cardinality(Holders(r)') <= refs'[r]
      BY DEF HoldersAreCounted
    <2>1. /\ IsFiniteSet(Holders(r)) /\ Cardinality(Holders(r)) <= refs[r]
          /\ refs[r] \in Nat
      BY DEF RegistryInv, HoldersAreCounted, RegistryTypeOK
    <2>2. Cardinality(Holders(r)) \in Nat
      BY <2>1, FS_CardinalityType
    <2>3. /\ IsFiniteSet(Holders(r) \cup {c})
          /\ Cardinality(Holders(r) \cup {c}) <= Cardinality(Holders(r)) + 1
      <3>1. /\ IsFiniteSet(Holders(r) \cup {c})
            /\ \/ Cardinality(Holders(r) \cup {c}) = Cardinality(Holders(r))
               \/ Cardinality(Holders(r) \cup {c}) = Cardinality(Holders(r)) + 1
        BY <2>1, FS_AddElement
      <3> HIDE DEF Holders
      <3> QED BY <2>2, <3>1
    <2>4. Cardinality(Holders(r) \cup {c}) \in Nat
      BY <2>3, FS_CardinalityType
    <2>5. CASE r # cached'
      <3>1. Holders(r)' = Holders(r) /\ refs'[r] = refs[r]
        BY <1>9, <2>5
      <3> QED BY <2>1, <3>1
    <2>6. CASE r = cached'
      <3>1. Holders(r)' = Holders(r) \cup {c} /\ refs'[r] = refs[r] + 1
        BY <1>9, <2>6
      <3> QED BY <2>1, <2>2, <2>3, <2>4, <3>1
    <2> QED BY <2>5, <2>6
  <1>11. NobodyHoldsTheDead'
    <2> SUFFICES ASSUME NEW r \in Edits, Dead(r)'
                 PROVE  r < loaded' /\ Holders(r)' = {}
      BY DEF NobodyHoldsTheDead
    <2>0. r \in Registries /\ r # Nil /\ r \in Int
      BY NilIsNoRegistry, RegistryAssumption DEF Edits
    <2>1. Dead(r) \/ r = drop
      BY <1>2, <1>5 DEF Dead
    <2>2. r < loaded' /\ Holders(r) = {}
      <3>1. CASE Dead(r)
        <4>1. r < loaded /\ Holders(r) = {}
          BY <3>1 DEF RegistryInv, NobodyHoldsTheDead
        <4>2. loaded \in Int /\ loaded' \in Int
          BY <1>3, RegistryAssumption DEF RegistryInv, RegistryTypeOK, Edits
        <4> QED BY <1>3, <2>0, <4>1, <4>2
      <3>2. CASE r = drop
        <4>1. r < loaded' /\ refs[r] = 0
          BY <1>3, <2>0, <3>2
        <4>2. IsFiniteSet(Holders(r)) /\ Cardinality(Holders(r)) <= 0
          BY <2>0, <4>1 DEF RegistryInv, HoldersAreCounted
        <4>3. Cardinality(Holders(r)) = 0
          BY <4>2, FS_CardinalityType
        <4> QED BY <4>1, <4>2, <4>3, FS_EmptySet
      <3> QED BY <2>1, <3>1, <3>2
    <2>3. r # cached'
      <3>1. loaded' \in Int
        BY <1>3, RegistryAssumption DEF Edits
      <3> QED BY <1>3, <2>0, <2>2, <3>1, NilIsNoRegistry
    <2> QED BY <1>9, <2>0, <2>2, <2>3
  <1> QED BY <1>2, <1>5, <1>6, <1>7, <1>8, <1>10, <1>11 DEF RegistryInv

\* The task has closed what it replaced or released.
LEMMA CloseStep ==
    ASSUME RegistryInv, NEW c \in Clients, Close(c)
    PROVE  /\ RegistryInv' /\ \A d \in Clients \ {c} : lease'[d] = lease[d]
           /\ lease[c].at \in {"swap", "last"}
           /\ lease[c].at = "last" => lease'[c] = NoLease
  <1> DEFINE me == IF lease[c].at = "last" THEN NoLease
                   ELSE [lease[c] EXCEPT !.at = "held", !.drop = Nil]
  <1>0. RegistryTypeOK /\ LeaseShape /\ CacheShape
    BY DEF RegistryInv
  <1>1. /\ UNCHANGED <<rows, cached, loaded, expired, refs, retired, faults, leaked>>
        /\ lease[c].at \in {"swap", "last"}
        /\ lease' = [lease EXCEPT ![c] = me]
        /\ closed' = closed \cup {lease[c].drop}
    BY DEF Close
  <1>2. lease[c] \in Lease /\ lease[c].drop \in Edits
    BY <1>0, <1>1 DEF RegistryTypeOK, LeaseShape
  <1>3. /\ lease'[c] = me /\ \A d \in Clients \ {c} : lease'[d] = lease[d]
    BY <1>0, <1>1 DEF RegistryTypeOK
  <1>4. me \in Lease
    BY <1>2 DEF Lease, NoLease
  <1>5. RegistryTypeOK'
    <2>1. lease' \in [Clients -> Lease] /\ closed' \subseteq Edits
      BY <1>0, <1>1, <1>2, <1>4 DEF RegistryTypeOK
    <2> QED BY <1>0, <1>1, <2>1 DEF RegistryTypeOK
  <1>6. \/ me = NoLease
        \/ /\ lease[c].at = "swap" /\ me.at = "held" /\ me.reg = lease[c].reg
           /\ me.drop = Nil
    BY <1>1, <1>2 DEF Lease
  <1> HIDE DEF me
  <1>7. LeaseShape'
    BY <1>0, <1>3, <1>6 DEF LeaseShape, NoLease
  <1>8. \A r \in Registries : Holders(r)' \subseteq Holders(r)
    BY <1>3, <1>6 DEF Holders, NoLease
  <1>9. ASSUME NEW r \in Edits, Dead(r)' PROVE Dead(r)
    <2>1. r # Nil
      BY NilIsNoRegistry
    <2> QED BY <1>1, <1>3, <1>6, <1>9, <2>1 DEF Dead, NoLease
  <1>10. loaded <= rows'.edit
    BY <1>0, <1>1 DEF CacheShape
  <1>11. RegistryInv'
    BY <1>1, <1>5, <1>7, <1>8, <1>9, <1>10, HeldByFewer
  <1> QED BY <1>1, <1>3, <1>11 DEF me

\* The last to leave a retired registry is the only one left to hold it.
LEMMA ReleaseStep ==
    ASSUME RegistryInv, NEW c \in Clients, Release(c)
    PROVE  /\ RegistryInv' /\ \A d \in Clients \ {c} : lease'[d] = lease[d]
           /\ lease'[c].at \in {"none", "last"}
  <1>0. /\ RegistryTypeOK /\ LeaseShape /\ CacheShape /\ HoldersAreCounted
        /\ NobodyHoldsTheDead
    BY DEF RegistryInv
  <1>a. lease[c].at = "held" /\ lease[c].reg \in Registries
    BY <1>0 DEF Release, LeaseShape
  <1>b. PICK r \in Registries : r = lease[c].reg
    BY <1>a
  <1> DEFINE last == LastOfRetired(r)
             me == IF last THEN [at |-> "last", reg |-> Nil, drop |-> r] ELSE NoLease
  <1>1. /\ lease[c].at = "held" /\ r = lease[c].reg
        /\ UNCHANGED <<rows, cached, loaded, expired, closed, faults, leaked>>
        /\ refs' = [refs EXCEPT ![r] = IF @ <= 1 THEN 0 ELSE @ - 1]
        /\ retired' = IF last THEN retired \ {r} ELSE retired
        /\ lease' = [lease EXCEPT ![c] = me]
    BY <1>a, <1>b DEF Release
  <1>2. last \in BOOLEAN /\ (last => r \in Edits /\ r < loaded /\ refs[r] <= 1)
    BY <1>0 DEF LastOfRetired, RegistryTypeOK, CacheShape
  <1>3. /\ lease'[c] = me /\ \A d \in Clients \ {c} : lease'[d] = lease[d]
    BY <1>0, <1>1 DEF RegistryTypeOK
  <1>4. /\ me \in Lease /\ me.at \in {"none", "last"} /\ me.reg = Nil
        /\ me.drop = IF last THEN r ELSE Nil
        /\ me.at = IF last THEN "last" ELSE "none"
    BY DEF Lease, NoLease
  <1> HIDE DEF me, last
  <1>5. RegistryTypeOK'
    <2>1. lease' \in [Clients -> Lease]
      BY <1>0, <1>1, <1>4 DEF RegistryTypeOK
    <2>2. refs' \in [Registries -> Nat]
      <3>1. refs[r] \in Nat
        BY <1>0, <1>1 DEF RegistryTypeOK
      <3>2. (IF refs[r] <= 1 THEN 0 ELSE refs[r] - 1) \in Nat
        BY <3>1
      <3> QED BY <1>0, <1>1, <3>2 DEF RegistryTypeOK
    <2>3. retired' \subseteq Edits
      BY <1>0, <1>1 DEF RegistryTypeOK
    <2> QED BY <1>0, <1>1, <2>1, <2>2, <2>3 DEF RegistryTypeOK
  <1>6. LeaseShape'
    BY <1>0, <1>2, <1>3, <1>4 DEF LeaseShape
  <1>7. CacheShape'
    BY <1>0, <1>1 DEF CacheShape
  <1>8. ASSUME NEW s \in Registries
        PROVE  /\ s # r => Holders(s)' = Holders(s) /\ refs'[s] = refs[s]
               /\ s = r => Holders(s)' = Holders(s) \ {c} /\ c \in Holders(s)
    <2>1. c \notin Holders(s)'
      BY <1>3, <1>4 DEF Holders
    <2>2. \A d \in Clients \ {c} : d \in Holders(s)' <=> d \in Holders(s)
      BY <1>3 DEF Holders
    <2>3. c \in Holders(s) <=> s = r
      BY <1>1 DEF Holders
    <2>4. s # r => refs'[s] = refs[s]
      BY <1>0, <1>1 DEF RegistryTypeOK
    <2>5. Holders(s) \subseteq Clients /\ Holders(s)' \subseteq Clients
      BY DEF Holders
    <2> QED BY <2>1, <2>2, <2>3, <2>4, <2>5
  <1>9. /\ IsFiniteSet(Holders(r)') /\ Cardinality(Holders(r)') \in Nat
        /\ Cardinality(Holders(r)') = Cardinality(Holders(r)) - 1
        /\ Cardinality(Holders(r)) \in Nat /\ Cardinality(Holders(r)) <= refs[r]
        /\ refs[r] \in Nat
    <2>1. /\ IsFiniteSet(Holders(r)) /\ Cardinality(Holders(r)) <= refs[r] /\ refs[r] \in Nat
          /\ Holders(r)' = Holders(r) \ {c} /\ c \in Holders(r)
      BY <1>0, <1>1, <1>8 DEF HoldersAreCounted, RegistryTypeOK
    <2>2. /\ IsFiniteSet(Holders(r) \ {c})
          /\ Cardinality(Holders(r) \ {c}) = Cardinality(Holders(r)) - 1
      BY <2>1, FS_RemoveElement
    <2>3. Cardinality(Holders(r)) \in Nat /\ Cardinality(Holders(r) \ {c}) \in Nat
      BY <2>1, <2>2, FS_CardinalityType
    <2> QED BY <2>1, <2>2, <2>3
  <1>10. HoldersAreCounted'
    <2> SUFFICES ASSUME NEW s \in Registries
                 PROVE  IsFiniteSet(Holders(s)') /\ Cardinality(Holders(s)') <= refs'[s]
      BY DEF HoldersAreCounted
    <2>1. CASE s # r
      <3>1. Holders(s)' = Holders(s) /\ refs'[s] = refs[s]
        BY <1>8, <2>1
      <3> QED BY <1>0, <3>1 DEF HoldersAreCounted
    <2>2. CASE s = r
      <3>1. refs'[r] = IF refs[r] <= 1 THEN 0 ELSE refs[r] - 1
        BY <1>0, <1>1 DEF RegistryTypeOK
      <3>2. Cardinality(Holders(r)') <= refs'[r]
        BY <1>9, <3>1
      <3> QED BY <1>9, <2>2, <3>2
    <2> QED BY <2>1, <2>2
  <1>11. NobodyHoldsTheDead'
    <2> SUFFICES ASSUME NEW s \in Edits, Dead(s)'
                 PROVE  s < loaded /\ Holders(s)' = {}
      BY <1>1 DEF NobodyHoldsTheDead
    <2>1. s \in Registries /\ s # Nil
      BY NilIsNoRegistry
    <2>2. Dead(s) \/ (last /\ s = r)
      BY <1>1, <1>3, <1>4, <2>1 DEF Dead
    <2>3. CASE Dead(s)
      <3>1. s < loaded /\ Holders(s) = {}
        BY <1>0, <2>3 DEF NobodyHoldsTheDead
      <3> QED BY <1>8, <2>1, <3>1
    <2>4. CASE last /\ s = r
      <3>1. Cardinality(Holders(r)') = 0
        BY <1>2, <1>9, <2>4
      <3>2. Holders(r)' = {}
        BY <1>9, <3>1, FS_EmptySet
      <3> QED BY <1>2, <2>4, <3>2
    <2> QED BY <2>2, <2>3, <2>4
  <1>12. RegistryInv'
    BY <1>5, <1>6, <1>7, <1>10, <1>11 DEF RegistryInv
  <1> QED BY <1>3, <1>4, <1>12

\* A cancelled task leaves its reference counted.
LEMMA CancelStep ==
    ASSUME RegistryInv, NEW c \in Clients, Cancel(c)
    PROVE  /\ RegistryInv' /\ \A d \in Clients \ {c} : lease'[d] = lease[d]
           /\ lease'[c] = NoLease
  <1>0. RegistryTypeOK /\ LeaseShape /\ CacheShape
    BY DEF RegistryInv
  <1>1. /\ UNCHANGED <<rows, cached, loaded, expired, refs, retired>>
        /\ faults < MaxFaults /\ faults' = faults + 1
        /\ lease' = [lease EXCEPT ![c] = NoLease]
        /\ closed' \subseteq closed \cup ({lease[c].drop} \ {Nil})
        /\ leaked' = leaked \cup ({lease[c].reg, lease[c].drop} \ {Nil})
    BY DEF Cancel
  <1>2. lease'[c] = NoLease /\ \A d \in Clients \ {c} : lease'[d] = lease[d]
    BY <1>0, <1>1 DEF RegistryTypeOK
  <1>3. lease[c] \in Lease /\ lease[c].drop \in Edits \cup {Nil}
    <2>1. lease[c] \in Lease
      BY <1>0 DEF RegistryTypeOK
    <2> QED BY <1>0, <2>1 DEF LeaseShape, Lease
  <1>4. RegistryTypeOK'
    <2>1. lease' \in [Clients -> Lease]
      BY <1>0, <1>1 DEF RegistryTypeOK, NoLease, Lease
    <2>2. closed' \subseteq Edits
      BY <1>0, <1>1, <1>3 DEF RegistryTypeOK
    <2>3. leaked' \subseteq Registries
      BY <1>0, <1>1, <1>3 DEF RegistryTypeOK, Lease
    <2>4. faults' \in 0..MaxFaults
      BY <1>0, <1>1, RegistryAssumption DEF RegistryTypeOK
    <2> QED BY <1>0, <1>1, <2>1, <2>2, <2>3, <2>4 DEF RegistryTypeOK
  <1>5. LeaseShape'
    BY <1>0, <1>2 DEF LeaseShape, NoLease
  <1>6. \A r \in Registries : Holders(r)' \subseteq Holders(r)
    BY <1>2 DEF Holders, NoLease
  <1>7. ASSUME NEW r \in Edits, Dead(r)' PROVE Dead(r)
    <2>1. r # Nil
      BY NilIsNoRegistry
    <2> QED BY <1>1, <1>2, <1>7, <2>1 DEF Dead, NoLease
  <1>8. loaded <= rows'.edit
    BY <1>0, <1>1 DEF CacheShape
  <1>9. RegistryInv'
    BY <1>1, <1>4, <1>5, <1>6, <1>7, <1>8, HeldByFewer
  <1> QED BY <1>2, <1>9

\* Steps that move no lease.
LEMMA QuietStep ==
    ASSUME RegistryInv, UNCHANGED <<cached, loaded, refs, retired, closed, lease, leaked>>,
           rows' = rows \/ Edit, expired' \in BOOLEAN, faults' \in 0..MaxFaults
    PROVE  RegistryInv'
  <1>0. RegistryTypeOK /\ LeaseShape /\ CacheShape
    BY DEF RegistryInv
  <1>1. rows' \in [edit : Edits, kind : RowsKind] /\ rows.edit <= rows'.edit
    <2>1. rows.edit \in Int /\ rows.edit >= 1
      BY <1>0, RegistryAssumption DEF RegistryTypeOK, Edits
    <2>2. CASE rows' = rows
      BY <1>0, <2>1, <2>2 DEF RegistryTypeOK
    <2>3. CASE Edit
      <3>1. PICK kind \in RowsKind : rows' = [edit |-> rows.edit + 1, kind |-> kind]
        BY <2>3 DEF Edit
      <3>2. rows.edit + 1 \in Edits
        BY <2>1, <2>3, RegistryAssumption DEF Edit, Edits
      <3> QED BY <2>1, <3>1, <3>2
    <2> QED BY <2>2, <2>3
  <1>2. RegistryTypeOK'
    BY <1>0, <1>1 DEF RegistryTypeOK
  <1>3. loaded <= rows'.edit
    <2>1. loaded \in Int /\ rows.edit \in Int /\ rows'.edit \in Int
      BY <1>0, <1>1, RegistryAssumption DEF RegistryTypeOK, Edits
    <2> QED BY <1>0, <1>1, <2>1 DEF CacheShape
  <1>4. LeaseShape'
    BY <1>0 DEF LeaseShape
  <1>5. \A r : Holders(r)' = Holders(r) /\ (Dead(r)' <=> Dead(r))
    BY DEF Holders, Dead
  <1> QED BY <1>2, <1>3, <1>4, <1>5, HeldByFewer

-----------------------------------------------------------------------------
(***************************************************************************)
(* The calls.  A call that streams holds the registry of its route.  What  *)
(* was shown is the output of the current attempt, and the usage is what   *)
(* that attempt reported; before its record is written a call has none.    *)
(***************************************************************************)

Mine(c) == {r \in ledger : r.client = c}

StreamOK(c) ==
    call[c].step \in {"attempt", "record", "commit"} =>
        lease[c].at = "held" /\ lease[c].reg \in Edits /\ call[c].route = lease[c].reg

OutputOK(c) ==
    /\ call[c].shown = IF call[c].produced THEN {call[c].attempt} ELSE {}
    /\ \A a \in Attempts \ call[c].shown : upstream[c][a] = 0
    /\ call[c].usage = upstream[c][call[c].attempt]

MeterOK(c) ==
    /\ call[c].step \in {"resolve", "validate", "stream", "attempt", "record"} =>
          Mine(c) = {} /\ counted[c] = 0 /\ call[c].status \in {"ok", "error"}
    /\ call[c].step = "record" => Metered(c)
    /\ call[c].step = "commit" =>
          /\ counted[c] = 0 /\ c \in Chats /\ call[c].status \in {"ok", "error"}
          /\ ~call[c].cut => Mine(c) # {}
    /\ call[c].step \in {"release", "done"} /\ Metered(c) /\ ~call[c].cut =>
          Mine(c) # {} /\ (c \in Chats => counted[c] = call[c].usage)
    /\ ~Metered(c) => Mine(c) = {} /\ counted[c] = 0
    /\ counted[c] \in {0, call[c].usage}
    /\ Mine(c) \subseteq {Entry(c)}

CallInv(c) == StreamOK(c) /\ OutputOK(c) /\ MeterOK(c)
CallsInv == CallsTypeOK /\ RegistryInv /\ \A c \in Clients : CallInv(c)

LEMMA CallsInvInit == Init => CallsInv
  <1> SUFFICES ASSUME Init PROVE CallsInv
    OBVIOUS
  <1>1. RegistryInv
    BY RegistryInvInit DEF Init
  <1>2. 0 \in Attempts
    BY CallsAssumption DEF Attempts
  <1>3. CallsTypeOK
    BY <1>1, <1>2 DEF CallsTypeOK, RegistryInv, Init, Call, Steps
  <1>4. ASSUME NEW c \in Clients PROVE CallInv(c)
    <2>1. /\ call[c].step \in {"resolve", "stream"} /\ call[c].status = "ok"
          /\ call[c].produced = FALSE /\ call[c].shown = {} /\ call[c].usage = 0
          /\ call[c].attempt = 0
      BY DEF Init
    <2>2. counted[c] = 0 /\ Mine(c) = {} /\ \A a \in Attempts : upstream[c][a] = 0
      BY DEF Init, Mine
    <2> QED BY <1>2, <2>1, <2>2 DEF CallInv, StreamOK, OutputOK, MeterOK, Metered
  <1> QED BY <1>1, <1>3, <1>4 DEF CallsInv

\* A step of one client says nothing of the others.
LEMMA StepOfClient ==
    ASSUME CallsInv, RegistryInv', NEW c \in Clients,
           call' \in [Clients -> Call], counted' \in [Clients -> Nat],
           upstream' \in [Clients -> [Attempts -> Nat]], ledger' \subseteq Record,
           \A d \in Clients \ {c} :
                /\ call'[d] = call[d] /\ lease'[d] = lease[d] /\ Mine(d)' = Mine(d)
                /\ counted'[d] = counted[d] /\ upstream'[d] = upstream[d],
           CallInv(c)'
    PROVE  CallsInv'
  <1>1. ASSUME NEW d \in Clients \ {c} PROVE CallInv(d)'
    <2>1. CallInv(d)
      BY DEF CallsInv
    <2>2. Entry(d)' = Entry(d)
      BY DEF Entry
    <2>3. StreamOK(d)'
      BY <2>1 DEF CallInv, StreamOK
    <2>4. OutputOK(d)'
      BY <2>1 DEF CallInv, OutputOK
    <2>5. MeterOK(d)'
      BY <2>1, <2>2 DEF CallInv, MeterOK, Metered
    <2> QED BY <2>3, <2>4, <2>5 DEF CallInv
  <1>2. CallsTypeOK'
    BY DEF CallsTypeOK, RegistryInv
  <1> QED BY <1>1, <1>2 DEF CallsInv

\* The steps before the record is written: the books stay, whatever the call becomes.
LEMMA StepBeforeRecord ==
    ASSUME CallsInv, RegistryInv', NEW c \in Clients, NEW new \in Call,
           call' = [call EXCEPT ![c] = new], UNCHANGED <<ledger, counted>>,
           upstream' \in [Clients -> [Attempts -> Nat]],
           \A d \in Clients \ {c} : lease'[d] = lease[d] /\ upstream'[d] = upstream[d],
           call[c].step \in {"resolve", "validate", "stream", "attempt"},
           StreamOK(c)', OutputOK(c)',
           \/ /\ new.step \in {"resolve", "validate", "stream", "attempt"}
              /\ new.status \in {"ok", "error"}
           \/ /\ new.step = "record" /\ new.status \in {"ok", "error"}
              /\ c \in Chats \/ new.status = "ok"
           \/ new.step = "release" /\ new.status = "error" /\ c \notin Chats
           \/ new.step = "done" /\ new.status = "none"
    PROVE  CallsInv'
  <1>1. /\ call'[c] = new /\ call' \in [Clients -> Call]
        /\ \A d \in Clients \ {c} : call'[d] = call[d]
    BY DEF CallsInv, CallsTypeOK
  <1>2. \A d : Mine(d)' = Mine(d)
    BY DEF Mine
  <1>3. Mine(c) = {} /\ counted[c] = 0
    BY DEF CallsInv, CallInv, MeterOK
  <1>4. MeterOK(c)'
    BY <1>1, <1>2, <1>3 DEF MeterOK, Metered
  <1> QED
    BY <1>1, <1>2, <1>4, StepOfClient DEF CallInv, CallsInv, CallsTypeOK

\* The leases a handler takes and gives back before it streams.
LEMMA LeasingStep ==
    ASSUME CallsInv, NEW c \in Clients,
           TakeLease(c) \/ CloseReplaced(c) \/ ResolveModel(c) \/ ValidateChatRequest(c)
             \/ NoRoute(c)
    PROVE  CallsInv'
  <1>0. RegistryInv /\ CallsTypeOK /\ call[c] \in Call /\ CallInv(c)
    BY DEF CallsInv, CallsTypeOK
  <1>1. ASSUME UNCHANGED callVars, RegistryInv',
               \A d \in Clients \ {c} : lease'[d] = lease[d],
               call[c].step \notin {"attempt", "record", "commit"}
        PROVE  CallsInv'
    <2>1. \A d : Mine(d)' = Mine(d)
      BY <1>1 DEF Mine, callVars
    <2>2. Entry(c)' = Entry(c)
      BY <1>1 DEF Entry, callVars
    <2>3. CallInv(c)'
      BY <1>0, <1>1, <2>1, <2>2
         DEF CallInv, StreamOK, OutputOK, MeterOK, Metered, callVars
    <2> QED BY <1>0, <1>1, <2>1, <2>3, StepOfClient DEF callVars, CallsTypeOK
  <1>2. CASE TakeLease(c)
    <2>1. RegistryInv' /\ \A d \in Clients \ {c} : lease'[d] = lease[d]
      BY <1>0, <1>2, AcquireStep DEF TakeLease
    <2> QED BY <1>1, <1>2, <2>1 DEF TakeLease
  <1>3. CASE CloseReplaced(c)
    <2>1. /\ RegistryInv' /\ \A d \in Clients \ {c} : lease'[d] = lease[d]
          /\ lease[c].at \in {"swap", "last"}
      BY <1>0, <1>3, CloseStep DEF CloseReplaced
    <2>2. call[c].step \notin {"attempt", "record", "commit"}
      BY <1>0, <2>1 DEF CallInv, StreamOK
    <2> QED BY <1>1, <1>3, <2>1, <2>2 DEF CloseReplaced
  <1>4. ASSUME NEW step \in {"validate", "stream", "done"}, NEW status, NEW sent,
               sent \in Edits \cup {Nil},
               IF step = "done" THEN status = "none" ELSE status = "ok",
               call' = [call EXCEPT ![c] = [call[c] EXCEPT !.step = step, !.status = status,
                                                           !.sent = sent]],
               call[c].step \in {"resolve", "validate", "stream"},
               Release(c), BooksUnchanged
        PROVE  CallsInv'
    <2> DEFINE new == [call[c] EXCEPT !.step = step, !.status = status, !.sent = sent]
    <2>1. RegistryInv' /\ \A d \in Clients \ {c} : lease'[d] = lease[d]
      BY <1>0, <1>4, ReleaseStep
    <2>2. /\ new \in Call /\ new.step = step /\ new.status = status
          /\ new.shown = call[c].shown /\ new.produced = call[c].produced
          /\ new.usage = call[c].usage /\ new.attempt = call[c].attempt
      BY <1>0, <1>4 DEF Call, Steps
    <2>3. call'[c] = new
      BY <1>0, <1>4 DEF CallsTypeOK
    <2>4. StreamOK(c)' /\ OutputOK(c)'
      BY <1>0, <1>4, <2>2, <2>3 DEF CallInv, StreamOK, OutputOK, BooksUnchanged
    <2> HIDE DEF new
    <2>5. upstream' \in [Clients -> [Attempts -> Nat]]
      BY <1>0, <1>4 DEF CallsTypeOK, BooksUnchanged
    <2>6. call' = [call EXCEPT ![c] = new]
      BY <1>4 DEF new
    <2> QED
      BY <1>4, <2>1, <2>2, <2>4, <2>5, <2>6, StepBeforeRecord DEF BooksUnchanged
  <1>5. lease[c].reg \in Registries \cup {Nil}
    BY <1>0 DEF CallsTypeOK, RegistryTypeOK, Lease
  <1>6. CASE ResolveModel(c)
    <2> DEFINE step == IF Routed(c) THEN "validate" ELSE "done"
               status == IF Routed(c) THEN "ok" ELSE "none"
               sent == IF Routed(c) THEN lease[c].reg ELSE Nil
    <2>1. call' = [call EXCEPT ![c] = [call[c] EXCEPT !.step = step, !.status = status,
                                                      !.sent = sent]]
      BY <1>0, <1>6 DEF ResolveModel, Call, CallsTypeOK
    <2>2. sent \in Edits \cup {Nil}
      BY <1>5 DEF Routed, Registries
    <2>3. step \in {"validate", "stream", "done"}
          /\ (IF step = "done" THEN status = "none" ELSE status = "ok")
      OBVIOUS
    <2>4. Release(c) /\ BooksUnchanged /\ call[c].step \in {"resolve", "validate", "stream"}
      BY <1>6 DEF ResolveModel, Holds
    <2> HIDE DEF step, status, sent
    <2> QED BY <1>4, <2>1, <2>2, <2>3, <2>4
  <1>7. CASE ValidateChatRequest(c)
    <2> DEFINE step == IF Routed(c) THEN "stream" ELSE "done"
               status == IF Routed(c) THEN "ok" ELSE "none"
               sent == call[c].sent
    <2>1. call' = [call EXCEPT ![c] = [call[c] EXCEPT !.step = step, !.status = status,
                                                      !.sent = sent]]
      BY <1>0, <1>7 DEF ValidateChatRequest, Call, CallsTypeOK
    <2>2. sent \in Edits \cup {Nil}
      BY <1>0 DEF Call
    <2>3. step \in {"validate", "stream", "done"}
          /\ (IF step = "done" THEN status = "none" ELSE status = "ok")
      OBVIOUS
    <2>4. Release(c) /\ BooksUnchanged /\ call[c].step \in {"resolve", "validate", "stream"}
      BY <1>7 DEF ValidateChatRequest, Holds
    <2> HIDE DEF step, status, sent
    <2> QED BY <1>4, <2>1, <2>2, <2>3, <2>4
  <1>8. CASE NoRoute(c)
    <2>1. call' = [call EXCEPT ![c] = [call[c] EXCEPT !.step = "done", !.status = "none",
                                                      !.sent = call[c].sent]]
      BY <1>0, <1>8 DEF NoRoute, Call, CallsTypeOK
    <2>2. call[c].sent \in Edits \cup {Nil}
      BY <1>0 DEF Call
    <2>3. Release(c) /\ BooksUnchanged /\ call[c].step \in {"resolve", "validate", "stream"}
      BY <1>8 DEF NoRoute, Holds
    <2> QED BY <1>4, <2>1, <2>2, <2>3
  <1> QED BY <1>2, <1>3, <1>6, <1>7, <1>8

\* The steps of a stream: the lease stays, the books but for upstream too.
LEMMA StreamingStep ==
    ASSUME CallsInv, NEW c \in Clients, BeginStream(c) \/ Provider(c)
    PROVE  CallsInv'
  <1>0. RegistryInv /\ CallsTypeOK /\ CallInv(c)
    BY DEF CallsInv
  <1>1. call[c] \in Call /\ upstream[c] \in [Attempts -> Nat]
    BY <1>0 DEF CallsTypeOK
  <1>2. call[c].attempt \in Attempts /\ call[c].usage \in Nat /\ call[c].produced \in BOOLEAN
        /\ call[c].shown \in SUBSET Attempts
    BY <1>1 DEF Call
  <1>3. ASSUME NEW new \in Call, call' = [call EXCEPT ![c] = new],
               UNCHANGED <<registryVars, ledger, counted>>,
               upstream' \in [Clients -> [Attempts -> Nat]],
               \A d \in Clients \ {c} : upstream'[d] = upstream[d],
               call[c].step \in {"stream", "attempt"},
               new.step \in {"attempt", "record"} =>
                    lease[c].at = "held" /\ lease[c].reg \in Edits /\ new.route = lease[c].reg,
               new.step # "commit",
               new.shown = IF new.produced THEN {new.attempt} ELSE {},
               \A a \in Attempts \ new.shown : upstream'[c][a] = 0,
               new.usage = upstream'[c][new.attempt],
               \/ new.step = "attempt" /\ new.status \in {"ok", "error"}
               \/ /\ new.step = "record" /\ new.status \in {"ok", "error"}
                  /\ c \in Chats \/ new.status = "ok"
               \/ new.step = "release" /\ new.status = "error" /\ c \notin Chats
        PROVE  CallsInv'
    <2>1. RegistryInv'
      <3>1. expired' \in BOOLEAN /\ faults' \in 0..MaxFaults
        BY <1>0, <1>3 DEF registryVars, CallsTypeOK, RegistryTypeOK
      <3> QED BY <1>0, <1>3, <3>1, QuietStep DEF registryVars
    <2>2. call'[c] = new /\ lease' = lease
      BY <1>0, <1>3 DEF CallsTypeOK, registryVars
    <2>3. StreamOK(c)' /\ OutputOK(c)'
      BY <1>3, <2>2 DEF StreamOK, OutputOK
    <2> QED BY <1>3, <2>1, <2>2, <2>3, StepBeforeRecord
  <1>4. call[c].step = "attempt" =>
            lease[c].at = "held" /\ lease[c].reg \in Edits /\ call[c].route = lease[c].reg
    BY <1>0 DEF CallInv, StreamOK
  <1>5. /\ call[c].shown = IF call[c].produced THEN {call[c].attempt} ELSE {}
        /\ \A a \in Attempts \ call[c].shown : upstream[c][a] = 0
        /\ call[c].usage = upstream[c][call[c].attempt]
    BY <1>0 DEF CallInv, OutputOK
  <1>6. ASSUME call[c].step = "attempt" PROVE call[c].status \in {"ok", "error"}
    BY <1>0, <1>6 DEF CallInv, MeterOK
  <1>7. upstream \in [Clients -> [Attempts -> Nat]]
    BY <1>0 DEF CallsTypeOK
  <1>8. CASE BeginStream(c)
    <2> DEFINE new == [call[c] EXCEPT !.step = "attempt", !.route = lease[c].reg,
                                      !.sent = IF c \in Chats THEN @ ELSE lease[c].reg]
    <2>1. /\ Holds(c, "stream") /\ Routed(c) /\ UNCHANGED registryVars /\ BooksUnchanged
          /\ call' = [call EXCEPT ![c] = new]
      BY <1>0, <1>8 DEF BeginStream, CallsTypeOK
    <2>2. lease[c].reg \in Edits
      <3>1. lease[c].reg \in Registries
        BY <1>0, <2>1 DEF RegistryInv, LeaseShape, Holds
      <3> QED BY <2>1, <3>1 DEF Routed, Registries
    <2>3. /\ new \in Call /\ new.step = "attempt" /\ new.route = lease[c].reg
          /\ new.shown = call[c].shown /\ new.produced = call[c].produced
          /\ new.usage = call[c].usage /\ new.attempt = call[c].attempt
          /\ new.status = call[c].status
      BY <1>1, <2>2 DEF Call, Steps
    <2>4. call[c].status \in {"ok", "error"} /\ call[c].step = "stream" /\ lease[c].at = "held"
      BY <1>0, <2>1 DEF CallInv, MeterOK, Holds
    <2> HIDE DEF new
    <2> QED BY <1>3, <1>5, <1>7, <2>1, <2>2, <2>3, <2>4 DEF BooksUnchanged
  <1>9. CASE MessageStart(c)
    <2> DEFINE new == [call[c] EXCEPT !.produced = TRUE, !.shown = @ \cup {call[c].attempt}]
    <2>1. /\ call[c].step = "attempt" /\ ~call[c].produced
          /\ UNCHANGED registryVars /\ BooksUnchanged
          /\ call' = [call EXCEPT ![c] = new]
      BY <1>0, <1>9 DEF MessageStart, Streaming, Holds, CallsTypeOK
    <2>2. /\ new \in Call /\ new.step = call[c].step /\ new.route = call[c].route
          /\ new.shown = call[c].shown \cup {call[c].attempt} /\ new.produced = TRUE
          /\ new.usage = call[c].usage /\ new.attempt = call[c].attempt
          /\ new.status = call[c].status
      BY <1>1, <1>2 DEF Call
    <2> HIDE DEF new
    <2>3. new.shown = {new.attempt}
      BY <1>5, <2>1, <2>2
    <2>4. \A a \in Attempts \ new.shown : upstream'[c][a] = 0
      BY <1>5, <2>1, <2>2 DEF BooksUnchanged
    <2> QED BY <1>3, <1>4, <1>5, <1>6, <1>7, <2>1, <2>2, <2>3, <2>4 DEF BooksUnchanged
  <1>10. CASE UsageEvent(c)
    <2> DEFINE new == [call[c] EXCEPT !.usage = @ + 1]
    <2>1. /\ call[c].step = "attempt" /\ call[c].produced
          /\ UNCHANGED registryVars /\ UNCHANGED <<ledger, counted>>
          /\ call' = [call EXCEPT ![c] = new]
          /\ upstream' = [upstream EXCEPT ![c][call[c].attempt] = @ + 1]
      BY <1>0, <1>10 DEF UsageEvent, Streaming, Holds, CallsTypeOK
    <2>2. /\ new \in Call /\ new.step = call[c].step /\ new.route = call[c].route
          /\ new.shown = call[c].shown /\ new.produced = call[c].produced
          /\ new.usage = call[c].usage + 1 /\ new.attempt = call[c].attempt
          /\ new.status = call[c].status
      BY <1>1, <1>2 DEF Call
    <2> HIDE DEF new
    <2>3. /\ upstream' \in [Clients -> [Attempts -> Nat]]
          /\ \A d \in Clients \ {c} : upstream'[d] = upstream[d]
          /\ upstream'[c] = [upstream[c] EXCEPT ![call[c].attempt] = @ + 1]
      BY <1>1, <1>2, <1>7, <2>1
    <2>4. /\ upstream'[c][new.attempt] = new.usage
          /\ \A a \in Attempts \ new.shown : upstream'[c][a] = 0
      <3>1. call[c].shown = {call[c].attempt}
        BY <1>5, <2>1
      <3>2. /\ upstream'[c][call[c].attempt] = upstream[c][call[c].attempt] + 1
            /\ \A a \in Attempts \ {call[c].attempt} : upstream'[c][a] = upstream[c][a]
        BY <1>1, <1>2, <2>3
      <3>3. upstream'[c][new.attempt] = new.usage
        BY <1>5, <2>2, <3>2
      <3>4. \A a \in Attempts \ new.shown : upstream'[c][a] = 0
        BY <1>5, <2>2, <3>1, <3>2
      <3> QED BY <3>3, <3>4
    <2>5. /\ new.step = "attempt" /\ new.status \in {"ok", "error"}
          /\ lease[c].at = "held" /\ lease[c].reg \in Edits /\ new.route = lease[c].reg
      BY <1>4, <1>6, <2>1, <2>2
    <2>6. new.shown = IF new.produced THEN {new.attempt} ELSE {}
      BY <1>5, <2>1, <2>2
    <2> QED BY <1>3, <2>1, <2>2, <2>3, <2>4, <2>5, <2>6
  <1>11. ASSUME NEW status \in {"ok", "error"}, Streaming(c),
                call' = [call EXCEPT ![c] = Ended(c, status)],
                UNCHANGED registryVars, BooksUnchanged
         PROVE  CallsInv'
    <2> DEFINE new == Ended(c, status)
    <2>1. /\ new \in Call /\ new.route = call[c].route
          /\ new.shown = call[c].shown /\ new.produced = call[c].produced
          /\ new.usage = call[c].usage /\ new.attempt = call[c].attempt
          /\ \/ /\ new.step = "record" /\ new.status = status
                /\ c \in Chats \/ status = "ok"
             \/ new.step = "release" /\ new.status = "error" /\ c \notin Chats
      BY <1>1 DEF Ended, Call, Steps
    <2>2. call[c].step = "attempt"
      BY <1>11 DEF Streaming, Holds
    <2> HIDE DEF new
    <2>3. call' = [call EXCEPT ![c] = new]
      BY <1>11 DEF new
    <2> QED BY <1>3, <1>4, <1>5, <1>6, <1>7, <1>11, <2>1, <2>2, <2>3 DEF BooksUnchanged
  <1>12. CASE Retry(c)
    <2> DEFINE new == [call[c] EXCEPT !.attempt = @ + 1, !.produced = FALSE]
    <2>1. /\ call[c].step = "attempt" /\ ~call[c].produced /\ call[c].attempt < MaxRetries
          /\ UNCHANGED registryVars /\ BooksUnchanged
          /\ call' = [call EXCEPT ![c] = new]
      BY <1>0, <1>12 DEF Retry, Retriable, Streaming, Holds, CallsTypeOK
    <2>2. call[c].attempt + 1 \in Attempts
      BY <1>2, <2>1, CallsAssumption DEF Attempts
    <2>3. /\ new \in Call /\ new.step = call[c].step /\ new.route = call[c].route
          /\ new.shown = call[c].shown /\ new.produced = FALSE
          /\ new.usage = call[c].usage /\ new.attempt = call[c].attempt + 1
          /\ new.status = call[c].status
      BY <1>1, <2>2 DEF Call
    <2> HIDE DEF new
    <2>4. call[c].shown = {}
      BY <1>5, <2>1
    <2>5. \A a \in Attempts : upstream[c][a] = 0
      BY <1>5, <2>4
    <2>6. new.usage = upstream'[c][new.attempt]
      BY <1>2, <1>5, <2>1, <2>2, <2>3, <2>5 DEF BooksUnchanged
    <2> QED BY <1>3, <1>4, <1>6, <1>7, <2>1, <2>3, <2>4, <2>5, <2>6 DEF BooksUnchanged
  <1>13. CASE StreamEnds(c)
    BY <1>11, <1>13 DEF StreamEnds
  <1>14. CASE StreamFails(c)
    BY <1>11, <1>14 DEF StreamFails
  <1>15. CASE TextDelta(c)
    <2> DEFINE new == [call[c] EXCEPT !.text = TRUE]
    <2>1. /\ call[c].step = "attempt" /\ UNCHANGED registryVars /\ BooksUnchanged
          /\ call' = [call EXCEPT ![c] = new]
      BY <1>0, <1>15 DEF TextDelta, Streaming, Holds, CallsTypeOK
    <2>2. /\ new \in Call /\ new.step = call[c].step /\ new.route = call[c].route
          /\ new.shown = call[c].shown /\ new.produced = call[c].produced
          /\ new.usage = call[c].usage /\ new.attempt = call[c].attempt
          /\ new.status = call[c].status
      BY <1>1 DEF Call
    <2> HIDE DEF new
    <2> QED BY <1>3, <1>4, <1>5, <1>6, <1>7, <2>1, <2>2 DEF BooksUnchanged
  <1> QED BY <1>8, <1>9, <1>10, <1>12, <1>13, <1>14, <1>15 DEF Provider

\* The finally block, and what is left of it when the task is cancelled.
LEMMA MeteringStep ==
    ASSUME CallsInv, NEW c \in Clients,
           WriteRecord(c) \/ CommitQuota(c) \/ CancelMetering(c)
    PROVE  CallsInv'
  <1>0. RegistryInv /\ CallsTypeOK /\ CallInv(c)
    BY DEF CallsInv
  <1>1. call[c] \in Call
    BY <1>0 DEF CallsTypeOK
  <1>2. call[c].usage \in Nat /\ call[c].cut \in BOOLEAN
    BY <1>1 DEF Call
  <1>3. faults \in 0..MaxFaults /\ expired \in BOOLEAN /\ counted[c] \in Nat
    BY <1>0 DEF CallsTypeOK, RegistryTypeOK
  <1>4. ASSUME faults' = faults \/ (faults < MaxFaults /\ faults' = faults + 1),
               UNCHANGED <<rows, cached, loaded, expired, refs, retired, closed, lease, leaked>>
        PROVE  RegistryInv' /\ lease' = lease
    <2>1. faults' \in 0..MaxFaults
      BY <1>3, <1>4, RegistryAssumption
    <2> QED BY <1>0, <1>3, <1>4, <2>1, QuietStep
  <1>5. ASSUME NEW step \in {"commit", "release"}, NEW cut \in BOOLEAN, RegistryInv',
               lease' = lease, UNCHANGED upstream,
               call' = [call EXCEPT ![c].step = step, ![c].cut = cut],
               step = "commit" => call[c].step = "record",
               call[c].step \in {"record", "commit"},
               ledger' = ledger \/ (ledger' = ledger \cup {Entry(c)} /\ call[c].step = "record"),
               counted' \in [Clients -> Nat],
               \A d \in Clients \ {c} : counted'[d] = counted[d],
               MeterOK(c)'
        PROVE  CallsInv'
    <2> DEFINE new == [call[c] EXCEPT !.step = step, !.cut = cut]
    <2>1. /\ new \in Call /\ new.step = step /\ new.route = call[c].route
          /\ new.shown = call[c].shown /\ new.produced = call[c].produced
          /\ new.usage = call[c].usage /\ new.attempt = call[c].attempt
      BY <1>1 DEF Call, Steps
    <2>2. call' = [call EXCEPT ![c] = new]
      BY <1>0, <1>5 DEF CallsTypeOK
    <2> HIDE DEF new
    <2>3. /\ call'[c] = new /\ call' \in [Clients -> Call]
          /\ \A d \in Clients \ {c} : call'[d] = call[d]
      BY <1>0, <2>1, <2>2 DEF CallsTypeOK
    <2>4. StreamOK(c)' /\ OutputOK(c)'
      BY <1>0, <1>5, <2>1, <2>3 DEF CallInv, StreamOK, OutputOK
    <2>5. Entry(c).client = c
      BY DEF Entry
    <2>6. \A d \in Clients \ {c} : Mine(d)' = Mine(d)
      BY <1>5, <2>5 DEF Mine
    <2>7. ledger' \subseteq Record
      <3>1. CASE call[c].step = "record"
        <4>1. call[c].route \in Edits /\ call[c].status \in {"ok", "error"}
          BY <1>0, <3>1 DEF CallInv, StreamOK, MeterOK
        <4>2. Entry(c) \in Record
          BY <1>2, <4>1 DEF Entry, Record
        <4> QED BY <1>0, <1>5, <4>2 DEF CallsTypeOK
      <3>2. CASE call[c].step # "record"
        BY <1>0, <1>5, <3>2 DEF CallsTypeOK
      <3> QED BY <3>1, <3>2
    <2>8. CallInv(c)'
      BY <1>5, <2>4 DEF CallInv
    <2>9. upstream' \in [Clients -> [Attempts -> Nat]]
      BY <1>0, <1>5 DEF CallsTypeOK
    <2> QED BY <1>5, <2>3, <2>6, <2>7, <2>8, <2>9, StepOfClient
  <1>6. ASSUME NEW step, NEW cut \in BOOLEAN,
               call' = [call EXCEPT ![c].step = step, ![c].cut = cut]
        PROVE  /\ call'[c].step = step /\ call'[c].cut = cut
               /\ call'[c].status = call[c].status /\ call'[c].usage = call[c].usage
               /\ Entry(c)' = Entry(c)
    <2>1. call'[c] = [call[c] EXCEPT !.step = step, !.cut = cut]
      BY <1>0, <1>6 DEF CallsTypeOK
    <2>2. /\ call'[c].step = step /\ call'[c].cut = cut
          /\ call'[c].status = call[c].status /\ call'[c].usage = call[c].usage
          /\ call'[c].route = call[c].route
      BY <1>1, <2>1 DEF Call
    <2> QED BY <2>2 DEF Entry
  <1>7. /\ call[c].step = "record" => Mine(c) = {} /\ counted[c] = 0
        /\ call[c].step = "commit" => counted[c] = 0 /\ c \in Chats
        /\ call[c].step = "commit" /\ ~call[c].cut => Mine(c) # {}
        /\ call[c].step \in {"record", "commit"} => call[c].status \in {"ok", "error"}
        /\ call[c].step = "record" => c \in Chats \/ call[c].status = "ok"
        /\ Mine(c) \subseteq {Entry(c)}
    BY <1>0 DEF CallInv, MeterOK, Metered
  <1>8. CASE WriteRecord(c)
    <2> DEFINE step == IF c \in Chats THEN "commit" ELSE "release"
    <2>1. PICK cut \in BOOLEAN : cut <=> ledger' = ledger
      OBVIOUS
    <2>2. /\ call' = [call EXCEPT ![c].step = step, ![c].cut = cut]
          /\ call[c].step = "record"
          /\ UNCHANGED <<rows, cached, loaded, expired, refs, retired, closed, lease, leaked,
                         counted, upstream>>
          /\ faults' = faults \/ (faults < MaxFaults /\ faults' = faults + 1)
          /\ ledger' = ledger \/ ledger' = ledger \cup {Entry(c)}
      <3>1. cut = (ledger' = ledger)
        BY <2>1
      <3> QED BY <1>8, <3>1 DEF WriteRecord, Holds
    <2>3. RegistryInv' /\ lease' = lease
      BY <1>4, <2>2
    <2>4. step \in {"commit", "release"} /\ (step = "release" <=> c \notin Chats)
      OBVIOUS
    <2> HIDE DEF step
    <2>5. /\ call'[c].step = step /\ call'[c].cut = cut
          /\ call'[c].status = call[c].status /\ call'[c].usage = call[c].usage
          /\ Entry(c)' = Entry(c)
      BY <1>6, <2>2
    <2>6. Mine(c) = {} /\ counted[c] = 0 /\ counted'[c] = 0
      BY <1>7, <2>2
    <2>7. /\ Mine(c)' \subseteq {Entry(c)}
          /\ ~cut => Mine(c)' # {}
      <3>1. Entry(c).client = c
        BY DEF Entry
      <3> QED BY <2>1, <2>2, <2>6, <3>1 DEF Mine
    <2>8. call[c].status \in {"ok", "error"} /\ (c \in Chats \/ call[c].status = "ok")
      BY <1>7, <2>2
    <2>9. MeterOK(c)'
      BY <2>4, <2>5, <2>6, <2>7, <2>8 DEF MeterOK, Metered
    <2>10. counted' \in [Clients -> Nat] /\ \A d \in Clients \ {c} : counted'[d] = counted[d]
      BY <1>0, <2>2 DEF CallsTypeOK
    <2> QED BY <1>5, <2>2, <2>3, <2>4, <2>9, <2>10
  <1>9. CASE CommitQuota(c) \/ CancelMetering(c)
    <2>1. PICK cut \in BOOLEAN :
            /\ call' = [call EXCEPT ![c].step = "release", ![c].cut = cut]
            /\ \/ counted' = counted /\ cut = TRUE
               \/ /\ counted' = [counted EXCEPT ![c] = @ + call[c].usage]
                  /\ call[c].step = "commit"
                  /\ cut <=> call[c].cut
      <3>1. CASE CancelMetering(c)
        BY <3>1 DEF CancelMetering, BooksUnchanged
      <3>2. CASE CommitQuota(c)
        <4>1. PICK cut \in BOOLEAN : cut <=> call[c].cut \/ faults' # faults
          OBVIOUS
        <4>2. call' = [call EXCEPT ![c].step = "release", ![c].cut = cut]
          <5>1. cut = (call[c].cut \/ faults' # faults)
            BY <1>2, <4>1
          <5>2. call' = [call EXCEPT ![c].step = "release",
                                     ![c].cut = call[c].cut \/ faults' # faults]
            BY <1>0, <1>1, <3>2 DEF CommitQuota, CallsTypeOK, Call
          <5> QED BY <5>1, <5>2
        <4>3. \/ /\ counted' = [counted EXCEPT ![c] = @ + call[c].usage]
                 /\ faults' = faults
              \/ faults' = faults + 1 /\ counted' = counted
          BY <3>2 DEF CommitQuota
        <4>4. call[c].step = "commit"
          BY <3>2 DEF CommitQuota, Holds
        <4>5. faults + 1 # faults
          BY <1>3
        <4> QED BY <4>1, <4>2, <4>3, <4>4, <4>5
      <3> QED BY <1>9, <3>1, <3>2
    <2>2. /\ call[c].step \in {"record", "commit"}
          /\ UNCHANGED <<rows, cached, loaded, expired, refs, retired, closed, lease, leaked,
                         ledger, upstream>>
          /\ faults' = faults \/ (faults < MaxFaults /\ faults' = faults + 1)
      BY <1>9 DEF CommitQuota, CancelMetering, Holds, BooksUnchanged
    <2>3. RegistryInv' /\ lease' = lease
      BY <1>4, <2>2
    <2>4. /\ call'[c].step = "release" /\ call'[c].cut = cut
          /\ call'[c].status = call[c].status /\ call'[c].usage = call[c].usage
          /\ Entry(c)' = Entry(c)
      BY <1>6, <2>1
    <2>5. Mine(c)' = Mine(c)
      BY <2>2 DEF Mine
    <2>6. /\ counted' \in [Clients -> Nat] /\ \A d \in Clients \ {c} : counted'[d] = counted[d]
          /\ \/ counted'[c] = 0 /\ cut = TRUE
             \/ /\ counted'[c] = call[c].usage /\ call[c].step = "commit"
                /\ cut <=> call[c].cut
      BY <1>0, <1>2, <1>7, <2>1, <2>2 DEF CallsTypeOK
    <2>7. call[c].status \in {"ok", "error"} /\ (c \in Chats \/ call[c].status = "ok")
      BY <1>7, <2>2
    <2>8. MeterOK(c)'
      BY <1>7, <2>4, <2>5, <2>6, <2>7 DEF MeterOK, Metered
    <2> QED BY <1>5, <2>1, <2>2, <2>3, <2>6, <2>8
  <1> QED BY <1>8, <1>9

\* The end of a call, and the cancellation of a task that waits for a lease.
LEMMA LeavingStep ==
    ASSUME CallsInv, NEW c \in Clients, EndCall(c) \/ CancelLease(c)
    PROVE  CallsInv'
  <1>0. RegistryInv /\ CallsTypeOK /\ CallInv(c)
    BY DEF CallsInv
  <1>1. call[c] \in Call
    BY <1>0 DEF CallsTypeOK
  <1>2. PICK status \in {"ok", "error", "none"} :
            /\ call' = [call EXCEPT ![c] = [call[c] EXCEPT !.step = "done", !.status = status]]
            /\ status = IF call[c].step \in {"resolve", "validate", "stream"}
                        THEN "none" ELSE call[c].status
            /\ call[c].step \notin {"attempt", "record", "commit"}
            /\ BooksUnchanged
            /\ RegistryInv' /\ \A d \in Clients \ {c} : lease'[d] = lease[d]
    <2>1. CASE EndCall(c)
      <3>1. /\ call[c].step = "release" /\ Release(c) /\ BooksUnchanged
            /\ call' = [call EXCEPT ![c] = [call[c] EXCEPT !.step = "done",
                                                           !.status = call[c].status]]
        BY <1>0, <1>1, <2>1 DEF EndCall, Holds, Goto, Call, CallsTypeOK
      <3>2. call[c].status \in {"ok", "error", "none"}
        BY <1>1 DEF Call
      <3> QED BY <1>0, <3>1, <3>2, ReleaseStep
    <2>2. CASE CancelLease(c)
      <3> DEFINE status == IF call[c].step \in {"resolve", "validate", "stream"}
                           THEN "none" ELSE call[c].status
      <3>1. /\ Cancel(c) /\ BooksUnchanged
            /\ call' = [call EXCEPT ![c] = [call[c] EXCEPT !.step = "done", !.status = status]]
        BY <1>0, <1>1, <2>2 DEF CancelLease, Call, CallsTypeOK
      <3>2. call[c].step \notin {"attempt", "record", "commit"}
        BY <1>0, <2>2 DEF CancelLease, Holds, CallInv, StreamOK
      <3>3. status \in {"ok", "error", "none"}
        BY <1>1 DEF Call
      <3> QED BY <1>0, <3>1, <3>2, <3>3, CancelStep
    <2> QED BY <2>1, <2>2
  <1> DEFINE new == [call[c] EXCEPT !.step = "done", !.status = status]
  <1>3. /\ new \in Call /\ new.step = "done" /\ new.status = status
        /\ new.route = call[c].route /\ new.cut = call[c].cut
        /\ new.shown = call[c].shown /\ new.produced = call[c].produced
        /\ new.usage = call[c].usage /\ new.attempt = call[c].attempt
    BY <1>1 DEF Call, Steps
  <1>4. call' = [call EXCEPT ![c] = new]
    BY <1>2
  <1> HIDE DEF new
  <1>5. /\ call'[c] = new /\ call' \in [Clients -> Call]
        /\ \A d \in Clients \ {c} : call'[d] = call[d]
    BY <1>0, <1>3, <1>4 DEF CallsTypeOK
  <1>6. (\A d : Mine(d)' = Mine(d)) /\ UNCHANGED <<counted, upstream, ledger>>
    BY <1>2 DEF Mine, BooksUnchanged
  <1>7. StreamOK(c)' /\ OutputOK(c)'
    BY <1>0, <1>3, <1>5, <1>6 DEF CallInv, StreamOK, OutputOK
  <1>8. MeterOK(c)'
    <2>1. CASE call[c].step \in {"resolve", "validate", "stream"}
      <3>1. status = "none" /\ Mine(c) = {} /\ counted[c] = 0
        BY <1>0, <1>2, <2>1 DEF CallInv, MeterOK
      <3> QED BY <1>3, <1>5, <1>6, <3>1 DEF MeterOK, Metered
    <2>2. CASE call[c].step \in {"release", "done"}
      <3>1. status = call[c].status
        BY <1>2, <2>2
      <3>2. Entry(c)' = Entry(c)
        BY <1>3, <1>5, <3>1 DEF Entry
      <3> QED BY <1>0, <1>3, <1>5, <1>6, <2>2, <3>1, <3>2 DEF CallInv, MeterOK, Metered
    <2> QED BY <1>1, <1>2, <2>1, <2>2 DEF Call, Steps
  <1> QED
    BY <1>0, <1>2, <1>5, <1>6, <1>7, <1>8, StepOfClient DEF CallInv, CallsTypeOK

LEMMA CallsStep == CallsInv /\ [Next]_vars => CallsInv'
  <1> SUFFICES ASSUME CallsInv, [Next]_vars PROVE CallsInv'
    OBVIOUS
  <1>1. ASSUME NEW c \in Clients, Gateway(c) \/ Provider(c) \/ CancelMetering(c) \/ CancelLease(c)
        PROVE  CallsInv'
    BY <1>1, LeasingStep, StreamingStep, MeteringStep, LeavingStep DEF Gateway
  <1>2. ASSUME UNCHANGED <<callVars, lease>>, RegistryInv' PROVE CallsInv'
    <2>1. CallsTypeOK'
      BY <1>2 DEF CallsInv, CallsTypeOK, callVars, RegistryInv
    <2>2. ASSUME NEW c \in Clients PROVE CallInv(c)'
      <3>1. CallInv(c)
        BY DEF CallsInv
      <3>2. Mine(c)' = Mine(c) /\ Entry(c)' = Entry(c)
        BY <1>2 DEF Mine, Entry, callVars
      <3> QED
        BY <1>2, <3>1, <3>2 DEF CallInv, StreamOK, OutputOK, MeterOK, Metered, callVars
    <2> QED BY <1>2, <2>1, <2>2 DEF CallsInv
  <1>3. RegistryInv /\ faults \in 0..MaxFaults /\ expired \in BOOLEAN
    BY DEF CallsInv, RegistryInv, RegistryTypeOK
  <1>4. CASE Environment
    <2>1. RegistryInv'
      BY <1>3, <1>4, QuietStep DEF Environment, Edit, Age
    <2> QED BY <1>2, <1>4, <2>1 DEF Environment, Edit, Age
  <1>5. CASE UNCHANGED vars
    <2>1. RegistryInv'
      BY <1>3, <1>5, QuietStep DEF vars, registryVars
    <2> QED BY <1>2, <1>5, <2>1 DEF vars, registryVars
  <1> QED BY <1>1, <1>4, <1>5 DEF Next

\* The order of the handler's steps (messages, chat_stream) over the reference counts of
\* acquire_registry and release_registry, through failures, retries and cancellations.
THEOREM CallsHold == Spec => []CallsInv
  BY CallsInvInit, CallsStep, PTL DEF Spec

\* The registries, the calls and the ledger keep their types.
THEOREM CallsTypeCorrect == Spec => []CallsTypeOK
  BY CallsHold, PTL DEF CallsInv

\* No registry is closed under a stream, however often _refresh replaced it and whichever
\* tasks were cancelled in acquire_registry or release_registry.
THEOREM NoStreamIsCutOff == Spec => []StreamsUseOpenRegistries
  <1>1. CallsInv => StreamsUseOpenRegistries
    <2> SUFFICES ASSUME CallsInv, NEW c \in Clients,
                        call[c].step \in {"attempt", "record", "commit"}
                 PROVE  /\ lease[c].at = "held" /\ lease[c].reg \notin closed
                        /\ call[c].route = lease[c].reg
      BY DEF StreamsUseOpenRegistries
    <2>1. lease[c].at = "held" /\ lease[c].reg \in Edits /\ call[c].route = lease[c].reg
      BY DEF CallsInv, CallInv, StreamOK
    <2>2. c \in Holders(lease[c].reg)
      BY <2>1 DEF Holders
    <2> QED BY <2>1, <2>2 DEF CallsInv, RegistryInv, NobodyHoldsTheDead, Dead
  <1> QED BY <1>1, CallsHold, PTL

\* Whatever fails and is retried by the middleware's chat_stream, the client sees the output
\* of one attempt.
THEOREM OneAttemptReachesTheClient == Spec => []OneAttemptIsShown
  <1>1. CallsInv => OneAttemptIsShown
    <2> SUFFICES ASSUME CallsInv, NEW c \in Clients
                 PROVE  /\ Cardinality(call[c].shown) <= 1
                        /\ \A a \in Attempts \ call[c].shown : upstream[c][a] = 0
      BY DEF OneAttemptIsShown
    <2>1. OutputOK(c)
      BY DEF CallsInv, CallInv
    <2>2. call[c].shown = {} \/ call[c].shown = {call[c].attempt}
      BY <2>1 DEF OutputOK
    <2> QED BY <2>1, <2>2, FS_EmptySet, FS_Singleton DEF OutputOK
  <1> QED BY <1>1, CallsHold, PTL

\* What a stream of chat_stream used is recorded once by _write_usage_record and charged once
\* by _commit_quota, unless a write was lost; what a memory call used is recorded once if it
\* brought a text, and else nowhere.
THEOREM StreamsAreMetered == Spec => []EndedStreamsAreMetered
  <1>1. CallsInv => EndedStreamsAreMetered
    <2> SUFFICES ASSUME CallsInv, NEW c \in Clients
                 PROVE  LET mine == {r \in ledger : r.client = c}
                            amounts == {upstream[c][a] : a \in call[c].shown} \cup {0}
                        IN  /\ Cardinality(mine) <= 1
                            /\ \A r \in mine : r.usage \in amounts /\ (r.usage = 0 => amounts = {0})
                            /\ counted[c] \in {0, call[c].usage}
                            /\ call[c].step = "done" /\ Metered(c) /\ ~call[c].cut
                                => mine # {} /\ (c \in Chats => counted[c] = call[c].usage)
                            /\ ~Metered(c) => mine = {} /\ counted[c] = 0
      BY DEF EndedStreamsAreMetered
    <2> DEFINE amounts == {upstream[c][a] : a \in call[c].shown} \cup {0}
    <2>1. OutputOK(c) /\ MeterOK(c)
      BY DEF CallsInv, CallInv
    <2>2. call[c].attempt \in Attempts
      BY DEF CallsInv, CallsTypeOK, Call
    <2>3. amounts = {call[c].usage, 0}
      <3>1. CASE call[c].produced
        BY <2>1, <3>1 DEF OutputOK
      <3>2. CASE ~call[c].produced
        BY <2>1, <2>2, <3>2 DEF OutputOK
      <3> QED BY <3>1, <3>2
    <2>4. Mine(c) = {} \/ Mine(c) = {Entry(c)}
      BY <2>1 DEF MeterOK
    <2>5. Cardinality(Mine(c)) <= 1
      <3>1. CASE Mine(c) = {}
        <4>1. Cardinality(Mine(c)) = 0
          BY <3>1, FS_EmptySet
        <4> QED BY <4>1
      <3>2. CASE Mine(c) = {Entry(c)}
        <4>1. Cardinality({Entry(c)}) = 1
          BY FS_Singleton
        <4>2. Cardinality(Mine(c)) = 1
          BY <3>2, <4>1, Zenon
        <4> QED BY <4>2
      <3> QED BY <2>4, <3>1, <3>2
    <2>6. \A r \in Mine(c) : r.usage = call[c].usage
      BY <2>4 DEF Entry
    <2> HIDE DEF amounts
    <2>7. \A r \in Mine(c) : r.usage \in amounts /\ (r.usage = 0 => amounts = {0})
      BY <2>3, <2>6
    <2> QED BY <2>1, <2>5, <2>7 DEF MeterOK, Mine, amounts
  <1> QED BY <1>1, CallsHold, PTL

-----------------------------------------------------------------------------
(***************************************************************************)
(* Revocation and quotas, for any requests, calls, caps, time to live and  *)
(* length of time.  What a request holds belongs to the key it looks up,   *)
(* and nothing is dated later than now.                                    *)
(***************************************************************************)

SlotOK(x) ==
    /\ x.stage \in {"idle", "stream"} => x.phase = "look"
    /\ x.stage = "auth" => x.key = Token
    /\ x.stage \in {"check", "commit"} => x.key \in Scopes
    /\ x.phase \in {"fill", "act"} => x.val \in Values(x.key)
    /\ x.phase = "mirror" => x.stage = "commit"

AdminOK(c) == c.at = "publish" => c.val \in Values(c.key)

ShapeInv ==
    /\ \A r \in Slots : SlotOK(slot[r])
    /\ \A a \in Admins : AdminOK(admin[a])
    /\ \A s \in Scopes : period[s] <= now

(***************************************************************************)
(* Revocation.  While Redis lists the token, an answer that is not         *)
(* "revoked" was given before the revocation succeeded, to a look-up that  *)
(* began before: its entry expires a time to live after the revocation at  *)
(* the latest, because the time is taken before Redis is asked.            *)
(***************************************************************************)

Listed == redis[Token] = Revoked
Stale(v) == Listed /\ v # Revoked
Late(t) == t >= revokedAt + TTL

TimelySlot(x) ==
    /\ x.from <= now /\ x.since <= now
    /\ x.stage = "auth" /\ x.phase \in {"ask", "fill"} => x.from <= x.since
    /\ x.stage = "auth" /\ x.phase = "fill" /\ Stale(x.val) => x.since <= revokedAt
    /\ x.stage = "auth" /\ x.phase = "act" /\ Stale(x.val) => ~Late(x.from)
    /\ x.stage \in {"check", "stream"} /\ Listed => ~Late(x.from)

TimelyEntry(k) ==
    cache[k] # NoEntry =>
        /\ cache[k].until <= now + TTL
        /\ k = Token /\ Stale(cache[k].val) => cache[k].until <= revokedAt + TTL

RevokeInv ==
    /\ Listed => revokedAt \in Times /\ revokedAt <= now
    /\ \A a \in Admins : admin[a].at = "publish" /\ admin[a].key = Token =>
                             admin[a].val = Revoked
    /\ \A k \in Keys : TimelyEntry(k)
    /\ \A r \in Slots : TimelySlot(slot[r])

(***************************************************************************)
(* Quotas.  A request in flight was admitted by the scope and not counted  *)
(* yet.  A request is admitted below the cap, so what is counted and what  *)
(* may still be counted stay below the cap and the tokens of all requests. *)
(***************************************************************************)

Uncounted(s, x) ==
    \/ x.stage = "stream"
    \/ x.stage = "check" /\ x.key = "tenant" /\ s = "user"
    \/ x.stage = "commit" /\ x.key = "user" /\ s = "tenant"
    \/ x.stage = "commit" /\ x.key = s /\ x.phase # "mirror"
InFlight(s) == {r \in Slots : Uncounted(s, slot[r])}

Ceiling(s) == MaxCap(s) - 1 + Cardinality(Slots) * MaxTokens
Budget(s) ==
    /\ used[s][period[s]] + Cardinality(InFlight(s)) * MaxTokens <= Ceiling(s)
    /\ \A p \in Periods : used[s][p] <= Ceiling(s)

\* Nothing is counted in a window that has not begun.
Fresh(s) == \A p \in Periods : p > period[s] => used[s][p] = 0

BudgetInv == \A s \in Scopes : 0 \notin CapsOf(s) => Budget(s) /\ Fresh(s)

\* The keys and what is stored under them.
LEMMA QuotaFacts ==
    /\ Keys = {Token, "user", "tenant"} /\ Scopes = {"user", "tenant"} /\ Token = "token"
    /\ \A k \in Keys : Values(k) \subseteq AllValues /\ Absent \in Values(k)
    /\ Revoked \in Values(Token)
    /\ \A s \in Scopes : Values(s) = Caps \cup {Absent}
    /\ AllValues \subseteq Int /\ Absent = -1 /\ Revoked = 1
  BY QuotaAssumption DEF Keys, Scopes, Token, Values, AllValues, Absent, Revoked

\* A slot without a request.
LEMMA IdleSlotFits == IdleSlot \in Slot /\ SlotOK(IdleSlot)
  <1>1. 0 \in Times /\ 0 \in 0..MaxTokens
    BY QuotaAssumption DEF Times
  <1> QED BY <1>1, QuotaFacts DEF IdleSlot, Slot, SlotOK, Stages, Phases

\* What a step of a request makes of its slot.
SlotStep(r) ==
    \/ Request(r) \/ Look(r) \/ Ask(r) \/ Fill(r) \/ AskFails(r)
    \/ Authenticate(r) \/ Check(r) \/ UsageKnown(r)
    \/ CommitUncapped(r) \/ Commit(r) \/ CommitFails(r) \/ MirrorAdd(r)
AdminStep(a) == RevokeToken(a) \/ SetQuota(a) \/ DeleteQuota(a) \/ Publishes(a) \/ PublishFails(a)

\* The actions, by who takes them: the admin API, a request, the environment.
LEMMA QuotaSteps ==
    ASSUME QuotaNext
    PROVE  \/ \E a \in Admins : AdminStep(a)
           \/ \E r \in Slots : SlotStep(r)
           \/ Tick \/ Rollover \/ GatewayRestarts \/ RedisLosesData
  BY Zenon DEF QuotaNext, AdminStep, SlotStep

\* A request that goes on to its next stage or key begins with a look-up.
LEMMA EnterFits ==
    ASSUME TypeOK, NEW r \in Slots, NEW stage \in Stages, NEW key \in Keys,
           stage = "stream" \/ (stage \in {"check", "commit"} /\ key \in Scopes)
    PROVE  Enter(r, stage, key) \in Slot /\ SlotOK(Enter(r, stage, key))
  <1>1. slot[r] \in Slot /\ 0 \in Times
    BY QuotaAssumption DEF TypeOK, Times
  <1>2. Absent \in AllValues
    BY QuotaFacts
  <1>3. Enter(r, stage, key) \in Slot
    BY <1>1, <1>2 DEF Enter, Slot, Phases
  <1>4. /\ Enter(r, stage, key).stage = stage
        /\ Enter(r, stage, key).key = key
        /\ Enter(r, stage, key).phase = "look"
    BY <1>1 DEF Enter, Slot
  <1> QED BY <1>3, <1>4 DEF SlotOK

\* A look-up that hits takes the answer of the same key; one that misses asks.
LEMMA LookFits ==
    ASSUME TypeOK, ShapeInv, NEW r \in Slots, Look(r)
    PROVE  \E x \in Slot : SlotOK(x) /\ slot' = [slot EXCEPT ![r] = x]
  <1> DEFINE entry == cache[slot[r].key]
             hit == entry # NoEntry /\ entry.until > now
             x == IF hit THEN [slot[r] EXCEPT !.phase = "act", !.val = entry.val]
                  ELSE [slot[r] EXCEPT !.phase = "ask", !.since = now]
  <1>1. slot[r] \in Slot /\ SlotOK(slot[r]) /\ slot[r].key \in Keys /\ now \in Times
    BY DEF TypeOK, ShapeInv, Slot
  <1>2. slot' = [slot EXCEPT ![r] = x] /\ slot[r].stage \notin {"idle", "stream"}
    BY DEF Look, At
  <1>3. hit => entry.val \in Values(slot[r].key) /\ entry.val \in AllValues
    BY <1>1, QuotaFacts DEF TypeOK
  <1>4. CASE hit
    <2>1. x = [slot[r] EXCEPT !.phase = "act", !.val = entry.val]
      BY <1>4
    <2> HIDE DEF hit, entry
    <2>2. x \in Slot
      BY <1>1, <1>3, <1>4, <2>1 DEF Slot, Phases
    <2>3. SlotOK(x)
      BY <1>1, <1>2, <1>3, <1>4, <2>1 DEF Slot, SlotOK
    <2> QED BY <1>2, <2>2, <2>3
  <1>5. CASE ~hit
    <2>1. x = [slot[r] EXCEPT !.phase = "ask", !.since = now]
      BY <1>5
    <2> HIDE DEF hit, entry, x
    <2>2. x \in Slot
      BY <1>1, <2>1 DEF Slot, Phases
    <2>3. SlotOK(x)
      BY <1>1, <1>2, <2>1 DEF Slot, SlotOK
    <2> QED BY <1>2, <2>2, <2>3
  <1> QED BY <1>4, <1>5

\* Every step of a request replaces its own slot by a well-formed one.
LEMMA SlotStepFits ==
    ASSUME TypeOK, ShapeInv, NEW r \in Slots, SlotStep(r)
    PROVE  \E x \in Slot : SlotOK(x) /\ slot' = [slot EXCEPT ![r] = x]
  <1> DEFINE Fits == \E x \in Slot : SlotOK(x) /\ slot' = [slot EXCEPT ![r] = x]
  <1>1. slot[r] \in Slot /\ SlotOK(slot[r]) /\ slot[r].key \in Keys /\ now \in Times
        /\ slot \in [Slots -> Slot]
    BY DEF TypeOK, ShapeInv, Slot
  <1>2. CASE slot' = [slot EXCEPT ![r] = IdleSlot]
    BY <1>2, IdleSlotFits
  <1>3. CASE Request(r)
    <2>1. [IdleSlot EXCEPT !.stage = "auth", !.from = now] \in Slot
      BY <1>1, IdleSlotFits DEF Slot, Stages
    <2>2. SlotOK([IdleSlot EXCEPT !.stage = "auth", !.from = now])
      BY DEF SlotOK, IdleSlot
    <2> QED BY <1>3, <2>1, <2>2 DEF Request, Becomes
  <1>4. CASE Look(r)
    BY <1>4, LookFits
  <1>5. CASE Ask(r)
    <2> DEFINE x == [slot[r] EXCEPT !.phase = "fill", !.val = redis[slot[r].key]]
    <2>1. slot' = [slot EXCEPT ![r] = x] /\ slot[r].stage \notin {"idle", "stream"}
      BY <1>1, <1>5 DEF Ask, At
    <2>2. redis[slot[r].key] \in Values(slot[r].key) /\ redis[slot[r].key] \in AllValues
      BY <1>1, QuotaFacts DEF TypeOK
    <2>3. x \in Slot
      BY <1>1, <2>2 DEF Slot, Phases
    <2>4. SlotOK(x)
      BY <1>1, <2>1, <2>2 DEF Slot, SlotOK
    <2> QED BY <2>1, <2>3, <2>4
  <1>6. CASE Fill(r)
    <2> DEFINE x == [slot[r] EXCEPT !.phase = "act", !.since = 0]
    <2>1. /\ slot' = [slot EXCEPT ![r] = x]
          /\ slot[r].stage \notin {"idle", "stream"} /\ slot[r].phase = "fill"
      BY <1>1, <1>6 DEF Fill, At
    <2>2. 0 \in Times
      BY QuotaAssumption DEF Times
    <2>3. x \in Slot
      BY <1>1, <2>2 DEF Slot, Phases
    <2>4. SlotOK(x)
      BY <1>1, <2>1 DEF Slot, SlotOK
    <2> QED BY <2>1, <2>3, <2>4
  <1>7. CASE AskFails(r) \/ CommitFails(r)
    BY <1>7, <1>2 DEF AskFails, CommitFails, Becomes
  <1>8. CASE Authenticate(r)
    <2>1. Enter(r, "check", "user") \in Slot /\ SlotOK(Enter(r, "check", "user"))
      BY EnterFits, QuotaFacts DEF Stages
    <2> QED BY <1>8, <1>2, <2>1 DEF Authenticate, Becomes
  <1>9. CASE Check(r)
    <2>1. Enter(r, "check", "tenant") \in Slot /\ SlotOK(Enter(r, "check", "tenant"))
      BY EnterFits, QuotaFacts DEF Stages
    <2>2. Enter(r, "stream", Token) \in Slot /\ SlotOK(Enter(r, "stream", Token))
      BY EnterFits, QuotaFacts DEF Stages
    <2> QED BY <1>9, <1>2, <2>1, <2>2 DEF Check, Becomes
  <1>10. CASE UsageKnown(r)
    <2>1. Enter(r, "commit", "user") \in Slot /\ SlotOK(Enter(r, "commit", "user"))
      BY EnterFits, QuotaFacts DEF Stages
    <2>2. ASSUME NEW n \in 0..MaxTokens
          PROVE  LET x == [Enter(r, "commit", "user") EXCEPT !.tokens = n, !.from = 0]
                 IN  x \in Slot /\ SlotOK(x)
      <3> DEFINE y == Enter(r, "commit", "user")
      <3> HIDE DEF y
      <3>1. y \in Slot /\ SlotOK(y) /\ 0 \in Times
        BY <2>1, QuotaAssumption DEF y, Times
      <3>2. [y EXCEPT !.tokens = n, !.from = 0] \in Slot
        BY <3>1 DEF Slot
      <3>3. SlotOK([y EXCEPT !.tokens = n, !.from = 0])
        BY <3>1 DEF Slot, SlotOK
      <3> QED BY <3>2, <3>3 DEF y
    <2> QED BY <1>10, <1>2, <2>2 DEF UsageKnown, Becomes
  <1>11. CASE CommitUncapped(r) \/ MirrorAdd(r)
    <2>1. Enter(r, "commit", "tenant") \in Slot /\ SlotOK(Enter(r, "commit", "tenant"))
      BY EnterFits, QuotaFacts DEF Stages
    <2>2. slot' = [slot EXCEPT ![r] = AfterCommit(r)]
      BY <1>11 DEF CommitUncapped, MirrorAdd, Becomes
    <2> QED BY <1>2, <2>1, <2>2 DEF AfterCommit
  <1>12. CASE Commit(r)
    <2> DEFINE x == [slot[r] EXCEPT !.phase = "mirror"]
    <2>1. slot' = [slot EXCEPT ![r] = x] /\ slot[r].stage = "commit"
      BY <1>12 DEF Commit, Committing, Becomes
    <2>2. x \in Slot
      BY <1>1 DEF Slot, Phases
    <2>3. SlotOK(x)
      BY <1>1, <2>1 DEF Slot, SlotOK
    <2> QED BY <2>1, <2>2, <2>3
  <1> QED
    BY <1>3, <1>4, <1>5, <1>6, <1>7, <1>8, <1>9, <1>10, <1>11, <1>12 DEF SlotStep

\* The initial states are typed.
LEMMA QuotaInitTyped == QuotaInit => TypeOK /\ ShapeInv
  <1> SUFFICES ASSUME QuotaInit PROVE TypeOK /\ ShapeInv
    OBVIOUS
  <1>1. 0 \in Times /\ 0 \in Nat /\ 0 \in 0..MaxOutages /\ Never = -1
    BY QuotaAssumption DEF Times, Never
  <1>2. /\ db \in [Keys -> AllValues] /\ redis = db
        /\ \A k \in Keys : db[k] \in Values(k)
    BY QuotaFacts, QuotaAssumption DEF QuotaInit, AllValues
  <1>3. /\ cache \in [Keys -> {NoEntry} \cup CacheEntry]
        /\ \A k \in Keys : cache[k] = NoEntry
    BY DEF QuotaInit
  <1>4. admin \in [Admins -> AdminCall] /\ \A a \in Admins : admin[a].at = "new"
    BY QuotaFacts DEF QuotaInit, AdminCall
  <1>5. used \in [Scopes -> [Periods -> Nat]] /\ fast \in [Scopes -> [Periods -> Nat]]
    BY DEF QuotaInit
  <1>6. period \in [Scopes -> Periods] /\ now \in Times /\ \A s \in Scopes : period[s] <= now
    BY <1>1 DEF QuotaInit, Periods
  <1>7. slot \in [Slots -> Slot] /\ \A r \in Slots : SlotOK(slot[r])
    BY IdleSlotFits DEF QuotaInit
  <1>8. outages \in 0..MaxOutages /\ revokedAt \in Times \cup {Never}
    BY <1>1 DEF QuotaInit
  <1>9. TypeOK
    BY <1>2, <1>3, <1>4, <1>5, <1>6, <1>7, <1>8 DEF TypeOK
  <1>10. ShapeInv
    BY <1>4, <1>6, <1>7 DEF ShapeInv, AdminOK
  <1> QED BY <1>9, <1>10

\* Outages stay within their bound.
LEMMA OutagesTyped ==
    ASSUME TypeOK, Outage \/ UNCHANGED outages
    PROVE  outages' \in 0..MaxOutages
  BY QuotaAssumption DEF TypeOK, Outage

\* The admin API stores and publishes values that belong to their keys.
LEMMA AdminStepTyped ==
    ASSUME TypeOK, ShapeInv, NEW a \in Admins, AdminStep(a)
    PROVE  (TypeOK /\ ShapeInv)'
  <1>1. admin[a] \in AdminCall /\ admin[a].key \in Keys /\ AdminOK(admin[a])
    BY DEF TypeOK, ShapeInv, AdminCall
  <1>2. ASSUME NEW k \in Keys, NEW v \in Values(k), Write(a, k, v)
        PROVE  (TypeOK /\ ShapeInv)'
    <2> DEFINE x == [at |-> "publish", key |-> k, val |-> v]
    <2>1. v \in AllValues
      BY QuotaFacts
    <2>2. x \in AdminCall /\ AdminOK(x)
      BY <2>1 DEF AdminCall, AdminOK
    <2>3. db' = [db EXCEPT ![k] = v] /\ admin' = [admin EXCEPT ![a] = x]
      BY <1>2 DEF Write
    <2>4. UNCHANGED <<redis, cache, used, fast, period, now, slot, outages, revokedAt>>
      BY <1>2 DEF Write, counters
    <2>5. db' \in [Keys -> AllValues] /\ \A q \in Keys : db'[q] \in Values(q)
      BY <2>1, <2>3 DEF TypeOK
    <2>6. admin' \in [Admins -> AdminCall] /\ \A b \in Admins : AdminOK(admin'[b])
      <3> HIDE DEF x
      <3> QED BY <2>2, <2>3 DEF TypeOK, ShapeInv
    <2>7. TypeOK'
      BY <2>4, <2>5, <2>6 DEF TypeOK
    <2> QED BY <2>4, <2>6, <2>7 DEF ShapeInv
  <1>3. CASE RevokeToken(a)
    BY <1>2, <1>3, QuotaFacts DEF RevokeToken
  <1>4. CASE SetQuota(a)
    <2> PICK s \in Scopes, cap \in Caps : Write(a, s, cap)
      BY <1>4 DEF SetQuota
    <2> QED BY <1>2, QuotaFacts
  <1>5. CASE DeleteQuota(a)
    <2> PICK s \in Scopes : Write(a, s, Absent)
      BY <1>5 DEF DeleteQuota
    <2> QED BY <1>2, QuotaFacts
  <1>6. ASSUME NEW at \in {"new", "done"}, admin' = [admin EXCEPT ![a].at = at]
        PROVE  admin' \in [Admins -> AdminCall] /\ \A b \in Admins : AdminOK(admin'[b])
    <2>1. [admin[a] EXCEPT !.at = at] \in AdminCall
      BY <1>1 DEF AdminCall
    <2>2. admin' = [admin EXCEPT ![a] = [admin[a] EXCEPT !.at = at]]
      BY <1>6 DEF TypeOK
    <2>3. AdminOK([admin[a] EXCEPT !.at = at])
      BY <1>1 DEF AdminOK, AdminCall
    <2> QED BY <2>1, <2>2, <2>3 DEF TypeOK, ShapeInv
  <1>7. CASE Publishes(a)
    <2>1. admin[a].val \in Values(admin[a].key) /\ admin[a].val \in AllValues
      BY <1>1, <1>7 DEF Publishes, AdminOK, AdminCall
    <2>2. redis' = [redis EXCEPT ![admin[a].key] = admin[a].val]
      BY <1>7 DEF Publishes
    <2>3. redis' \in [Keys -> AllValues] /\ \A k \in Keys : redis'[k] \in Values(k)
      BY <1>1, <2>1, <2>2 DEF TypeOK
    <2>4. revokedAt' \in {now, revokedAt} /\ admin' = [admin EXCEPT ![a].at = "done"]
      BY <1>7 DEF Publishes
    <2>5. UNCHANGED <<db, cache, used, fast, period, now, slot, outages>>
      BY <1>7 DEF Publishes, counters
    <2>6. admin' \in [Admins -> AdminCall] /\ \A b \in Admins : AdminOK(admin'[b])
      BY <1>6, <2>4
    <2>7. TypeOK'
      BY <2>3, <2>4, <2>5, <2>6 DEF TypeOK
    <2> QED BY <2>5, <2>6, <2>7 DEF ShapeInv
  <1>8. CASE PublishFails(a)
    <2>1. admin' \in [Admins -> AdminCall] /\ \A b \in Admins : AdminOK(admin'[b])
      BY <1>6, <1>8 DEF PublishFails
    <2>2. outages' \in 0..MaxOutages
      BY <1>8, OutagesTyped DEF PublishFails
    <2>3. UNCHANGED <<db, redis, cache, used, fast, period, now, slot, revokedAt>>
      BY <1>8 DEF PublishFails, stores, counters
    <2>4. TypeOK'
      BY <2>1, <2>2, <2>3 DEF TypeOK
    <2> QED BY <2>1, <2>3, <2>4 DEF ShapeInv
  <1> QED BY <1>3, <1>4, <1>5, <1>7, <1>8 DEF AdminStep

\* Tokens added to a counter of the current window.
LEMMA AddedTyped ==
    ASSUME TypeOK, NEW r \in Slots, slot[r].key \in Scopes,
           NEW counter \in [Scopes -> [Periods -> Nat]]
    PROVE  Added(counter, r) \in [Scopes -> [Periods -> Nat]]
  <1>1. slot[r].tokens \in Nat /\ period[slot[r].key] \in Periods
    BY QuotaAssumption DEF TypeOK, Slot
  <1> DEFINE s == slot[r].key
             p == period[s]
             c == [counter[s] EXCEPT ![p] = @ + slot[r].tokens]
  <1>2. c \in [Periods -> Nat]
    BY <1>1
  <1>3. Added(counter, r) = [counter EXCEPT ![s] = c]
    BY DEF Added
  <1> QED BY <1>2, <1>3

\* A step of a request leaves the stores, the calls of the admin API and the time alone.
LEMMA SlotStepFrame ==
    ASSUME NEW r, SlotStep(r)
    PROVE  UNCHANGED <<db, redis, admin, period, now, revokedAt>>
  <1>1. CASE \/ Request(r) \/ Look(r) \/ Ask(r) \/ Fill(r) \/ AskFails(r)
             \/ Authenticate(r) \/ Check(r) \/ UsageKnown(r) \/ CommitUncapped(r)
    BY <1>1 DEF Request, Look, Ask, Fill, AskFails, Authenticate, Check, UsageKnown,
                CommitUncapped, Others, stores
  <1>2. CASE Commit(r) \/ CommitFails(r) \/ MirrorAdd(r)
    BY <1>2 DEF Commit, CommitFails, MirrorAdd, Rest, stores
  <1> QED BY <1>1, <1>2 DEF SlotStep

\* The steps of a request keep the types, those of the caches and counters too.
LEMMA SlotStepTyped ==
    ASSUME TypeOK, ShapeInv, NEW r \in Slots, SlotStep(r)
    PROVE  (TypeOK /\ ShapeInv)'
  <1>1. UNCHANGED <<db, redis, admin, period, now, revokedAt>>
    BY SlotStepFrame
  <1>2. PICK x \in Slot : SlotOK(x) /\ slot' = [slot EXCEPT ![r] = x]
    BY SlotStepFits
  <1>3. slot' \in [Slots -> Slot] /\ \A q \in Slots : SlotOK(slot'[q])
    BY <1>2 DEF TypeOK, ShapeInv
  <1>4. slot[r] \in Slot /\ SlotOK(slot[r]) /\ slot[r].key \in Keys
    BY DEF TypeOK, ShapeInv, Slot
  <1>5. outages' \in 0..MaxOutages
    <2>1. Outage \/ UNCHANGED outages
      BY DEF SlotStep, Request, Look, Ask, Fill, AskFails, Authenticate, Check, UsageKnown,
             CommitUncapped, Commit, CommitFails, MirrorAdd
    <2> QED BY <2>1, OutagesTyped
  <1>6. /\ cache' \in [Keys -> {NoEntry} \cup CacheEntry]
        /\ \A k \in Keys : cache'[k] # NoEntry => cache'[k].val \in Values(k)
    <2>1. CASE Fill(r)
      <3> DEFINE entry == [val |-> slot[r].val, until |-> slot[r].since + TTL]
      <3>1. slot[r].val \in AllValues /\ slot[r].val \in Values(slot[r].key)
        BY <1>4, <2>1 DEF Fill, At, SlotOK, Slot
      <3>2. slot[r].since + TTL \in Nat
        BY <1>4, QuotaAssumption DEF Slot, Times
      <3>3. entry \in CacheEntry
        BY <3>1, <3>2 DEF CacheEntry
      <3>4. cache' = [cache EXCEPT ![slot[r].key] = entry]
        BY <2>1 DEF Fill
      <3>5. entry.val \in Values(slot[r].key)
        BY <3>1
      <3> HIDE DEF entry
      <3> QED BY <1>4, <3>3, <3>4, <3>5 DEF TypeOK
    <2>2. CASE ~Fill(r)
      <3>1. UNCHANGED cache
        BY <2>2 DEF SlotStep, Request, Look, Ask, AskFails, Authenticate, Check, UsageKnown,
                    CommitUncapped, Commit, CommitFails, MirrorAdd, Rest
      <3> QED BY <3>1 DEF TypeOK
    <2> QED BY <2>1, <2>2
  <1>7. used' \in [Scopes -> [Periods -> Nat]] /\ fast' \in [Scopes -> [Periods -> Nat]]
    <2>1. CASE UNCHANGED <<used, fast>>
      BY <2>1 DEF TypeOK
    <2>2. ASSUME slot[r].stage = "commit"
          PROVE  /\ Added(used, r) \in [Scopes -> [Periods -> Nat]]
                 /\ Added(fast, r) \in [Scopes -> [Periods -> Nat]]
      BY <1>4, <2>2, AddedTyped DEF SlotOK, TypeOK
    <2>3. CASE Commit(r) \/ CommitFails(r)
      BY <2>2, <2>3 DEF Commit, CommitFails, Committing, TypeOK
    <2>4. CASE MirrorAdd(r)
      <3>1. slot[r].stage = "commit"
        BY <1>4, <2>4 DEF MirrorAdd, At, SlotOK
      <3> QED BY <2>2, <2>4, <3>1 DEF MirrorAdd, TypeOK
    <2>5. CASE ~(Commit(r) \/ CommitFails(r) \/ MirrorAdd(r))
      <3>1. UNCHANGED <<used, fast>>
        BY <2>5 DEF SlotStep, Request, Look, Ask, Fill, AskFails, Authenticate, Check,
                    UsageKnown, CommitUncapped, Others, counters
      <3> QED BY <2>1, <3>1
    <2> QED BY <2>3, <2>4, <2>5
  <1>8. TypeOK'
    BY <1>1, <1>3, <1>5, <1>6, <1>7 DEF TypeOK
  <1> QED BY <1>1, <1>3, <1>8 DEF ShapeInv

\* The clock, a new window, a restart and a loss of Redis keep the types.
LEMMA QuotaEnvironmentTyped ==
    ASSUME TypeOK, ShapeInv, Tick \/ Rollover \/ GatewayRestarts \/ RedisLosesData
    PROVE  (TypeOK /\ ShapeInv)'
  <1>1. CASE Tick
    <2>1. UNCHANGED <<db, redis, admin, cache, used, fast, period, slot, outages, revokedAt>>
      BY <1>1 DEF Tick, stores, counters
    <2>2. now' \in Times /\ \A s \in Scopes : period[s] <= now'
      BY <1>1, QuotaAssumption DEF Tick, TypeOK, ShapeInv, Times, Periods
    <2>3. TypeOK'
      BY <2>1, <2>2 DEF TypeOK
    <2> QED BY <2>1, <2>2, <2>3 DEF ShapeInv
  <1>2. CASE Rollover
    <2>1. UNCHANGED <<db, redis, admin, cache, used, fast, slot, outages, revokedAt>>
      BY <1>2 DEF Rollover, stores, counters
    <2>2. now' \in Times /\ now' = now + 1
      BY <1>2, QuotaAssumption DEF Rollover, TypeOK, Times
    <2>3. PICK S \in {{"user"}, Scopes} :
             period' = [s \in Scopes |-> IF s \in S THEN period[s] + 1 ELSE period[s]]
      BY <1>2 DEF Rollover
    <2>4. \A s \in Scopes : period[s] \in Times /\ period[s] <= now
      BY DEF TypeOK, ShapeInv, Periods
    <2>5. \A s \in Scopes : period'[s] \in Times /\ period'[s] <= now'
      <3> TAKE s \in Scopes
      <3>1. period'[s] = period[s] \/ period'[s] = period[s] + 1
        BY <2>3
      <3> QED BY <2>2, <2>4, <3>1, QuotaAssumption DEF Times, TypeOK
    <2>6. period' \in [Scopes -> Periods]
      BY <2>3, <2>5 DEF Periods
    <2>7. TypeOK'
      BY <2>1, <2>2, <2>6 DEF TypeOK
    <2> QED BY <2>1, <2>5, <2>7 DEF ShapeInv
  <1>3. CASE GatewayRestarts
    <2>1. UNCHANGED <<db, redis, admin, used, fast, period, now, revokedAt>>
      BY <1>3 DEF GatewayRestarts, stores, counters
    <2>2. slot' \in [Slots -> Slot] /\ \A r \in Slots : SlotOK(slot'[r])
      BY <1>3, IdleSlotFits DEF GatewayRestarts
    <2>3. /\ cache' \in [Keys -> {NoEntry} \cup CacheEntry]
          /\ \A k \in Keys : cache'[k] = NoEntry
      BY <1>3 DEF GatewayRestarts
    <2>4. outages' \in 0..MaxOutages
      BY <1>3, OutagesTyped DEF GatewayRestarts
    <2>5. TypeOK'
      BY <2>1, <2>2, <2>3, <2>4 DEF TypeOK
    <2> QED BY <2>1, <2>2, <2>5 DEF ShapeInv
  <1>4. CASE RedisLosesData
    <2>1. UNCHANGED <<db, admin, cache, used, period, now, slot, revokedAt>>
      BY <1>4 DEF RedisLosesData
    <2>2. redis' \in [Keys -> AllValues] /\ \A k \in Keys : redis'[k] \in Values(k)
      BY <1>4, QuotaFacts DEF RedisLosesData
    <2>3. fast' \in [Scopes -> [Periods -> Nat]]
      BY <1>4 DEF RedisLosesData
    <2>4. outages' \in 0..MaxOutages
      BY <1>4, OutagesTyped DEF RedisLosesData
    <2>5. TypeOK'
      BY <2>1, <2>2, <2>3, <2>4 DEF TypeOK
    <2> QED BY <2>1, <2>5 DEF ShapeInv
  <1> QED BY <1>1, <1>2, <1>3, <1>4

\* Every step keeps the types.
LEMMA QuotaStepTyped == TypeOK /\ ShapeInv /\ [QuotaNext]_quotaVars => (TypeOK /\ ShapeInv)'
  <1> SUFFICES ASSUME TypeOK, ShapeInv, [QuotaNext]_quotaVars
               PROVE  (TypeOK /\ ShapeInv)'
    OBVIOUS
  <1>1. CASE UNCHANGED quotaVars
    <2>1. UNCHANGED <<db, redis, admin, cache, used, fast, period, now, slot, outages,
                      revokedAt>>
      BY <1>1 DEF quotaVars, stores, counters
    <2>2. TypeOK'
      BY <2>1 DEF TypeOK
    <2> QED BY <2>1, <2>2 DEF ShapeInv
  <1>2. CASE QuotaNext
    BY <1>2, QuotaSteps, AdminStepTyped, SlotStepTyped, QuotaEnvironmentTyped
  <1> QED BY <1>1, <1>2

\* The types of the stores, caches, counters and requests.
THEOREM QuotaTypeCorrect == QuotaSpec => []TypeOK
  <1> QED BY QuotaInitTyped, QuotaStepTyped, PTL DEF QuotaSpec

\* At first nothing is cached, revoked or asked for.
LEMMA QuotaInitRevokeInv == QuotaInit => RevokeInv
  <1> SUFFICES ASSUME QuotaInit PROVE RevokeInv
    OBVIOUS
  <1>1. now = 0 /\ \A a \in Admins : admin[a].at = "new"
    BY DEF QuotaInit
  <1>2. \A k \in Keys : cache[k] = NoEntry
    BY DEF QuotaInit
  <1>3. \A r \in Slots : slot[r] = IdleSlot
    BY DEF QuotaInit
  <1>4. TimelySlot(IdleSlot)
    BY <1>1 DEF TimelySlot, IdleSlot
  <1>5. ~Listed
    BY QuotaFacts DEF QuotaInit, Listed
  <1> QED BY <1>1, <1>2, <1>3, <1>4, <1>5 DEF RevokeInv, TimelyEntry

\* While time and the revocation stand still, so does what is timely.
LEMMA SlotsStayTimely ==
    ASSUME TypeOK, RevokeInv, UNCHANGED <<redis, now, revokedAt>>, NEW r \in Slots,
           NEW x \in Slot, slot' = [slot EXCEPT ![r] = x], TimelySlot(x)
    PROVE  \A q \in Slots : TimelySlot(slot[q])'
  <1> TAKE q \in Slots
  <1>1. slot'[q] = x \/ slot'[q] = slot[q]
    BY DEF TypeOK
  <1>2. TimelySlot(slot[q])
    BY DEF RevokeInv
  <1>3. TimelySlot(slot[q])' <=> TimelySlot(slot'[q])
    BY DEF TimelySlot, Stale, Listed, Late
  <1> QED BY <1>1, <1>2, <1>3

\* What a step of a request leaves in its slot is timely.
LEMMA SlotStepTimely ==
    ASSUME TypeOK, ShapeInv, RevokeInv, NEW r \in Slots, SlotStep(r)
    PROVE  \E x \in Slot : slot' = [slot EXCEPT ![r] = x] /\ TimelySlot(x)
  <1> DEFINE y == slot[r]
  <1>1. PICK x \in Slot : slot' = [slot EXCEPT ![r] = x]
    BY SlotStepFits
  <1> SUFFICES TimelySlot(x)
    BY <1>1
  <1>2. slot'[r] = x /\ y \in Slot /\ SlotOK(y) /\ TimelySlot(y)
    BY <1>1 DEF TypeOK, ShapeInv, RevokeInv
  <1>3. /\ y.from \in Nat /\ y.since \in Nat /\ now \in Nat /\ y.from <= now /\ y.since <= now
        /\ TTL \in Nat /\ TTL > 0 /\ (Listed => revokedAt \in Nat)
        /\ (Listed => revokedAt <= now)
    BY <1>2, QuotaAssumption DEF TypeOK, Slot, Times, TimelySlot, RevokeInv
  <1>4. CASE x = IdleSlot
    <2>1. x.stage = "idle" /\ x.from = 0 /\ x.since = 0
      BY <1>4 DEF IdleSlot
    <2> QED BY <1>3, <2>1 DEF TimelySlot
  <1>5. CASE Request(r)
    <2>1. x = [IdleSlot EXCEPT !.stage = "auth", !.from = now]
      BY <1>2, <1>5 DEF Request, Becomes, TypeOK
    <2>2. x.stage = "auth" /\ x.phase = "look" /\ x.from = now /\ x.since = 0
      BY <2>1 DEF IdleSlot
    <2> QED BY <1>3, <2>2 DEF TimelySlot
  <1>6. CASE Look(r)
    <2> DEFINE entry == cache[y.key]
               hit == entry # NoEntry /\ entry.until > now
    <2>1. x = IF hit THEN [y EXCEPT !.phase = "act", !.val = entry.val]
                     ELSE [y EXCEPT !.phase = "ask", !.since = now]
      BY <1>2, <1>6 DEF Look, TypeOK
    <2>2. CASE hit
      <3>1. x.stage = y.stage /\ x.phase = "act" /\ x.val = entry.val /\ x.from = y.from
            /\ x.since = y.since
        BY <1>2, <2>1, <2>2 DEF Slot
      <3>2. x.stage = "auth" /\ Stale(x.val) => ~Late(x.from)
        <4> SUFFICES ASSUME x.stage = "auth", Stale(x.val) PROVE ~Late(x.from)
          OBVIOUS
        <4>1. y.key = Token /\ Token \in Keys
          BY <1>2, <3>1, QuotaFacts DEF SlotOK
        <4>2. entry.until <= revokedAt + TTL /\ entry.until > now
          BY <2>2, <3>1, <4>1 DEF RevokeInv, TimelyEntry
        <4>3. entry.until \in Nat
          BY <2>2, <4>1 DEF TypeOK, CacheEntry
        <4> QED BY <1>3, <3>1, <4>2, <4>3 DEF Late, Stale
      <3>3. x.stage \in {"check", "stream"} /\ Listed => ~Late(x.from)
        BY <1>2, <3>1 DEF TimelySlot
      <3> QED BY <1>3, <3>1, <3>2, <3>3 DEF TimelySlot
    <2>3. CASE ~hit
      <3>1. x.stage = y.stage /\ x.phase = "ask" /\ x.from = y.from /\ x.since = now
        BY <1>2, <2>1, <2>3 DEF Slot
      <3> QED BY <1>2, <1>3, <3>1 DEF TimelySlot
    <2> QED BY <2>2, <2>3
  <1>7. CASE Ask(r)
    <2>1. x = [y EXCEPT !.phase = "fill", !.val = redis[y.key]] /\ y.phase = "ask"
      BY <1>2, <1>7 DEF Ask, At, TypeOK
    <2>2. x.stage = y.stage /\ x.phase = "fill" /\ x.val = redis[y.key] /\ x.from = y.from
          /\ x.since = y.since
      BY <1>2, <2>1 DEF Slot
    <2>3. x.stage = "auth" => ~Stale(x.val)
      BY <1>2, <2>2 DEF SlotOK, Stale, Listed
    <2> QED BY <1>2, <1>3, <2>1, <2>2, <2>3 DEF TimelySlot
  <1>8. CASE Fill(r)
    <2>1. x = [y EXCEPT !.phase = "act", !.since = 0] /\ y.phase = "fill"
      BY <1>2, <1>8 DEF Fill, At, TypeOK
    <2>2. x.stage = y.stage /\ x.phase = "act" /\ x.val = y.val /\ x.from = y.from
          /\ x.since = 0
      BY <1>2, <2>1 DEF Slot
    <2>3. x.stage = "auth" /\ Stale(x.val) => y.from <= y.since /\ y.since <= revokedAt
      BY <1>2, <2>1, <2>2 DEF TimelySlot
    <2>4. x.stage = "auth" /\ Stale(x.val) => ~Late(x.from)
      BY <1>3, <2>2, <2>3 DEF Late, Stale
    <2>5. x.stage \in {"check", "stream"} /\ Listed => ~Late(x.from)
      BY <1>2, <2>2 DEF TimelySlot
    <2> QED BY <1>3, <2>2, <2>4, <2>5 DEF TimelySlot
  <1>9. CASE AskFails(r) \/ CommitFails(r)
    BY <1>2, <1>4, <1>9 DEF AskFails, CommitFails, Becomes, TypeOK
  <1>10. ASSUME NEW stage, NEW key, x = Enter(r, stage, key)
         PROVE  /\ x.stage = stage /\ x.key = key /\ x.phase = "look" /\ x.from = y.from
                /\ x.since = 0
    BY <1>2, <1>10 DEF Enter, Slot
  <1>11. CASE Authenticate(r)
    <2>1. x = IF y.val = Revoked THEN IdleSlot ELSE Enter(r, "check", "user")
      BY <1>2, <1>11 DEF Authenticate, Becomes, TypeOK
    <2>2. y.stage = "auth" /\ y.phase = "act"
      BY <1>11 DEF Authenticate, At
    <2>3. y.val # Revoked /\ Listed => ~Late(y.from)
      BY <1>2, <2>2 DEF TimelySlot, Stale
    <2>4. CASE y.val # Revoked /\ x = Enter(r, "check", "user")
      <3>1. x.stage = "check" /\ x.phase = "look" /\ x.from = y.from /\ x.since = 0
        BY <1>10, <2>4
      <3> QED BY <1>3, <2>3, <2>4, <3>1 DEF TimelySlot
    <2>5. CASE y.val = Revoked
      BY <1>4, <2>1, <2>5
    <2> QED BY <2>1, <2>4, <2>5
  <1>12. CASE Check(r)
    <2>1. \/ x = IdleSlot
          \/ x = Enter(r, "check", "tenant") \/ x = Enter(r, "stream", Token)
      BY <1>2, <1>12 DEF Check, Becomes, TypeOK
    <2>2. Listed => ~Late(y.from)
      BY <1>2, <1>12 DEF Check, TimelySlot
    <2>3. CASE x = Enter(r, "check", "tenant") \/ x = Enter(r, "stream", Token)
      <3>1. x.stage \in {"check", "stream"} /\ x.phase = "look" /\ x.from = y.from
            /\ x.since = 0
        BY <1>10, <2>3
      <3> QED BY <1>3, <2>2, <3>1 DEF TimelySlot
    <2> QED BY <1>4, <2>1, <2>3
  <1>13. ASSUME x.stage = "commit", x.from <= now, x.since <= now
         PROVE  TimelySlot(x)
    BY <1>13 DEF TimelySlot
  <1>14. CASE UsageKnown(r)
    <2>1. PICK n \in 0..MaxTokens :
             x = IF n = 0 THEN IdleSlot
                 ELSE [Enter(r, "commit", "user") EXCEPT !.tokens = n, !.from = 0]
      BY <1>2, <1>14 DEF UsageKnown, Becomes, TypeOK
    <2>2. ASSUME x = [Enter(r, "commit", "user") EXCEPT !.tokens = n, !.from = 0]
          PROVE  x.stage = "commit" /\ x.from = 0 /\ x.since = 0
      BY <1>2, <2>2 DEF Enter, Slot
    <2> QED BY <1>3, <1>4, <1>13, <2>1, <2>2
  <1>15. CASE CommitUncapped(r) \/ MirrorAdd(r)
    <2>1. x = AfterCommit(r)
      BY <1>2, <1>15 DEF CommitUncapped, MirrorAdd, Becomes, TypeOK
    <2>2. x = IdleSlot \/ x = Enter(r, "commit", "tenant")
      BY <2>1 DEF AfterCommit
    <2> QED BY <1>3, <1>4, <1>10, <1>13, <2>2
  <1>16. CASE Commit(r)
    <2>1. x = [y EXCEPT !.phase = "mirror"] /\ y.stage = "commit"
      BY <1>2, <1>16 DEF Commit, Committing, Becomes, TypeOK
    <2>2. x.stage = "commit" /\ x.from = y.from /\ x.since = y.since
      BY <1>2, <2>1 DEF Slot
    <2> QED BY <1>3, <1>13, <2>2
  <1> QED
    BY <1>5, <1>6, <1>7, <1>8, <1>9, <1>11, <1>12, <1>14, <1>15, <1>16 DEF SlotStep

\* A request never leaves an answer in the cache that outlives its time.
LEMMA SlotStepKeepsRevokeInv ==
    ASSUME TypeOK, ShapeInv, RevokeInv, NEW r \in Slots, SlotStep(r)
    PROVE  RevokeInv'
  <1>1. UNCHANGED <<db, redis, admin, period, now, revokedAt>>
    BY SlotStepFrame
  <1>2. \A q \in Slots : TimelySlot(slot[q])'
    BY <1>1, SlotStepTimely, SlotsStayTimely
  <1>3. ASSUME NEW k \in Keys PROVE TimelyEntry(k)'
    <2>1. TimelyEntry(k)
      BY DEF RevokeInv
    <2>2. CASE UNCHANGED cache
      BY <1>1, <2>1, <2>2 DEF TimelyEntry, Stale, Listed
    <2>3. CASE Fill(r) /\ k = slot[r].key
      <3> DEFINE y == slot[r]
      <3>1. cache'[k] = [val |-> y.val, until |-> y.since + TTL]
        BY <2>3 DEF Fill, TypeOK
      <3>2. y \in Slot /\ TimelySlot(y) /\ y.phase = "fill" /\ SlotOK(y)
            /\ y.stage \notin {"idle", "stream"}
        BY <2>3 DEF Fill, At, TypeOK, RevokeInv, ShapeInv
      <3>3. y.since \in Nat /\ now \in Nat /\ y.since <= now /\ TTL \in Nat
        BY <3>2, QuotaAssumption DEF TypeOK, Slot, Times, TimelySlot
      <3>4. cache'[k].until <= now + TTL
        BY <3>1, <3>3
      <3>5. k = Token => y.stage = "auth"
        BY <2>3, <3>2, QuotaFacts DEF SlotOK, Slot, Stages
      <3>6. k = Token /\ Stale(y.val) => y.since <= revokedAt
        BY <3>2, <3>5 DEF TimelySlot
      <3>7. k = Token /\ Stale(y.val) => cache'[k].until <= revokedAt + TTL
        BY <3>1, <3>3, <3>6 DEF Stale, RevokeInv, Times
      <3>8. cache'[k].val = y.val
        BY <3>1
      <3> HIDE DEF y
      <3> QED BY <1>1, <3>4, <3>7, <3>8 DEF TimelyEntry, Stale, Listed
    <2>4. CASE Fill(r) /\ k # slot[r].key
      <3>1. cache'[k] = cache[k]
        BY <2>4 DEF Fill, TypeOK
      <3> QED BY <1>1, <2>1, <3>1 DEF TimelyEntry, Stale, Listed
    <2>5. CASE ~Fill(r)
      <3>1. UNCHANGED cache
        BY <2>5 DEF SlotStep, Request, Look, Ask, AskFails, Authenticate, Check, UsageKnown,
                    CommitUncapped, Commit, CommitFails, MirrorAdd, Rest
      <3> QED BY <2>2, <3>1
    <2> QED BY <2>3, <2>4, <2>5
  <1>4. /\ Listed => revokedAt \in Times /\ revokedAt <= now
        /\ \A a \in Admins : admin[a].at = "publish" /\ admin[a].key = Token =>
                                 admin[a].val = Revoked
    BY DEF RevokeInv
  <1> QED BY <1>1, <1>2, <1>3, <1>4 DEF RevokeInv, Listed

\* What was timely before the revocation succeeded is so when it just has.
LEMMA TimelyAtRevocation ==
    ASSUME TypeOK, RevokeInv, UNCHANGED <<now, cache, slot>>,
           revokedAt' = now \/ UNCHANGED <<redis[Token], revokedAt>>
    PROVE  /\ \A k \in Keys : TimelyEntry(k)'
           /\ \A r \in Slots : TimelySlot(slot[r])'
  <1>1. CASE UNCHANGED <<redis[Token], revokedAt>>
    BY <1>1 DEF RevokeInv, TimelyEntry, TimelySlot, Stale, Listed, Late
  <1>2. CASE revokedAt' = now
    <2>1. now \in Nat /\ TTL \in Nat /\ TTL > 0
      BY QuotaAssumption DEF TypeOK, Times
    <2>2. \A k \in Keys : TimelyEntry(k)'
      BY <1>2 DEF RevokeInv, TimelyEntry
    <2>3. ASSUME NEW r \in Slots PROVE TimelySlot(slot[r])'
      <3> DEFINE y == slot[r]
      <3>1. TimelySlot(y) /\ y.from \in Nat /\ y.since \in Nat
        BY QuotaAssumption DEF RevokeInv, TypeOK, Slot, Times
      <3>2. y.from < now + TTL /\ y.since <= now
        BY <2>1, <3>1 DEF TimelySlot
      <3> QED BY <1>2, <2>1, <3>1, <3>2 DEF TimelySlot, Late
    <2> QED BY <2>2, <2>3
  <1> QED BY <1>1, <1>2

\* When a revocation succeeds, whatever was answered before is not older than now.
LEMMA AdminStepKeepsRevokeInv ==
    ASSUME TypeOK, ShapeInv, RevokeInv, NEW a \in Admins, AdminStep(a)
    PROVE  RevokeInv'
  <1>1. now \in Times /\ (Listed => revokedAt \in Times /\ revokedAt <= now)
    BY DEF TypeOK, RevokeInv
  <1>2. ASSUME NEW k \in Keys, NEW v, Write(a, k, v), k = Token => v = Revoked
        PROVE  RevokeInv'
    <2>1. UNCHANGED <<redis, cache, now, slot, revokedAt>>
      BY <1>2 DEF Write
    <2>2. admin' = [admin EXCEPT ![a] = [at |-> "publish", key |-> k, val |-> v]]
      BY <1>2 DEF Write
    <2>3. \A b \in Admins : admin'[b].at = "publish" /\ admin'[b].key = Token =>
                                admin'[b].val = Revoked
      BY <1>2, <2>2 DEF TypeOK, RevokeInv
    <2>4. /\ \A q \in Keys : TimelyEntry(q)'
          /\ \A r \in Slots : TimelySlot(slot[r])'
      BY <2>1, TimelyAtRevocation DEF RevokeInv, TimelyEntry, TimelySlot, Stale, Listed, Late
    <2> QED BY <1>1, <2>1, <2>3, <2>4 DEF RevokeInv, Listed
  <1>3. CASE RevokeToken(a) \/ SetQuota(a) \/ DeleteQuota(a)
    <2>1. \E k \in Keys, v \in AllValues : Write(a, k, v) /\ (k = Token => v = Revoked)
      BY <1>3, QuotaFacts DEF RevokeToken, SetQuota, DeleteQuota, AllValues
    <2> QED BY <1>2, <2>1
  <1>4. CASE Publishes(a) \/ PublishFails(a)
    <2>1. UNCHANGED <<now, cache, slot>>
      BY <1>4 DEF Publishes, PublishFails
    <2>2. \E at \in {"new", "done"} : admin' = [admin EXCEPT ![a].at = at]
      BY <1>4 DEF Publishes, PublishFails
    <2>3. \A b \in Admins : admin'[b].at = "publish" => admin'[b] = admin[b]
      BY <2>2 DEF TypeOK, AdminCall
    <2>4. CASE Publishes(a)
      <3>1. /\ redis' = [redis EXCEPT ![admin[a].key] = admin[a].val]
            /\ revokedAt' = IF admin[a].key = Token /\ redis[admin[a].key] # Revoked THEN now
                            ELSE revokedAt
            /\ admin[a].at = "publish"
        BY <2>4 DEF Publishes
      <3>2. /\ revokedAt' = now \/ UNCHANGED <<redis[Token], revokedAt>>
            /\ Listed' => revokedAt' \in Times /\ revokedAt' <= now'
        <4>1. CASE admin[a].key = Token /\ redis[Token] # Revoked
          <5>1. revokedAt' = now /\ now <= now
            BY <1>1, <3>1, <4>1, QuotaAssumption DEF Times
          <5> QED BY <1>1, <2>1, <5>1
        <4>2. CASE admin[a].key = Token /\ Listed
          <5>1. redis'[Token] = Revoked /\ revokedAt' = revokedAt
            BY <3>1, <4>2, QuotaFacts DEF TypeOK, RevokeInv, Listed
          <5> QED BY <1>1, <2>1, <4>2, <5>1 DEF Listed
        <4>3. CASE admin[a].key # Token
          <5>1. redis'[Token] = redis[Token] /\ revokedAt' = revokedAt
            BY <3>1, <4>3, QuotaFacts DEF TypeOK
          <5> QED BY <1>1, <2>1, <5>1 DEF Listed
        <4> QED BY <4>1, <4>2, <4>3 DEF Listed
      <3>3. /\ \A k \in Keys : TimelyEntry(k)'
            /\ \A r \in Slots : TimelySlot(slot[r])'
        BY <2>1, <3>2, TimelyAtRevocation
      <3> QED BY <2>3, <3>2, <3>3 DEF RevokeInv
    <2>5. CASE PublishFails(a)
      <3>1. UNCHANGED <<redis, revokedAt>>
        BY <2>5 DEF PublishFails, stores
      <3>2. /\ \A k \in Keys : TimelyEntry(k)'
            /\ \A r \in Slots : TimelySlot(slot[r])'
        BY <2>1, <3>1 DEF RevokeInv, TimelyEntry, TimelySlot, Stale, Listed, Late
      <3> QED BY <2>1, <2>3, <3>1, <3>2 DEF RevokeInv, Listed
    <2> QED BY <1>4, <2>4, <2>5
  <1> QED BY <1>3, <1>4 DEF AdminStep

\* Time passes only forward; a restart and a loss of Redis forget.
LEMMA QuotaEnvironmentKeepsRevokeInv ==
    ASSUME TypeOK, RevokeInv, Tick \/ Rollover \/ GatewayRestarts \/ RedisLosesData
    PROVE  RevokeInv'
  <1>1. now \in Nat /\ TTL \in Nat /\ (Listed => revokedAt \in Nat)
    BY QuotaAssumption DEF TypeOK, RevokeInv, Times
  <1>2. ASSUME NEW r \in Slots PROVE slot[r].from \in Nat /\ slot[r].since \in Nat
    BY QuotaAssumption DEF TypeOK, Slot, Times
  <1>3. CASE Tick \/ Rollover
    <2>1. UNCHANGED <<redis, admin, cache, slot, revokedAt>> /\ now' = now + 1
      BY <1>3 DEF Tick, Rollover, stores
    <2>2. ASSUME NEW k \in Keys PROVE TimelyEntry(k)'
      <3>1. TimelyEntry(k) /\ (cache[k] # NoEntry => cache[k].until \in Nat)
        BY DEF RevokeInv, TypeOK, CacheEntry
      <3> QED BY <1>1, <2>1, <3>1 DEF TimelyEntry, Stale, Listed
    <2>3. ASSUME NEW r \in Slots PROVE TimelySlot(slot[r])'
      <3>1. TimelySlot(slot[r])
        BY DEF RevokeInv
      <3>2. slot[r].from <= now' /\ slot[r].since <= now'
        BY <1>1, <1>2, <2>1, <3>1 DEF TimelySlot
      <3> QED BY <2>1, <3>1, <3>2 DEF TimelySlot, Stale, Listed, Late
    <2>4. /\ Listed => revokedAt \in Times /\ revokedAt <= now'
          /\ \A a \in Admins : admin[a].at = "publish" /\ admin[a].key = Token =>
                                   admin[a].val = Revoked
      BY <1>1, <2>1 DEF RevokeInv
    <2> QED BY <2>1, <2>2, <2>3, <2>4 DEF RevokeInv, Listed
  <1>4. CASE GatewayRestarts
    <2>1. UNCHANGED <<redis, admin, now, revokedAt>>
      BY <1>4 DEF GatewayRestarts, stores
    <2>2. \A k \in Keys : TimelyEntry(k)'
      BY <1>4 DEF GatewayRestarts, TimelyEntry
    <2>3. ASSUME NEW r \in Slots PROVE TimelySlot(slot[r])'
      <3>1. slot'[r] = IdleSlot
        BY <1>4 DEF GatewayRestarts
      <3> QED BY <1>1, <2>1, <3>1 DEF TimelySlot, IdleSlot
    <2> QED BY <2>1, <2>2, <2>3 DEF RevokeInv, Listed
  <1>5. CASE RedisLosesData
    <2>1. UNCHANGED <<admin, cache, now, slot>> /\ ~Listed'
      BY <1>5, QuotaFacts DEF RedisLosesData, Listed
    <2>2. \A k \in Keys : TimelyEntry(k)'
      BY <2>1 DEF RevokeInv, TimelyEntry, Stale
    <2>3. \A r \in Slots : TimelySlot(slot[r])'
      BY <2>1 DEF RevokeInv, TimelySlot, Stale
    <2> QED BY <2>1, <2>2, <2>3 DEF RevokeInv
  <1> QED BY <1>3, <1>4, <1>5

\* Every step keeps what revocation needs.
LEMMA QuotaStepKeepsRevokeInv ==
    TypeOK /\ ShapeInv /\ RevokeInv /\ [QuotaNext]_quotaVars => RevokeInv'
  <1> SUFFICES ASSUME TypeOK, ShapeInv, RevokeInv, [QuotaNext]_quotaVars
               PROVE  RevokeInv'
    OBVIOUS
  <1>1. CASE UNCHANGED quotaVars
    <2>1. UNCHANGED <<redis, admin, cache, now, slot, revokedAt>>
      BY <1>1 DEF quotaVars, stores
    <2> QED BY <2>1 DEF RevokeInv, TimelyEntry, TimelySlot, Stale, Listed, Late
  <1>2. CASE QuotaNext
    BY <1>2, QuotaSteps, AdminStepKeepsRevokeInv, SlotStepKeepsRevokeInv,
       QuotaEnvironmentKeepsRevokeInv
  <1> QED BY <1>1, <1>2

\* auth/revocation.py: the time to live of an answer starts before Redis is asked, so a
\* revocation that succeeded is heard a time to live later by every look-up, however slow
\* those were that began before it, as long as Redis lists the token.
THEOREM RevocationsAreHeard == QuotaSpec => []RevokedTokensStop
  <1>1. TypeOK /\ RevokeInv => RevokedTokensStop
    <2> SUFFICES ASSUME TypeOK, RevokeInv, NEW r \in Slots, Listed,
                        slot[r].stage \in {"check", "stream"}
                 PROVE  ~CameLate(r)
      BY DEF RevokedTokensStop, Listed
    <2>1. ~Late(slot[r].from)
      BY DEF RevokeInv, TimelySlot
    <2> QED BY <2>1 DEF Late, CameLate
  <1> QED BY <1>1, QuotaInitTyped, QuotaInitRevokeInv, QuotaStepTyped,
             QuotaStepKeepsRevokeInv, PTL DEF QuotaSpec

\* The largest cap of a scope; it is positive when no cap is unlimited.
LEMMA MaxCapIsLargest ==
    ASSUME NEW s \in Scopes
    PROVE  /\ MaxCap(s) \in CapsOf(s) /\ \A n \in CapsOf(s) : n <= MaxCap(s)
           /\ MaxCap(s) \in Nat
           /\ 0 \notin CapsOf(s) => MaxCap(s) >= 1
  <1>1. \E m \in CapsOf(s) : \A n \in CapsOf(s) : n <= m
    BY QuotaAssumption
  <1>2. MaxCap(s) \in CapsOf(s) /\ \A n \in CapsOf(s) : n <= MaxCap(s)
    BY <1>1 DEF MaxCap
  <1>3. CapsOf(s) \subseteq Nat
    BY QuotaAssumption DEF CapsOf
  <1> QED BY <1>2, <1>3

\* A cap is one of CapsOf: with no cap unlimited, every scope is checked and counted.
LEMMA LimitIsACap ==
    ASSUME NEW s \in Scopes, NEW v \in Values(s)
    PROVE  Limit(s, v) \in CapsOf(s) /\ Limit(s, v) \in Nat
  BY QuotaFacts, QuotaAssumption DEF Limit, CapsOf, Absent

\* The tokens of a set of requests are at most those of a larger one.
LEMMA InFlightIsBounded ==
    ASSUME NEW A, NEW B, A \subseteq B, B \subseteq Slots
    PROVE  /\ Cardinality(A) \in Nat /\ Cardinality(A) <= Cardinality(B)
           /\ Cardinality(A) * MaxTokens \in Nat
           /\ Cardinality(A) * MaxTokens <= Cardinality(B) * MaxTokens
  <1>1. IsFiniteSet(B)
    BY QuotaAssumption, FS_Subset
  <1>2. IsFiniteSet(A) /\ Cardinality(A) <= Cardinality(B)
    BY <1>1, FS_Subset
  <1>3. Cardinality(A) \in Nat /\ Cardinality(B) \in Nat
    BY <1>1, <1>2, FS_CardinalityType
  <1>4. \A m, n \in Nat : m <= n => m * MaxTokens <= n * MaxTokens /\ m * MaxTokens \in Nat
    BY QuotaAssumption
  <1> QED BY <1>2, <1>3, <1>4

\* What a step does to the budget of a scope: requests leave it, or one is admitted below
\* the cap, or one is counted, or a window begins.
Leaves(s) == /\ used'[s] = used[s] /\ period'[s] = period[s]
             /\ InFlight(s)' \subseteq InFlight(s)
Admits(s) == /\ used'[s] = used[s] /\ period'[s] = period[s]
             /\ used[s][period[s]] < MaxCap(s)
Counts(s) == \E r \in InFlight(s), n \in 0..MaxTokens :
                /\ used'[s] = [used[s] EXCEPT ![period[s]] = @ + n]
                /\ period'[s] = period[s]
                /\ InFlight(s)' \subseteq InFlight(s) \ {r}
Begins(s) == /\ used'[s] = used[s] /\ period'[s] = period[s] + 1 /\ period'[s] \in Periods

\* Whatever of the four a step does, the budget of the scope stands.
LEMMA BudgetMoves ==
    ASSUME TypeOK, NEW s \in Scopes, 0 \notin CapsOf(s), Budget(s), Fresh(s),
           Leaves(s) \/ Admits(s) \/ Counts(s) \/ Begins(s)
    PROVE  Budget(s)' /\ Fresh(s)'
  <1> DEFINE M == MaxTokens
             C == MaxCap(s)
             I == Cardinality(InFlight(s))
             J == Cardinality(InFlight(s)')
             S == Cardinality(Slots)
             u == used[s][period[s]]
  <1>1. /\ used[s] \in [Periods -> Nat] /\ period[s] \in Periods /\ u \in Nat
        /\ Periods \subseteq Nat /\ period[s] \in Nat
    BY QuotaAssumption DEF TypeOK, Periods, Times
  <1>2. C \in Nat /\ C >= 1 /\ M \in Nat /\ 0 <= M
    BY MaxCapIsLargest, QuotaAssumption
  <1>3. InFlight(s) \subseteq Slots /\ InFlight(s)' \subseteq Slots
    BY DEF InFlight
  <1>4. /\ I \in Nat /\ I * M \in Nat /\ I * M <= S * M
        /\ J \in Nat /\ J * M \in Nat /\ J * M <= S * M
        /\ S * M \in Nat
    BY <1>3, InFlightIsBounded
  <1>5. /\ u + I * M <= C - 1 + S * M
        /\ \A p \in Periods : used[s][p] <= C - 1 + S * M
    BY DEF Budget, Ceiling
  <1>6. Budget(s)' <=> /\ used'[s][period'[s]] + J * M <= C - 1 + S * M
                       /\ \A p \in Periods : used'[s][p] <= C - 1 + S * M
    BY DEF Budget, Ceiling
  <1>7. CASE Leaves(s)
    <2>1. used'[s] = used[s] /\ period'[s] = period[s] /\ J * M <= I * M
      BY <1>3, <1>7, InFlightIsBounded DEF Leaves
    <2>2. Fresh(s)'
      BY <2>1 DEF Fresh
    <2> HIDE DEF I, J, C, S, M
    <2>3. used'[s][period'[s]] + J * M <= C - 1 + S * M
      BY <1>1, <1>2, <1>4, <1>5, <2>1
    <2> QED BY <1>5, <1>6, <2>1, <2>2, <2>3
  <1>8. CASE Admits(s)
    <2>1. used'[s] = used[s] /\ period'[s] = period[s] /\ u < C
      BY <1>8 DEF Admits
    <2>2. Fresh(s)'
      BY <2>1 DEF Fresh
    <2> HIDE DEF I, J, C, S, M
    <2>3. used'[s][period'[s]] + J * M <= C - 1 + S * M
      BY <1>1, <1>2, <1>4, <2>1
    <2> QED BY <1>5, <1>6, <2>1, <2>2, <2>3
  <1>9. CASE Counts(s)
    <2>1. PICK r \in InFlight(s), n \in 0..MaxTokens :
             /\ used'[s] = [used[s] EXCEPT ![period[s]] = @ + n]
             /\ period'[s] = period[s]
             /\ InFlight(s)' \subseteq InFlight(s) \ {r}
      BY <1>9 DEF Counts
    <2>2. n \in Nat /\ n <= M /\ used'[s][period[s]] = u + n
          /\ \A p \in Periods : p # period[s] => used'[s][p] = used[s][p]
      BY <1>1, <2>1, QuotaAssumption
    <2>3. J <= I - 1
      <3>1. IsFiniteSet(InFlight(s))
        BY <1>3, QuotaAssumption, FS_Subset
      <3>2. Cardinality(InFlight(s) \ {r}) = I - 1
        BY <2>1, <3>1, FS_RemoveElement
      <3>3. J <= Cardinality(InFlight(s) \ {r})
        BY <1>3, <2>1, InFlightIsBounded
      <3> QED BY <3>2, <3>3
    <2>4. J * M <= I * M - M
      <3>1. \A a, b, m \in Nat : a <= b - 1 => a * m <= b * m - m
        OBVIOUS
      <3> HIDE DEF I, J, M
      <3> QED BY <1>2, <1>4, <2>3, <3>1
    <2> HIDE DEF I, J, C, S, M, u
    <2>5. u + n + J * M <= C - 1 + S * M
      BY <1>1, <1>2, <1>4, <1>5, <2>2, <2>4
    <2>6. \A p \in Periods : used'[s][p] <= C - 1 + S * M
      BY <1>1, <1>2, <1>4, <1>5, <2>2, <2>5
    <2>7. Fresh(s)'
      <3> SUFFICES ASSUME NEW p \in Periods, p > period[s] PROVE used'[s][p] = 0
        BY <2>1 DEF Fresh
      <3>1. p # period[s] /\ used[s][p] = 0
        BY <1>1 DEF Fresh
      <3> QED BY <2>2, <3>1
    <2> QED BY <1>6, <2>1, <2>2, <2>5, <2>6, <2>7
  <1>10. CASE Begins(s)
    <2>1. used'[s] = used[s] /\ period'[s] = period[s] + 1 /\ period'[s] \in Periods
      BY <1>10 DEF Begins
    <2>2. used'[s][period'[s]] = 0
      <3> DEFINE q == period[s] + 1
      <3>1. q \in Periods /\ q > period[s]
        BY <1>1, <2>1
      <3>2. used[s][q] = 0
        BY <3>1 DEF Fresh
      <3> QED BY <2>1, <3>2
    <2> HIDE DEF I, J, C, S, M, u
    <2>3. used'[s][period'[s]] + J * M <= C - 1 + S * M
      BY <1>2, <1>4, <2>2
    <2>4. Fresh(s)'
      <3> SUFFICES ASSUME NEW p \in Periods, p > period'[s] PROVE used[s][p] = 0
        BY <2>1 DEF Fresh
      <3>1. p > period[s]
        BY <1>1, <2>1
      <3> QED BY <3>1 DEF Fresh
    <2> QED BY <1>5, <1>6, <2>1, <2>3, <2>4
  <1> QED BY <1>7, <1>8, <1>9, <1>10

\* A request is admitted below the cap, and counted once for what it holds in flight.
LEMMA SlotStepMoves ==
    ASSUME TypeOK, ShapeInv, NEW r \in Slots, SlotStep(r),
           NEW s \in Scopes, 0 \notin CapsOf(s)
    PROVE  Leaves(s) \/ Admits(s) \/ Counts(s)
  <1> DEFINE y == slot[r]
  <1>1. PICK x \in Slot : slot' = [slot EXCEPT ![r] = x]
    BY SlotStepFits
  <1>2. /\ slot'[r] = x /\ \A q \in Slots : q # r => slot'[q] = slot[q]
        /\ y \in Slot /\ SlotOK(y) /\ y.key \in Keys
    BY <1>1 DEF TypeOK, ShapeInv, Slot
  <1>3. period' = period /\ period[s] \in Periods
        /\ used \in [Scopes -> [Periods -> Nat]] /\ s \in {"user", "tenant"}
    BY SlotStepFrame DEF TypeOK, Scopes
  <1>4. InFlight(s)' = {q \in Slots : Uncounted(s, slot'[q])}
    BY DEF InFlight, Uncounted
  <1>5. Uncounted(s, y) \/ ~Uncounted(s, x) => InFlight(s)' \subseteq InFlight(s)
    BY <1>2, <1>4 DEF InFlight
  <1>6. ~Uncounted(s, x) => InFlight(s)' \subseteq InFlight(s) \ {r}
    BY <1>2, <1>4 DEF InFlight
  <1>7. ~Uncounted(s, IdleSlot)
    BY DEF Uncounted, IdleSlot
  <1>8. ASSUME NEW stage, NEW key, x = Enter(r, stage, key)
        PROVE  x.stage = stage /\ x.key = key /\ x.phase = "look"
    BY <1>2, <1>8 DEF Enter, Slot
  <1>9. CASE /\ \/ Request(r) \/ Look(r) \/ Ask(r) \/ Fill(r) \/ AskFails(r)
                \/ Authenticate(r) \/ UsageKnown(r) \/ CommitUncapped(r) \/ MirrorAdd(r)
    <2>1. used' = used
      BY <1>9 DEF Request, Look, Ask, Fill, AskFails, Authenticate, UsageKnown,
                  CommitUncapped, MirrorAdd, Others, counters
    <2>2. Uncounted(s, y) \/ ~Uncounted(s, x)
      <3>1. CASE Request(r)
        <4>1. x = [IdleSlot EXCEPT !.stage = "auth", !.from = now]
          BY <1>2, <3>1 DEF Request, Becomes, TypeOK
        <4>2. x.stage = "auth"
          BY <4>1 DEF IdleSlot
        <4> QED BY <4>2 DEF Uncounted
      <3>2. CASE Look(r) \/ Ask(r) \/ Fill(r)
        <4>1. y.phase # "mirror"
          BY <3>2 DEF Look, Ask, Fill, At
        <4>2. x.stage = y.stage /\ x.key = y.key
          <5>1. CASE Look(r)
            BY <1>2, <5>1 DEF Look, Slot, TypeOK
          <5>2. CASE Ask(r) \/ Fill(r)
            BY <1>2, <5>2 DEF Ask, Fill, Slot, TypeOK
          <5> QED BY <3>2, <5>1, <5>2
        <4> QED BY <4>1, <4>2 DEF Uncounted
      <3>3. CASE AskFails(r)
        BY <1>2, <1>7, <3>3 DEF AskFails, TypeOK
      <3>4. CASE Authenticate(r)
        <4>1. x = IF y.val = Revoked THEN IdleSlot ELSE Enter(r, "check", "user")
          BY <1>2, <3>4 DEF Authenticate, Becomes, TypeOK
        <4>2. x = Enter(r, "check", "user") => ~Uncounted(s, x)
          BY <1>8 DEF Uncounted
        <4> QED BY <1>7, <4>1, <4>2
      <3>5. CASE UsageKnown(r)
        BY <3>5 DEF UsageKnown, Uncounted
      <3>6. CASE CommitUncapped(r) \/ MirrorAdd(r)
        <4>1. x = AfterCommit(r)
          BY <1>2, <3>6 DEF CommitUncapped, MirrorAdd, Becomes, TypeOK
        <4>2. y.stage = "commit"
          BY <1>2, <3>6 DEF CommitUncapped, MirrorAdd, At, SlotOK
        <4>3. CASE y.key = "user"
          <5>1. x.stage = "commit" /\ x.key = "tenant"
            BY <1>8, <4>1, <4>3 DEF AfterCommit
          <5> QED BY <1>3, <4>2, <4>3, <5>1 DEF Uncounted
        <4>4. CASE y.key # "user"
          BY <1>7, <4>1, <4>4 DEF AfterCommit
        <4> QED BY <4>3, <4>4
      <3> QED BY <1>9, <3>1, <3>2, <3>3, <3>4, <3>5, <3>6
    <2> QED BY <1>3, <1>5, <2>1, <2>2 DEF Leaves
  <1>10. CASE Check(r)
    <2> DEFINE limit == Limit(y.key, y.val)
    <2>1. used' = used
      BY <1>10 DEF Check, Others, counters
    <2>2. y.stage = "check" /\ y.key \in Scopes /\ y.val \in Values(y.key)
      BY <1>2, <1>10 DEF Check, At, SlotOK
    <2>3. x = IF Exceeded(y.key, limit) THEN IdleSlot
              ELSE IF y.key = "user" THEN Enter(r, "check", "tenant")
              ELSE Enter(r, "stream", Token)
      BY <1>2, <1>10 DEF Check, Becomes, TypeOK
    <2>4. CASE Exceeded(y.key, limit)
      BY <1>3, <1>5, <1>7, <2>1, <2>3, <2>4 DEF Leaves
    <2>5. CASE ~Exceeded(y.key, limit) /\ y.key = s
      <3>1. limit \in CapsOf(s) /\ limit \in Nat
        BY <2>2, <2>5, LimitIsACap
      <3>2. limit > 0 /\ limit <= MaxCap(s) /\ MaxCap(s) \in Nat
        BY <3>1, MaxCapIsLargest
      <3>3. ~(used[s][period[s]] >= limit)
        BY <2>5, <3>2 DEF Exceeded, Read
      <3>4. used[s][period[s]] < MaxCap(s)
        <4>1. used[s][period[s]] \in Nat
          BY <1>3
        <4> HIDE DEF limit
        <4> QED BY <3>1, <3>2, <3>3, <4>1
      <3> QED BY <1>3, <2>1, <3>4 DEF Admits
    <2>6. CASE ~Exceeded(y.key, limit) /\ y.key # s
      <3>1. CASE s = "user"
        BY <1>3, <1>5, <2>1, <2>2, <2>6, <3>1, QuotaFacts DEF Uncounted, Leaves
      <3>2. CASE s = "tenant"
        <4>1. y.key = "user"
          BY <2>2, <2>6, <3>2, QuotaFacts
        <4>2. x.stage = "check" /\ x.key = "tenant"
          BY <1>8, <2>3, <2>6, <4>1
        <4>3. ~Uncounted(s, x)
          BY <3>2, <4>2 DEF Uncounted
        <4> QED BY <1>3, <1>5, <2>1, <4>3 DEF Leaves
      <3> QED BY <1>3, <3>1, <3>2
    <2> QED BY <2>4, <2>5, <2>6
  <1>11. CASE Commit(r) \/ CommitFails(r)
    <2> DEFINE p == period[s]
    <2>1. /\ y.stage = "commit" /\ y.phase = "act" /\ y.key \in Scopes
          /\ y.tokens \in 0..MaxTokens
      BY <1>2, <1>11 DEF Commit, CommitFails, Committing, At, SlotOK, Slot
    <2>2. used' = Added(used, r) \/ used' = used
      BY <1>11 DEF Commit, CommitFails
    <2>3. x = [y EXCEPT !.phase = "mirror"] \/ x = IdleSlot
      BY <1>2, <1>11 DEF Commit, CommitFails, Becomes, TypeOK
    <2>4. x # IdleSlot => x.stage = "commit" /\ x.key = y.key /\ x.phase = "mirror"
      BY <1>2, <2>1, <2>3 DEF Slot
    <2>5. CASE y.key = s
      <3>1. Uncounted(s, y) /\ r \in InFlight(s)
        BY <2>1, <2>5 DEF Uncounted, InFlight
      <3>2. ~Uncounted(s, x)
        BY <1>3, <1>7, <2>4, <2>5 DEF Uncounted
      <3>3. CASE used' = used
        BY <1>3, <1>5, <3>2, <3>3 DEF Leaves
      <3>4. CASE used' = Added(used, r)
        <4>1. used'[s] = [used[s] EXCEPT ![p] = @ + y.tokens]
          BY <1>3, <2>5, <3>4 DEF Added
        <4> QED BY <1>3, <1>6, <2>1, <3>1, <3>2, <4>1 DEF Counts
      <3> QED BY <2>2, <3>3, <3>4
    <2>6. CASE y.key # s
      <3>1. used'[s] = used[s]
        BY <1>3, <2>2, <2>6 DEF Added
      <3>2. Uncounted(s, x) => Uncounted(s, y)
        BY <1>7, <2>1, <2>4, <2>6 DEF Uncounted
      <3> QED BY <1>3, <1>5, <3>1, <3>2 DEF Leaves
    <2> QED BY <2>5, <2>6
  <1> QED BY <1>9, <1>10, <1>11 DEF SlotStep

\* Every step does one of the four to a scope without an unlimited cap.
LEMMA QuotaStepMoves ==
    ASSUME TypeOK, ShapeInv, [QuotaNext]_quotaVars, NEW s \in Scopes, 0 \notin CapsOf(s)
    PROVE  Leaves(s) \/ Admits(s) \/ Counts(s) \/ Begins(s)
  <1>1. UNCHANGED <<used, period, slot>> => Leaves(s)
    BY DEF Leaves, InFlight, Uncounted
  <1>2. CASE UNCHANGED quotaVars
    BY <1>1, <1>2 DEF quotaVars, counters
  <1>3. CASE \E a \in Admins : AdminStep(a)
    BY <1>1, <1>3 DEF AdminStep, RevokeToken, SetQuota, DeleteQuota, Write, Publishes,
                      PublishFails, counters
  <1>4. CASE \E r \in Slots : SlotStep(r)
    BY <1>4, SlotStepMoves
  <1>5. CASE Tick \/ RedisLosesData
    BY <1>1, <1>5 DEF Tick, RedisLosesData, counters
  <1>6. CASE GatewayRestarts
    <2>1. \A r \in Slots : slot'[r] = IdleSlot
      BY <1>6 DEF GatewayRestarts
    <2>2. InFlight(s)' = {}
      BY <2>1 DEF InFlight, Uncounted, IdleSlot
    <2> QED BY <1>6, <2>2 DEF GatewayRestarts, Leaves, counters
  <1>7. CASE Rollover
    <2>1. UNCHANGED <<used, slot>>
      BY <1>7 DEF Rollover, counters
    <2>2. period'[s] = period[s] \/ period'[s] = period[s] + 1
      BY <1>7 DEF Rollover
    <2>3. period'[s] \in Periods
      BY QuotaStepTyped DEF TypeOK
    <2>4. InFlight(s)' = InFlight(s)
      BY <2>1 DEF InFlight, Uncounted
    <2> QED BY <2>1, <2>2, <2>3, <2>4 DEF Leaves, Begins
  <1> QED BY <1>2, <1>3, <1>4, <1>5, <1>6, <1>7, QuotaSteps

\* At first nothing is counted or in flight.
LEMMA QuotaInitBudgetInv == QuotaInit => BudgetInv
  <1> SUFFICES ASSUME QuotaInit, NEW s \in Scopes, 0 \notin CapsOf(s)
               PROVE  Budget(s) /\ Fresh(s)
    BY DEF BudgetInv
  <1>1. \A p \in Periods : used[s][p] = 0
    BY DEF QuotaInit
  <1>2. period[s] \in Periods
    BY QuotaInitTyped DEF TypeOK
  <1>3. \A r \in Slots : slot[r] = IdleSlot
    BY DEF QuotaInit
  <1>4. InFlight(s) = {}
    BY <1>3 DEF InFlight, Uncounted, IdleSlot
  <1>5. Cardinality(InFlight(s)) = 0
    BY <1>4, FS_EmptySet
  <1>6. MaxCap(s) \in Nat /\ MaxCap(s) >= 1
    BY MaxCapIsLargest
  <1>7. Cardinality(Slots) * MaxTokens \in Nat /\ 0 * MaxTokens = 0
    BY InFlightIsBounded, QuotaAssumption
  <1>8. Ceiling(s) >= 0 /\ Ceiling(s) \in Int
    BY <1>6, <1>7 DEF Ceiling
  <1> QED BY <1>1, <1>2, <1>5, <1>7, <1>8 DEF Budget, Fresh

\* Every step keeps the budgets.
LEMMA QuotaStepKeepsBudgetInv ==
    TypeOK /\ ShapeInv /\ BudgetInv /\ [QuotaNext]_quotaVars => BudgetInv'
  <1> SUFFICES ASSUME TypeOK, ShapeInv, BudgetInv, [QuotaNext]_quotaVars
               PROVE  BudgetInv'
    OBVIOUS
  <1>1. ASSUME NEW s \in Scopes, 0 \notin CapsOf(s)
        PROVE  Budget(s)' /\ Fresh(s)'
    BY <1>1, QuotaStepMoves, BudgetMoves DEF BudgetInv
  <1> QED BY <1>1 DEF BudgetInv

\* quota/enforcer.py: a window is never overdrawn by more than the requests in flight, for
\* any caps, tokens and number of requests, over restarts, a loss of Redis and the
\* beginning of the next window while requests are on their way.
THEOREM OvershootsAreInFlight == QuotaSpec => []OvershootIsInFlight
  <1>1. TypeOK /\ BudgetInv => OvershootIsInFlight
    BY DEF BudgetInv, Budget, Ceiling, OvershootIsInFlight
  <1> QED BY <1>1, QuotaInitTyped, QuotaInitBudgetInv, QuotaStepTyped,
             QuotaStepKeepsBudgetInv, PTL DEF QuotaSpec
===============================================================================
