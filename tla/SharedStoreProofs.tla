-------------------------- MODULE SharedStoreProofs ---------------------------
(***************************************************************************)
(* Why the store loses nothing: one user at a time has a file, and its     *)
(* copy has all of the file that is stored.                                *)
(***************************************************************************)
EXTENDS SharedStore, TLAPS

StoreTypeOK ==
    /\ files \in [Names -> SUBSET Updates]
    /\ out \in [Names -> [Users -> SUBSET Updates]]
    /\ behind \subseteq Users
    /\ reported \in [Names -> SUBSET Updates]

OneHolder ==
    \A n \in Names, u, v \in Users : u # v => out[n][u] = {} \/ out[n][v] = {}

HoldersAreWhole ==
    \A n \in Names, u \in Users :
        u \notin behind /\ out[n][u] # {} => files[n] \subseteq out[n][u]

StoreInv == StoreTypeOK /\ OneHolder /\ HoldersAreWhole /\ ReportedStays

LEMMA FallBehindStep ==
    ASSUME StoreInv, NEW u \in Users, FallBehind(u)
    PROVE  StoreInv'
  <1> USE DEF StoreInv, FallBehind
  <1>1. StoreTypeOK' /\ OneHolder'
    BY DEF StoreTypeOK, OneHolder
  <1>2. HoldersAreWhole' /\ ReportedStays'
    BY DEF HoldersAreWhole, ReportedStays
  <1> QED
    BY <1>1, <1>2

LEMMA CheckOutStep ==
    ASSUME StoreInv, NEW u \in Users, NEW n \in Names, CheckOut(u, n)
    PROVE  StoreInv'
  <1> USE DEF StoreInv
  <1>1. /\ out' \in [Names -> [Users -> SUBSET Updates]]
        /\ \A m \in Names, v \in Users : <<m, v>> # <<n, u>> => out'[m][v] = out[m][v]
    BY DEF CheckOut, OnlyCopyOf
  <1>2. StoreTypeOK' /\ ReportedStays'
    BY <1>1 DEF CheckOut, StoreTypeOK, ReportedStays
  <1>3. OneHolder'
    BY <1>1 DEF CheckOut, OneHolder
  <1>4. ASSUME NEW m \in Names, NEW v \in Users, v \notin behind', out'[m][v] # {}
        PROVE  files'[m] \subseteq out'[m][v]
    <2>1. CASE <<m, v>> = <<n, u>>
      BY <1>4, <2>1 DEF CheckOut
    <2>2. CASE <<m, v>> # <<n, u>>
      BY <1>1, <1>4, <2>2 DEF CheckOut, HoldersAreWhole
    <2> QED
      BY <2>1, <2>2
  <1> QED
    BY <1>2, <1>3, <1>4 DEF HoldersAreWhole

LEMMA ChangeStep ==
    ASSUME StoreInv, NEW u \in Users, NEW n \in Names, Change(u, n)
    PROVE  StoreInv'
  <1> USE DEF StoreInv
  <1>1. /\ out' \in [Names -> [Users -> SUBSET Updates]]
        /\ \A m \in Names, v \in Users : <<m, v>> # <<n, u>> => out'[m][v] = out[m][v]
        /\ out[n][u] # {} /\ out[n][u] \subseteq out'[n][u]
        /\ UNCHANGED <<files, behind, reported>>
    BY DEF Change, OnlyCopyOf
  <1>2. StoreTypeOK' /\ ReportedStays'
    BY <1>1 DEF StoreTypeOK, ReportedStays
  <1>3. \A m \in Names, v \in Users :
            (out'[m][v] # {} <=> out[m][v] # {}) /\ out[m][v] \subseteq out'[m][v]
    BY <1>1
  <1>4. OneHolder'
    BY <1>3 DEF OneHolder
  <1>5. HoldersAreWhole'
    BY <1>1, <1>3 DEF HoldersAreWhole
  <1> QED
    BY <1>2, <1>4, <1>5

\* A user that gives up its copy disturbs nobody.
LEMMA DropKeeps ==
    ASSUME StoreInv, NEW gone \in SUBSET Users, Drop(gone) \/ UNCHANGED out
    PROVE  /\ out' \in [Names -> [Users -> SUBSET Updates]]
           /\ \A m \in Names, v \in Users : out'[m][v] = {} \/ out'[m][v] = out[m][v]
           /\ OneHolder'
  <1>1. /\ out' \in [Names -> [Users -> SUBSET Updates]]
        /\ \A m \in Names, v \in Users : out'[m][v] = {} \/ out'[m][v] = out[m][v]
    BY DEF StoreInv, StoreTypeOK, Drop
  <1> QED
    BY <1>1 DEF StoreInv, OneHolder

LEMMA StoreStep ==
    ASSUME StoreInv, NEW u \in Users, NEW n \in Names, Store(u, n)
    PROVE  StoreInv'
  <1> USE DEF StoreInv
  <1>1. /\ out' \in [Names -> [Users -> SUBSET Updates]]
        /\ \A m \in Names, v \in Users : out'[m][v] = {} \/ out'[m][v] = out[m][v]
        /\ OneHolder'
    BY DropKeeps DEF Store
  <1>2. /\ files' \in [Names -> SUBSET Updates]
        /\ \A m \in Names \ {n} : files'[m] = files[m]
        /\ files'[n] \subseteq files[n] \cup out[n][u]
        /\ u \notin behind => files[n] \subseteq files'[n]
        /\ out[n][u] # {} /\ behind' = behind
    BY DEF Store, OnlyFile
  <1>3. /\ reported' \in [Names -> SUBSET Updates]
        /\ \A m \in Names : \/ reported'[m] = reported[m]
                            \/ m = n /\ reported'[m] = reported[m] \cup files'[m]
    <2>1. files'[n] \in SUBSET Updates
      BY <1>2
    <2> QED
      BY <2>1 DEF Store, StoreTypeOK
  <1>4. StoreTypeOK'
    BY <1>1, <1>2, <1>3 DEF StoreTypeOK
  <1>5. ASSUME NEW m \in Names, NEW v \in Users, v \notin behind, out'[m][v] # {}
        PROVE  files'[m] \subseteq out'[m][v]
    <2>1. out'[m][v] = out[m][v] /\ files[m] \subseteq out[m][v]
      BY <1>1, <1>5 DEF HoldersAreWhole
    <2>2. CASE m # n
      BY <1>2, <2>1, <2>2
    <2>3. CASE m = n
      <3>1. v = u
        BY <1>2, <1>5, <2>1, <2>3 DEF OneHolder
      <3> QED
        BY <1>2, <2>1, <2>3, <3>1
    <2> QED
      BY <2>2, <2>3
  <1>6. ASSUME behind = {}, NEW m \in Names PROVE reported'[m] \subseteq files'[m]
    <2>1. reported[m] \subseteq files'[m]
      BY <1>2, <1>6 DEF ReportedStays
    <2> QED
      BY <1>3, <2>1
  <1> QED
    BY <1>1, <1>2, <1>4, <1>5, <1>6 DEF HoldersAreWhole, ReportedStays

LEMMA LoseStep ==
    ASSUME StoreInv, NEW gone \in SUBSET Users, Lose(gone)
    PROVE  StoreInv'
  BY DropKeeps DEF Lose, StoreInv, StoreTypeOK, HoldersAreWhole, ReportedStays

LEMMA StoreInvStep == StoreInv /\ [Next]_vars => StoreInv'
  <1>1. StoreInv /\ UNCHANGED vars => StoreInv'
    BY DEF vars, StoreInv, StoreTypeOK, OneHolder, HoldersAreWhole, ReportedStays
  <1> QED
    BY <1>1, FallBehindStep, CheckOutStep, ChangeStep, StoreStep, LoseStep DEF Next

\* Whatever the users do and lose, the store keeps what it has reported.
THEOREM StoreKeepsReported == Spec => []ReportedStays
  <1>1. Init => StoreInv
    BY DEF Init, StoreInv, StoreTypeOK, OneHolder, HoldersAreWhole, ReportedStays
  <1>2. StoreInv => ReportedStays
    BY DEF StoreInv
  <1> QED
    BY <1>1, <1>2, StoreInvStep, PTL DEF Spec
===============================================================================
