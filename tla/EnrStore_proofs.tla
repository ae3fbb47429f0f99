-------------------------- MODULE EnrStore_proofs --------------------------
(***************************************************************************)
(* The identity of a node and the numbers of its records over any number   *)
(* of starts, stops, crashes, updates and failures of the disk.            *)
(***************************************************************************)
EXTENDS EnrStore, TLAPS

HasKey    == pc \in {"load_enr", "save_enr", "spawn", "running"}
HasRecord == pc \in {"save_enr", "spawn", "running"}

\* Types, what is there in which phase of Service::new, and what only exists
\* while a node runs.
StoreTypes ==
    /\ EnrStoreTypeOK
    /\ keys \in Nat /\ socket_events \in Nat /\ disturbed \in BOOLEAN
    /\ config \in Config
    /\ HasKey \/ pc = "write_key" => local_key \in 1..keys
    /\ HasRecord => local_enr \in Enr
    /\ saving # None => pc \in {"save_enr", "running"}
    /\ socket_events # 0 => pc = "running"

AsConfigured(enr) ==
    /\ enr.id = local_key
    /\ enr.tcp = config.libp2p_port /\ enr.eth2 = config.fork
    /\ config.ip # "None" => enr.ip = config.ip

\* The record that a start builds or loads fits, and is the one that
\* NetworkGlobals is given; discv5 keeps its owner.
Configured ==
    /\ pc \in {"save_enr", "spawn"} => AsConfigured(local_enr)
    /\ pc = "running" => AsConfigured(globals_enr) /\ local_enr.id = local_key

\* Everything that is published, on disk, or about to be belongs to the key on
\* disk; without one there is nothing.
Identity ==
    /\ pc = "write_key" => key_file.kind # "Key"
    /\ HasKey => key_file = Key(local_key)
    /\ saving # None => saving.id = local_key
    /\ key_file.kind # "Key" => published = {} /\ enr_file.kind # "Enr"
    /\ key_file.kind = "Key" =>
          /\ \A a \in published : a.id = key_file.id
          /\ enr_file.kind = "Enr" => enr_file.id = key_file.id

\* Record b supersedes record a, or is the same.
NotAfter(a, b) == a.seq < b.seq \/ a = b

\* Peers have seen no two records with one number; the record in use, or on disk
\* while there is none in use, supersedes all that they have seen, and what is
\* not yet on disk is about to be saved.
Numbers ==
    /\ \A a, b \in published : a.seq = b.seq => a = b
    /\ HasRecord => \A a \in published : NotAfter(a, local_enr)
    /\ ~HasRecord => \A a \in published : enr_file.kind = "Enr" /\ NotAfter(a, enr_file)
    /\ pc = "save_enr" => saving = local_enr
    /\ pc = "spawn" => enr_file = local_enr
    /\ pc = "running" /\ socket_events = 0 =>
          IF saving = None THEN enr_file = local_enr ELSE saving = local_enr

Undisturbed == ~disturbed => Identity /\ Numbers

StoreInv == StoreTypes /\ Configured /\ Undisturbed

-----------------------------------------------------------------------------

\* A step of one of the actions, as the proofs below take it apart.
LEMMA StoreSteps ==
    ASSUME NEW P,
           \A c \in Config : start(c) => P,
           load_private_key => P, write_key => P, build_or_load_enr => P,
           end_save => P, spawn => P,
           \A ip \in Address : discv5_update(ip) => P,
           socket_updated => P, stop => P,
           UNCHANGED vars => P,
           [Next]_vars
    PROVE  P
BY DEF Next

\* Keys are only added, so what is a record stays one.
LEMMA EnrGrows ==
    ASSUME keys \in Nat, keys' \in Nat, keys <= keys'
    PROVE  Enr \subseteq Enr'
BY DEF Enr

LEMMA EnrKept ==
    ASSUME keys' = keys
    PROVE  Enr' = Enr
BY DEF Enr

\* build_enr makes a record, whatever number it is given.
LEMMA BuildsEnr ==
    ASSUME NEW c \in Config, NEW k \in 1..keys, NEW seq \in 1..SEQ_MAX
    PROVE  [build_enr(k, c) EXCEPT !.seq = seq] \in Enr
BY DEF build_enr, Enr, Config

\* A record is none of the other things that a file or a variable may hold.
LEMMA EnrKind ==
    /\ \A e \in Enr : e.kind = "Enr" /\ e # None /\ e # Torn /\ e # Absent
    /\ Absent.kind = "Absent" /\ Torn.kind = "Torn" /\ \A k : Key(k).kind = "Key"
BY DEF Enr, None, Torn, Absent, Key

\* What build_or_load_enr can do with the record that it reads: use it, give up,
\* or save a new one with the next number.
Loads(disk) ==
    /\ disk \in Enr /\ AsConfigured(disk)
    /\ local_enr' = disk /\ pc' = "spawn" /\ UNCHANGED <<saving, enr_file>>
GivesUp == pc' = "down" /\ UNCHANGED <<local_enr, saving, enr_file>>
Builds(disk) ==
    /\ local_enr' \in Enr /\ AsConfigured(local_enr')
    /\ disk.kind = "Enr" /\ disk.id = local_key => local_enr'.seq = disk.seq + 1
    /\ saving' = local_enr' /\ pc' = "save_enr"
    /\ enr_file' = Torn \/ UNCHANGED enr_file

LEMMA BuildsOrLoads ==
    ASSUME StoreTypes, build_or_load_enr
    PROVE  \E disk \in {enr_file, Absent} :
              /\ Loads(disk) \/ GivesUp \/ Builds(disk)
              /\ disturbed' = (disturbed \/ (disk # enr_file /\ enr_file.kind = "Enr"))
<1> USE DEF StoreTypes, EnrStoreTypeOK
<1>1. PICK disk \in {enr_file} \cup (IF DiskFails THEN {Absent} ELSE {}) :
        LET new == build_enr(local_key, config)
            seq == next_seq(new, disk)
            enr == [new EXCEPT !.seq = seq]
        IN  /\ IF disk.kind = "Enr" /\ disk.id = new.id /\ compare_enr(new, disk)
               THEN local_enr' = disk /\ pc' = "spawn" /\ UNCHANGED <<saving, enr_file>>
               ELSE IF too_large(seq)
               THEN pc' = "down" /\ UNCHANGED <<local_enr, saving, enr_file>>
               ELSE local_enr' = enr /\ pc' = "save_enr" /\ begin_save(enr)
            /\ disturbed' = (disturbed \/ (disk # enr_file /\ enr_file.kind = "Enr"))
  BY DEF build_or_load_enr
<1> DEFINE new == build_enr(local_key, config)
           seq == next_seq(new, disk)
           enr == [new EXCEPT !.seq = seq]
<1>2. disk \in {enr_file, Absent} /\ (disk.kind = "Enr" => disk \in Enr)
  BY EnrKind
<1>3. local_key \in 1..keys
  BY DEF build_or_load_enr, HasKey
<1>4. seq \in Nat \ {0}
  BY <1>2 DEF next_seq, build_enr, Enr
<1>5. ~too_large(seq) => enr \in Enr
  <2>1. ~too_large(seq) => seq \in 1..SEQ_MAX
    BY <1>4, EnrStoreAssumption DEF too_large
  <2> QED
    BY <1>3, <2>1, BuildsEnr
<1>6. /\ AsConfigured(enr)
      /\ disk.kind = "Enr" /\ disk.id = local_key => enr.seq = disk.seq + 1
  BY DEF AsConfigured, build_enr, next_seq
<1>7. disk.kind = "Enr" /\ disk.id = new.id /\ compare_enr(new, disk) =>
         disk \in Enr /\ AsConfigured(disk)
  BY <1>2 DEF AsConfigured, build_enr, compare_enr
<1> HIDE DEF new, seq, enr
<1>8. Loads(disk) \/ GivesUp \/ Builds(disk)
  <2>1. CASE disk.kind = "Enr" /\ disk.id = new.id /\ compare_enr(new, disk)
    BY <1>1, <1>7, <2>1 DEF Loads, new
  <2>2. CASE /\ ~(disk.kind = "Enr" /\ disk.id = new.id /\ compare_enr(new, disk))
             /\ too_large(seq)
    BY <1>1, <2>2 DEF GivesUp, new, seq
  <2>3. CASE /\ ~(disk.kind = "Enr" /\ disk.id = new.id /\ compare_enr(new, disk))
             /\ ~too_large(seq)
    <3>1. local_enr' = enr /\ pc' = "save_enr" /\ begin_save(enr)
      BY <1>1, <2>3 DEF new, seq, enr
    <3> QED
      BY <1>5, <1>6, <2>3, <3>1 DEF Builds, begin_save
  <2> QED
    BY <2>1, <2>2, <2>3
<1> QED
  BY <1>1, <1>2, <1>8

\* The types are kept, by crashes and failures too.
LEMMA TypesStep ==
    ASSUME StoreTypes, [Next]_vars
    PROVE  StoreTypes'
<1> USE DEF StoreTypes, EnrStoreTypeOK, HasKey, HasRecord
<1>1. ASSUME NEW c \in Config, start(c) PROVE StoreTypes'
  BY <1>1, EnrKept DEF start, diskVars
<1>2. CASE load_private_key
  <2>1. keys' \in Nat /\ keys <= keys' /\ 1..keys \subseteq 1..keys'
    BY <1>2 DEF load_private_key
  <2>2. Enr \subseteq Enr'
    BY <2>1, EnrGrows
  <2>3. local_key' \in 1..keys'
    BY <1>2, <2>1, EnrKind DEF load_private_key, Key, Absent, Torn
  <2>4. key_file' \in {Absent, Torn} \cup {Key(k) : k \in 1..keys'}
    BY <1>2, <2>1 DEF load_private_key
  <2> QED
    BY <1>2, <2>1, <2>2, <2>3, <2>4 DEF load_private_key
<1>3. CASE write_key
  <2>1. key_file' \in {Absent, Torn} \cup {Key(k) : k \in 1..keys}
    BY <1>3 DEF write_key
  <2>2. Enr' = Enr
    BY <1>3, EnrKept DEF write_key
  <2> QED
    BY <1>3, <2>1, <2>2 DEF write_key
<1>4. CASE build_or_load_enr
  <2>1. Enr' = Enr
    BY <1>4, EnrKept DEF build_or_load_enr
  <2>2. PICK disk \in {enr_file, Absent} : Loads(disk) \/ GivesUp \/ Builds(disk)
    BY <1>4, BuildsOrLoads
  <2>3. local_key \in 1..keys /\ saving = None
    BY <1>4 DEF build_or_load_enr
  <2>4. /\ enr_file' \in Enr \cup {Absent, Torn} /\ saving' \in Enr \cup {None}
        /\ pc' \in {"down", "save_enr", "spawn"}
        /\ pc' \in {"save_enr", "spawn"} => local_enr' \in Enr
        /\ saving' # None => pc' = "save_enr"
    BY <2>2, <2>3 DEF Loads, GivesUp, Builds
  <2> QED
    BY <1>4, <2>1, <2>3, <2>4 DEF build_or_load_enr
<1>5. CASE end_save
  <2>1. Enr' = Enr
    BY <1>5, EnrKept DEF end_save
  <2> QED
    BY <1>5, <2>1 DEF end_save
<1>6. CASE spawn
  BY <1>6, EnrKept DEF spawn, diskVars
<1>7. ASSUME NEW ip \in Address, discv5_update(ip) PROVE StoreTypes'
  <2>1. Enr' = Enr
    BY <1>7, EnrKept DEF discv5_update
  <2>2. local_enr.seq + 1 \in 1..SEQ_MAX
    BY <1>7, EnrStoreAssumption DEF discv5_update, Enr
  <2>3. local_enr' \in Enr
    BY <1>7, <2>2 DEF discv5_update, Enr
  <2> QED
    BY <1>7, <2>1, <2>3 DEF discv5_update, diskVars
<1>8. CASE socket_updated
  BY <1>8, EnrKept DEF socket_updated, begin_save
<1>9. CASE stop
  BY <1>9, EnrKept DEF stop, diskVars
<1>10. CASE UNCHANGED vars
  BY <1>10, EnrKept DEF vars, diskVars, processVars
<1> QED
  BY <1>1, <1>2, <1>3, <1>4, <1>5, <1>6, <1>7, <1>8, <1>9, <1>10, StoreSteps

\* What a start makes or loads fits the configuration, and stays with its key.
LEMMA ConfiguredStep ==
    ASSUME StoreTypes, Configured, [Next]_vars
    PROVE  Configured'
<1> USE DEF Configured, AsConfigured
<1>1. ASSUME NEW c \in Config, start(c) PROVE Configured'
  BY <1>1 DEF start
<1>2. CASE load_private_key \/ write_key
  BY <1>2 DEF load_private_key, write_key
<1>3. CASE build_or_load_enr
  <2>1. PICK disk \in {enr_file, Absent} : Loads(disk) \/ GivesUp \/ Builds(disk)
    BY <1>3, BuildsOrLoads
  <2> QED
    BY <1>3, <2>1 DEF Loads, GivesUp, Builds, build_or_load_enr
<1>4. CASE end_save
  BY <1>4 DEF end_save, StoreTypes, EnrStoreTypeOK
<1>5. CASE spawn
  BY <1>5 DEF spawn
<1>6. ASSUME NEW ip \in Address, discv5_update(ip) PROVE Configured'
  BY <1>6 DEF discv5_update, StoreTypes, HasRecord, Enr
<1>7. CASE socket_updated
  BY <1>7 DEF socket_updated
<1>8. CASE stop
  BY <1>8 DEF stop
<1>9. CASE UNCHANGED vars
  BY <1>9 DEF vars, processVars
<1> QED
  BY <1>1, <1>2, <1>3, <1>4, <1>5, <1>6, <1>7, <1>8, <1>9, StoreSteps

\* A disturbed history stays one, so only steps from one that is not matter.
LEMMA DisturbedStays ==
    ASSUME StoreTypes, [Next]_vars, ~disturbed'
    PROVE  ~disturbed
<1> SUFFICES ASSUME disturbed PROVE disturbed'
  OBVIOUS
<1>1. CASE build_or_load_enr
  BY <1>1, BuildsOrLoads
<1>2. CASE load_private_key \/ write_key \/ end_save \/ stop
  BY <1>2 DEF load_private_key, write_key, end_save, stop
<1>3. CASE spawn \/ socket_updated
  BY <1>3 DEF spawn, socket_updated
<1>4. ASSUME NEW c \in Config, start(c) PROVE disturbed'
  BY <1>4 DEF start
<1>5. ASSUME NEW ip \in Address, discv5_update(ip) PROVE disturbed'
  BY <1>5 DEF discv5_update
<1>6. CASE UNCHANGED vars
  BY <1>6 DEF vars
<1> QED
  BY <1>1, <1>2, <1>3, <1>4, <1>5, <1>6, StoreSteps

\* While nothing fails, the key on disk is the key of all records.
LEMMA IdentityStep ==
    ASSUME StoreTypes, Configured, ~disturbed, Identity, Numbers, [Next]_vars, ~disturbed'
    PROVE  Identity'
<1> USE DEF Identity, HasKey
<1>1. ASSUME NEW c \in Config, start(c) PROVE Identity'
  BY <1>1 DEF start, diskVars
<1>2. CASE load_private_key
  <2>0. saving = None
    BY <1>2 DEF load_private_key, StoreTypes
  <2>1. key_file.kind = "Key" => key_file = Key(key_file.id)
    BY DEF StoreTypes, EnrStoreTypeOK, Key, Absent, Torn
  <2> QED
    BY <1>2, <2>0, <2>1, EnrKind DEF load_private_key
<1>3. CASE write_key
  BY <1>3, EnrKind DEF write_key
<1>4. CASE build_or_load_enr
  <2>1. PICK disk \in {enr_file, Absent} : Loads(disk) \/ GivesUp \/ Builds(disk)
    BY <1>4, BuildsOrLoads
  <2>2. /\ UNCHANGED <<key_file, published, local_key>> /\ pc = "load_enr"
        /\ enr_file' = Torn \/ enr_file' = enr_file
    BY <1>4, <2>1 DEF build_or_load_enr, Loads, GivesUp, Builds
  <2>3. /\ pc' \in {"spawn", "down", "save_enr"}
        /\ saving' = saving \/ saving'.id = local_key
    BY <2>1 DEF Loads, GivesUp, Builds, AsConfigured
  <2> QED
    BY <2>2, <2>3, EnrKind
<1>5. CASE end_save
  <2>1. pc \in {"save_enr", "running"}
    BY <1>5 DEF end_save, StoreTypes
  <2>2. key_file = Key(local_key) /\ saving.id = local_key
    BY <1>5, <2>1 DEF end_save
  <2>3. pc' \in {"spawn", "running"} /\ saving' = None
    BY <1>5, <2>1 DEF end_save
  <2> QED
    BY <1>5, <2>2, <2>3, EnrKind DEF end_save, Key
<1>6. CASE spawn
  BY <1>6, EnrKind DEF spawn, diskVars, Configured, AsConfigured, Key
<1>7. ASSUME NEW ip \in Address, discv5_update(ip) PROVE Identity'
  <2>1. local_enr'.id = local_key /\ key_file = Key(local_key)
    BY <1>7 DEF discv5_update, StoreTypes, HasRecord, Enr, Configured
  <2> QED
    BY <1>7, <2>1, EnrKind DEF discv5_update, diskVars, Key
<1>8. CASE socket_updated
  BY <1>8, EnrKind DEF socket_updated, begin_save, Configured
<1>9. CASE stop
  BY <1>9 DEF stop, diskVars
<1>10. CASE UNCHANGED vars
  BY <1>10 DEF vars, diskVars, processVars
<1> QED
  BY <1>1, <1>2, <1>3, <1>4, <1>5, <1>6, <1>7, <1>8, <1>9, <1>10, StoreSteps

\* While nothing fails, numbers only go up.
LEMMA NumbersStep ==
    ASSUME StoreTypes, Configured, ~disturbed, Identity, Numbers, [Next]_vars, ~disturbed'
    PROVE  Numbers'
<1> USE DEF Numbers, HasRecord, NotAfter
<1>1. ASSUME NEW c \in Config, start(c) PROVE Numbers'
  BY <1>1 DEF start, diskVars
<1>2. CASE load_private_key
  BY <1>2 DEF load_private_key
<1>3. CASE write_key
  BY <1>3 DEF write_key
<1>4. CASE build_or_load_enr
  <2>1. PICK disk \in {enr_file, Absent} :
          /\ Loads(disk) \/ GivesUp \/ Builds(disk)
          /\ disturbed' = (disturbed \/ (disk # enr_file /\ enr_file.kind = "Enr"))
    BY <1>4, BuildsOrLoads
  <2>2. pc = "load_enr" /\ UNCHANGED <<published, socket_events>>
    BY <1>4 DEF build_or_load_enr
  <2>3. disk = enr_file \/ enr_file.kind # "Enr"
    BY <2>1
  <2>4. CASE Loads(disk)
    <3>1. disk = enr_file
      BY <2>3, <2>4, EnrKind DEF Loads
    <3> QED
      BY <2>2, <2>4, <3>1 DEF Loads
  <2>5. CASE GivesUp
    BY <2>2, <2>5 DEF GivesUp
  <2>6. CASE Builds(disk)
    <3>1. ASSUME NEW a \in published PROVE a.seq < local_enr'.seq
      <4>1. enr_file.kind = "Enr" /\ NotAfter(a, enr_file) /\ disk = enr_file
        BY <2>2, <2>3
      <4>2. enr_file \in Enr /\ a \in Enr
        BY <4>1, EnrKind DEF StoreTypes, EnrStoreTypeOK
      <4>3. enr_file.id = local_key
        BY <2>2, <4>1, EnrKind DEF Identity, HasKey, Key
      <4>4. local_enr'.seq = enr_file.seq + 1
        BY <2>6, <4>1, <4>3 DEF Builds
      <4>5. a.seq \in Nat /\ enr_file.seq \in Nat
        BY <4>2, EnrStoreAssumption DEF Enr
      <4> QED
        BY <4>1, <4>4, <4>5
    <3> QED
      BY <2>2, <2>6, <3>1 DEF Builds
  <2> QED
    BY <2>1, <2>4, <2>5, <2>6
<1>5. CASE end_save
  BY <1>5 DEF end_save, StoreTypes
<1>6. CASE spawn
  <2>1. local_enr \in Enr /\ published \subseteq Enr
    BY <1>6 DEF spawn, StoreTypes, EnrStoreTypeOK
  <2>2. local_enr.seq \in Nat /\ \A a \in published : a.seq \in Nat
    BY <2>1 DEF Enr
  <2>3. \A a, b \in published \cup {local_enr} : a.seq = b.seq => a = b
    BY <1>6, <2>2 DEF spawn
  <2> QED
    BY <1>6, <2>3 DEF spawn, diskVars, StoreTypes
<1>7. ASSUME NEW ip \in Address, discv5_update(ip) PROVE Numbers'
  <2>1. local_enr \in Enr /\ published \subseteq Enr
    BY <1>7 DEF discv5_update, StoreTypes, EnrStoreTypeOK
  <2>2. local_enr'.seq = local_enr.seq + 1
    BY <1>7, <2>1 DEF discv5_update, Enr
  <2>3. \A a \in published : a.seq \in Nat /\ local_enr.seq \in Nat
    BY <2>1 DEF Enr
  <2>4. \A a \in published : a.seq < local_enr'.seq
    BY <1>7, <2>2, <2>3 DEF discv5_update
  <2>5. socket_events' # 0
    BY <1>7 DEF discv5_update, StoreTypes
  <2>6. \A a, b \in published \cup {local_enr'} : a.seq = b.seq => a = b
    BY <2>1, <2>2, <2>3, <2>4
  <2> QED
    BY <1>7, <2>4, <2>5, <2>6 DEF discv5_update
<1>8. CASE socket_updated
  <2>1. local_enr # None
    BY <1>8, EnrKind DEF socket_updated, StoreTypes
  <2> QED
    BY <1>8, <2>1 DEF socket_updated, begin_save
<1>9. CASE stop
  <2>1. saving = None /\ socket_events = 0
    <3>1. ~(saving # None \/ socket_events > 0)
      BY <1>9 DEF stop
    <3> QED
      BY <3>1 DEF StoreTypes
  <2>2. HasRecord => enr_file = local_enr /\ enr_file.kind = "Enr"
    BY <2>1, EnrKind DEF StoreTypes
  <2> QED
    BY <1>9, <2>1, <2>2 DEF stop, diskVars
<1>10. CASE UNCHANGED vars
  BY <1>10 DEF vars, diskVars, processVars
<1> QED
  BY <1>1, <1>2, <1>3, <1>4, <1>5, <1>6, <1>7, <1>8, <1>9, <1>10, StoreSteps

\* The inductive invariant.
LEMMA StoreInvariant == Spec => []StoreInv
<1>1. Init => StoreInv
  <2> SUFFICES ASSUME Init PROVE StoreInv
    OBVIOUS
  <2>1. StoreTypes
    BY DEF Init, StoreTypes, EnrStoreTypeOK, HasKey, HasRecord
  <2>2. Configured
    BY DEF Init, Configured
  <2>3. Identity /\ Numbers
    BY EnrKind DEF Init, Identity, Numbers, HasKey, HasRecord
  <2> QED
    BY <2>1, <2>2, <2>3 DEF StoreInv, Undisturbed
<1>2. StoreInv /\ [Next]_vars => StoreInv'
  BY TypesStep, ConfiguredStep, DisturbedStays, IdentityStep, NumbersStep
     DEF StoreInv, Undisturbed
<1> QED
  BY <1>1, <1>2, PTL DEF Spec

\* Files, records and the phases of Service::new keep their types, whenever the
\* process is killed and whichever write fails; no number passes SEQ_MAX.
THEOREM EnrStoreTypeCorrect == Spec => []EnrStoreTypeOK
BY StoreInvariant, PTL DEF StoreInv, StoreTypes

\* build_or_load_enr gives a running node a record that fits its configuration,
\* whatever an earlier start has left on disk.
THEOREM EnrStoreStartsAsConfigured == Spec => []StartsAsConfigured
<1>1. StoreInv => StartsAsConfigured
  BY DEF StoreInv, Configured, AsConfigured, StartsAsConfigured
<1> QED
  BY <1>1, StoreInvariant, PTL

\* load_private_key gives a node one identity for good, also if it is killed
\* while the key is written.
THEOREM EnrStoreOneIdentity == Spec => []OneIdentity
<1>1. StoreInv => OneIdentity
  BY DEF StoreInv, Undisturbed, Identity, OneIdentity
<1> QED
  BY <1>1, StoreInvariant, PTL

\* No number is given to two records of a node, over any number of starts,
\* configurations and updates of discv5, unless a write failed or was cut off.
THEOREM EnrStoreSeqNeverReused == Spec => []SeqNeverReused
<1>1. StoreInv => SeqNeverReused
  BY DEF StoreInv, Undisturbed, Numbers, SeqNeverReused
<1> QED
  BY <1>1, StoreInvariant, PTL

=============================================================================
