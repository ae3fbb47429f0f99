------------------------------ MODULE EnrStore ------------------------------
(***************************************************************************)
(* The identity of a node over its restarts: the network key and the node  *)
(* record (ENR) that Service::new loads from the network directory, and    *)
(* the record that discv5 changes while the node runs                      *)
(* (core/network/src/service.rs, discovery/enr.rs, discovery/mod.rs).      *)
(*                                                                         *)
(* A file is saved by truncating it and writing it again, in two steps; a  *)
(* write may fail, which is only logged, and the process may be killed     *)
(* between any two steps.  The disk survives that; nothing else does.  A   *)
(* node may be started with another configuration each time.               *)
(*                                                                         *)
(* disturbed is a history variable: some disk operation failed, or the     *)
(* process was killed while the record on disk was behind the one in use.  *)
(***************************************************************************)
EXTENDS Integers, FiniteSets

CONSTANTS
    Address,    \* addresses of the node
    Port,       \* tcp ports that libp2p may listen on
    Fork,       \* values of the eth2 field
    SEQ_MAX,    \* the largest sequence number, u64::MAX in the code
    DiskFails,  \* may opening a file or writing to it fail?
    MaxStarts,  \* bound on the starts of the node
    MaxUpdates  \* bound on the updates of discv5

ASSUME EnrStoreAssumption ==
    /\ SEQ_MAX \in Nat \ {0} /\ MaxStarts \in Nat /\ MaxUpdates \in Nat
    /\ DiskFails \in BOOLEAN
    /\ "None" \notin Address

VARIABLES
    key_file, enr_file,     \* the two files of network_dir
    pc,                     \* how far Service::new is
    config,                 \* the NetworkConfig of this start
    local_key,              \* the key in use
    local_enr,              \* the record of discv5, and of Service::new before
    globals_enr,            \* NetworkGlobals.local_enr
    saving,                 \* a save that has truncated the file
    socket_events,          \* SocketUpdated events that discovery has not seen
    published,              \* every record that peers may have been given
    keys, starts, updates,  \* how many there have been
    disturbed

diskVars    == <<key_file, enr_file>>
processVars == <<pc, config, local_key, local_enr, globals_enr, saving, socket_events>>
vars == <<diskVars, processVars, published, keys, starts, updates, disturbed>>

Absent == [kind |-> "Absent"]
Torn   == [kind |-> "Torn"]     \* truncated, and not or partly written
None   == [kind |-> "None"]

Key(k) == [kind |-> "Key", id |-> k]

Config == [ip : Address \cup {"None"}, libp2p_port : Port, fork : Fork]

-----------------------------------------------------------------------------
(* Starting                                                                *)

\* Service::new, called by Mothra::new.
start(c) ==
    /\ pc = "down" /\ starts < MaxStarts
    /\ starts' = starts + 1 /\ config' = c /\ pc' = "load_key"
    /\ UNCHANGED <<diskVars, local_key, local_enr, globals_enr, saving, socket_events,
                   published, keys, updates, disturbed>>

\* load_private_key: a key that can be read is used, else one is generated and
\* the file truncated for it.
load_private_key ==
    /\ pc = "load_key"
    /\ \/ /\ key_file.kind = "Key"
          /\ local_key' = key_file.id /\ pc' = "load_enr"
          /\ UNCHANGED <<key_file, keys, disturbed>>
       \/ /\ key_file.kind # "Key" \/ DiskFails
          /\ keys' = keys + 1 /\ local_key' = keys + 1
          /\ key_file' = Torn \/ (DiskFails /\ UNCHANGED key_file)
          /\ pc' = "write_key" /\ disturbed' = (disturbed \/ key_file.kind = "Key")
    /\ UNCHANGED <<enr_file, config, local_enr, globals_enr, saving, socket_events,
                   published, starts, updates>>

\* Mutant: the key is not written.
write_key_Skipped ==
    /\ pc = "write_key" /\ pc' = "load_enr"
    /\ UNCHANGED <<diskVars, config, local_key, local_enr, globals_enr, saving,
                   socket_events, published, keys, starts, updates, disturbed>>

\* write_all of the key.  A failure is logged, and the key used all the same.
write_key ==
    /\ pc = "write_key" /\ pc' = "load_enr"
    /\ \/ key_file = Torn /\ key_file' = Key(local_key) /\ UNCHANGED disturbed
       \/ DiskFails /\ disturbed' = TRUE /\ UNCHANGED key_file
    /\ UNCHANGED <<enr_file, config, local_key, local_enr, globals_enr, saving,
                   socket_events, published, keys, starts, updates>>

\* build_enr: the port is the one of libp2p whatever enr_tcp_port says, since
\* builder.tcp is called twice.
build_enr(k, c) ==
    [kind |-> "Enr", id |-> k, seq |-> 1, ip |-> c.ip, tcp |-> c.libp2p_port, eth2 |-> c.fork]

\* Mutant: the address on disk is always kept.
compare_enr_AnyAddress(new, disk) == new.tcp = disk.tcp /\ new.eth2 = disk.eth2

\* compare_enr; the udp port is treated as the address is, and attnets is the
\* same always.
compare_enr(new, disk) ==
    /\ new.ip = "None" \/ new.ip = disk.ip
    /\ new.tcp = disk.tcp
    /\ new.eth2 = disk.eth2

\* Mutant: the record on disk is not looked at for its number.
next_seq_One(new, disk) == 1

\* The number of a new record: after the one on disk, if that is ours.
next_seq(new, disk) ==
    IF disk.kind = "Enr" /\ disk.id = new.id THEN disk.seq + 1 ELSE new.seq

\* Mutant: the sum is not checked.
too_large_Never(seq) == FALSE

\* checked_add
too_large(seq) == seq > SEQ_MAX

\* The first half of save_enr_to_disk: File::create, which truncates the file
\* unless it fails.
begin_save(enr) ==
    /\ saving' = enr
    /\ enr_file' = Torn \/ (DiskFails /\ UNCHANGED enr_file)

\* build_or_load_enr: the record on disk if it serves, else a new one that is
\* then saved.  A number past the largest is an error, which ends the start.
build_or_load_enr ==
    /\ pc = "load_enr"
    /\ \E disk \in {enr_file} \cup (IF DiskFails THEN {Absent} ELSE {}) :
          LET new == build_enr(local_key, config)
              seq == next_seq(new, disk)
              enr == [new EXCEPT !.seq = seq]
          IN  /\ IF disk.kind = "Enr" /\ disk.id = new.id /\ compare_enr(new, disk)
                 THEN /\ local_enr' = disk /\ pc' = "spawn"
                      /\ UNCHANGED <<saving, enr_file>>
                 ELSE IF too_large(seq)
                 THEN pc' = "down" /\ UNCHANGED <<local_enr, saving, enr_file>>
                 ELSE local_enr' = enr /\ pc' = "save_enr" /\ begin_save(enr)
              /\ disturbed' = (disturbed \/ (disk # enr_file /\ enr_file.kind = "Enr"))
    /\ UNCHANGED <<key_file, config, local_key, globals_enr, socket_events, published,
                   keys, starts, updates>>

\* The second half of save_enr_to_disk: write_all.
end_save ==
    /\ saving # None /\ saving' = None
    /\ pc' = IF pc = "save_enr" THEN "spawn" ELSE pc
    /\ \/ enr_file = Torn /\ enr_file' = saving /\ UNCHANGED disturbed
       \/ DiskFails /\ disturbed' = TRUE /\ UNCHANGED enr_file
    /\ UNCHANGED <<key_file, config, local_key, local_enr, globals_enr, socket_events,
                   published, keys, starts, updates>>

\* NetworkGlobals::new and Discovery::new: discv5 has the record from here on.
spawn ==
    /\ pc = "spawn" /\ pc' = "running"
    /\ globals_enr' = local_enr
    /\ published' = published \cup {local_enr}
    /\ UNCHANGED <<diskVars, config, local_key, local_enr, saving, socket_events, keys,
                   starts, updates, disturbed>>

-----------------------------------------------------------------------------
(* Running                                                                 *)

\* External: discv5 learns its address from its peers, changes its record,
\* and tells discovery.
discv5_update(ip) ==
    /\ pc = "running" /\ updates < MaxUpdates
    /\ ip # local_enr.ip /\ local_enr.seq < SEQ_MAX
    /\ updates' = updates + 1
    /\ local_enr' = [local_enr EXCEPT !.ip = ip, !.seq = @ + 1]
    /\ published' = published \cup {local_enr'}
    /\ socket_events' = socket_events + 1
    /\ UNCHANGED <<diskVars, pc, config, local_key, globals_enr, saving, keys, starts,
                   disturbed>>

\* Mutant: an event that finds another behind it is skipped, as if that one had
\* been saved.
socket_updated_Skips ==
    /\ pc = "running" /\ saving = None /\ socket_events > 0
    /\ socket_events' = 0
    /\ IF socket_events > 1 THEN UNCHANGED <<saving, enr_file>> ELSE begin_save(local_enr)
    /\ UNCHANGED <<key_file, pc, config, local_key, local_enr, globals_enr, published, keys,
                   starts, updates, disturbed>>

\* Discovery::poll on Discv5Event::SocketUpdated: the record that discv5 has by
\* now is saved.
socket_updated ==
    /\ pc = "running" /\ saving = None /\ socket_events > 0
    /\ socket_events' = socket_events - 1
    /\ begin_save(local_enr)
    /\ UNCHANGED <<key_file, pc, config, local_key, local_enr, globals_enr, published, keys,
                   starts, updates, disturbed>>

\* The process ends: it is killed, panics, or the exit signal fires; nothing is
\* saved on the way out.
stop ==
    /\ pc # "down" /\ pc' = "down"
    /\ local_enr' = None /\ globals_enr' = None /\ saving' = None /\ socket_events' = 0
    /\ disturbed' = (disturbed \/ saving # None \/ socket_events > 0)
    /\ UNCHANGED <<diskVars, config, local_key, published, keys, starts, updates>>

-----------------------------------------------------------------------------

Init ==
    /\ key_file = Absent /\ enr_file = Absent
    /\ pc = "down" /\ config \in Config /\ local_key = 0
    /\ local_enr = None /\ globals_enr = None /\ saving = None /\ socket_events = 0
    /\ published = {} /\ keys = 0 /\ starts = 0 /\ updates = 0 /\ disturbed = FALSE

Next ==
    \/ \E c \in Config : start(c)
    \/ load_private_key \/ write_key \/ build_or_load_enr \/ end_save \/ spawn
    \/ \E ip \in Address : discv5_update(ip)
    \/ socket_updated \/ stop

Spec == Init /\ [][Next]_vars

\* The task of the node runs while the process does; nothing makes a node
\* start or stop.
FairSpec == Spec /\ WF_vars(socket_updated) /\ WF_vars(end_save)

-----------------------------------------------------------------------------
(* Properties                                                              *)

Enr == [kind : {"Enr"}, id : 1..keys, seq : 1..SEQ_MAX, ip : Address \cup {"None"},
        tcp : Port, eth2 : Fork]

\* The files hold a key, a record, or something that is neither, and a running
\* node has a record.
EnrStoreTypeOK ==
    /\ key_file \in {Absent, Torn} \cup {Key(k) : k \in 1..keys}
    /\ enr_file \in Enr \cup {Absent, Torn} /\ saving \in Enr \cup {None}
    /\ pc \in {"down", "load_key", "write_key", "load_enr", "save_enr", "spawn", "running"}
    /\ pc \in {"spawn", "running"} => local_enr \in Enr
    /\ published \subseteq Enr

\* "If an ENR exists, with the same NodeId, this function checks to see if the
\* loaded ENR from disk is suitable to use, otherwise we increment our newly
\* generated ENR's sequence number": a peer never sees two different records
\* of one node with the same number, over any number of restarts and changes of
\* the configuration, as long as no disk operation fails and no restart falls
\* between discv5's update and the end of the save.
SeqNeverReused ==
    ~disturbed => \A a, b \in published : a.id = b.id /\ a.seq = b.seq => a = b

\* A node whose disk works has one identity, also if it is killed while the key
\* is being written.
OneIdentity == ~disturbed => \A a, b \in published : a.id = b.id

\* What discv5 has learnt reaches the disk, also when it learns more while a
\* save is under way: a node that keeps running, on a disk that works, has its
\* record on disk in the end.
UpdatesReachDisk ==
    [](pc = "running" => <>(enr_file = local_enr \/ pc # "running" \/ disturbed))

\* A node starts with what its configuration says, whatever the file of an
\* earlier start holds; the address is left to discv5 when none is configured.
StartsAsConfigured ==
    pc = "running" =>
        /\ globals_enr.id = local_key
        /\ globals_enr.tcp = config.libp2p_port /\ globals_enr.eth2 = config.fork
        /\ config.ip # "None" => globals_enr.ip = config.ip

=============================================================================
