-------------------------------- MODULE Upgrade --------------------------------
(***************************************************************************)
(* What every command does when it opens the database, and what commands   *)
(* of several releases do to each other there: src/src/db/schema.rs brings *)
(* the schema up to date, after a copy of what was there, and              *)
(* src/src/hostconf.rs moves the host's settings out of it, into a file    *)
(* that the settings commands then read and replace.                       *)
(***************************************************************************)
EXTENDS Naturals, FiniteSets, Sequences

CONSTANTS
    Openers,     \* processes that open the database
    MaxVersion,  \* the newest schema any of them knows
    MaxCopies,   \* names tried for a copy of one version (bound)
    MovedKeys,   \* the settings that move, in their order: MIGRATED_KEYS
    Values,      \* what a setting can be
    Unset,       \* it is not set
    Invalid,     \* its row holds what a command could never use
    Missing,     \* there is no host.conf
    Nobody,      \* no process is writing to the database
    Hosts        \* the hosts that are considered

Versions == 0 .. MaxVersion
Keys == {MovedKeys[i] : i \in DOMAIN MovedKeys}
Names == Versions \X (0 .. MaxCopies)   \* <db>.bak-v<version>, and .<n>
Confs == [Keys -> Values \union {Unset}]
NoConf == [k \in Keys |-> Unset]
\* The schema version, whether there are tables, and whether the defaults
\* are a new database's.
Databases == [version : Versions, tables : BOOLEAN, today : BOOLEAN]
Copies == [state : {"none", "empty", "whole", "torn"}, holds : Versions,
           synced : BOOLEAN]
Mems == [found : Versions, from : Versions, fresh : BOOLEAN, copy : Names,
         conf : Confs, n : 1 .. Len(MovedKeys) + 1]
NoCopy == [state |-> "none", holds |-> 0, synced |-> FALSE]
OpenFaults == {"kill", "power", "io", "step", "busy"}
RemoveFaults == {"refused", "unlisted", "killed", "reboot"}   \* of an uninstall
OpenLabels == {"off", "tables", "create", "vacuum", "sync", "begin", "inside",
               "steps", "host", "read", "forget", "ready", "edit"}

\* A host is the database it starts with, the release of each process, who of
\* them is root, whether root owns the database, whether somebody changes
\* settings, and what can go wrong.
ASSUME UpgradeAssumption ==
    /\ MaxVersion \in Nat /\ MaxCopies \in Nat
    /\ MovedKeys \in Seq(Keys) /\ MovedKeys # <<>>
    /\ Unset \notin Values /\ Invalid \notin Values \union {Unset}
    /\ Missing \notin Confs /\ Nobody \notin Openers
    /\ Hosts \subseteq [base : Databases, knows : [Openers -> Versions],
                       root : SUBSET Openers, trusted : BOOLEAN,
                       rows : [Keys -> Values \union {Unset, Invalid}],
                       edits : BOOLEAN, faults : SUBSET (OpenFaults \union RemoveFaults)]
    /\ \A h \in Hosts : ~h.base.tables => h.base.version = 0 /\ ~h.base.today

VARIABLES
    host,      \* which of the Hosts this is
    base,      \* the database, as last committed
    ran,       \* ran[s]: how often migration s was done to what is in it
    copies,    \* the copies beside it, by name
    writer,    \* who has the database's write lock
    rows,      \* database: the host's settings, where releases before had them
    conf,      \* /etc/stop-bots/host.conf
    disk,      \* that file as a power cut would leave it
    at,        \* where each process is
    mem,       \* what it has in memory
    chosen,    \* history: what the operator last chose for each setting
    unsure     \* history: two root processes had the settings at once, or the
               \* power took the file back to what it was

schema == <<base, ran, copies, writer>>
settings == <<rows, conf, disk, chosen, unsure>>
upVars == <<host, schema, settings, at, mem>>

NoMem == [found |-> 0, from |-> 0, fresh |-> FALSE, copy |-> <<0, 0>>, conf |-> NoConf,
          n |-> 1]

\* What a root process takes a row for: one that never worked is no setting,
\* and neither is one another user could have written.
Movable(row) == IF host.trusted /\ row \in Values THEN row ELSE Unset

UpInit ==
    /\ host \in Hosts
    /\ base = host.base
    /\ ran = [s \in 1 .. MaxVersion |-> IF s <= base.version THEN 1 ELSE 0]
    /\ copies = [c \in Names |-> NoCopy]
    /\ writer = Nobody
    /\ rows = host.rows /\ conf = Missing /\ disk = Missing
    /\ at = [p \in Openers |-> "off"]
    /\ mem = [p \in Openers |-> NoMem]
    /\ chosen = [k \in Keys |-> Movable(rows[k])]
    /\ unsure = FALSE

Step(p, from, to) == at[p] = from /\ at' = [at EXCEPT ![p] = to]

\* The process ends, and what it had in memory is gone.
Ends(p) ==
    /\ at' = [at EXCEPT ![p] = "off"]
    /\ mem' = [mem EXCEPT ![p] = NoMem]

-----------------------------------------------------------------------------
(* Bringing the schema up to date.                                         *)

\* user_version, refuse_if_newer: a database newer than this release is left.
Look(p) ==
    /\ base.version <= host.knows[p]
    /\ Step(p, "off", IF base.version = host.knows[p] THEN "host" ELSE "tables")
    /\ mem' = [mem EXCEPT ![p] = [NoMem EXCEPT !.found = base.version]]
    /\ UNCHANGED <<host, schema, settings>>

\* has_tables: there is nothing to keep of an empty file.
Tables(p) ==
    /\ Step(p, "tables", IF base.tables THEN "create" ELSE "begin")
    /\ mem' = [mem EXCEPT ![p].fresh = ~base.tables]
    /\ UNCHANGED <<host, schema, settings>>

\* backup: the first name nobody has, made before anything is written to it.
Create(p) ==
    /\ Step(p, "create", "vacuum")
    /\ \E n \in 0 .. MaxCopies :
          LET c == <<mem[p].found, n>>
          IN  /\ copies[c].state = "none"
              /\ \A i \in 0 .. n : i < n => copies[<<mem[p].found, i>>].state # "none"
              /\ copies' = [copies EXCEPT ![c] = [NoCopy EXCEPT !.state = "empty"]]
              /\ mem' = [mem EXCEPT ![p].copy = c]
    /\ UNCHANGED <<host, base, ran, writer, settings>>

\* VACUUM INTO: a snapshot of what is committed at that moment.
Vacuum(p) ==
    /\ Step(p, "vacuum", "sync")
    /\ copies' = [copies EXCEPT ![mem[p].copy] =
                    [state |-> "whole", holds |-> base.version, synced |-> FALSE]]
    /\ UNCHANGED <<host, base, ran, writer, settings, mem>>

Sync(p) ==
    /\ Step(p, "sync", "begin")
    /\ copies' = [copies EXCEPT ![mem[p].copy].synced = TRUE]
    /\ UNCHANGED <<host, base, ran, writer, settings, mem>>

\* No copy, no upgrade.
BackupFails(p) ==
    /\ "io" \in host.faults
    /\ at[p] \in {"create", "vacuum", "sync"}
    /\ Ends(p)
    /\ UNCHANGED <<host, schema, settings>>

\* BEGIN IMMEDIATE: one process at a time from here to the commit.
Begin(p) ==
    /\ Step(p, "begin", "inside")
    /\ writer = Nobody /\ writer' = p
    /\ UNCHANGED <<host, base, ran, copies, settings, mem>>

\* BUSY_TIMEOUT is over, before the upgrade or while a row is deleted.
Busied(p) ==
    /\ "busy" \in host.faults
    /\ at[p] \in {"begin", "forget"} /\ writer \notin {Nobody, p}
    /\ Ends(p)
    /\ UNCHANGED <<host, schema, settings>>

\* Mutant: it goes on from the version it found before it had the lock.
RereadNot(p) ==
    /\ base.version <= host.knows[p]
    /\ Step(p, "inside", "steps")
    /\ mem' = [mem EXCEPT ![p].from = mem[p].found]
    /\ UNCHANGED <<host, schema, settings>>

\* The version is read again under the lock: somebody who held it before may
\* have migrated.
Reread(p) ==
    /\ base.version <= host.knows[p]
    /\ Step(p, "inside", "steps")
    /\ mem' = [mem EXCEPT ![p].from = base.version]
    /\ UNCHANGED <<host, schema, settings>>

\* Every migration after that one, then the version; a new database also gets
\* the defaults of today.
Commit(p) ==
    /\ Step(p, "steps", "host")
    /\ base' = [version |-> host.knows[p], tables |-> TRUE,
                today |-> base.today \/ mem[p].fresh]
    /\ ran' = [s \in 1 .. MaxVersion |->
                 ran[s] + IF mem[p].from < s /\ s <= host.knows[p] THEN 1 ELSE 0]
    /\ writer' = Nobody
    /\ UNCHANGED <<host, copies, settings, mem>>

\* A newer release was first, or a migration fails: ROLLBACK.
RollBackUpgrade(p) ==
    /\ \/ at[p] = "inside" /\ base.version > host.knows[p]
       \/ at[p] = "steps" /\ "step" \in host.faults
    /\ Ends(p)
    /\ writer' = Nobody
    /\ UNCHANGED <<host, base, ran, copies, settings>>

-----------------------------------------------------------------------------
(* The host's settings.                                                    *)

\* Labels at which a process is about to replace the file.
Replacing == {"read", "edit"}

\* A root process takes the settings up, to move them or to change them.
TakeUp(p) ==
    unsure' = (unsure \/ \E q \in Openers \ {p} : at[q] \in Replacing)

\* Mutant: the rows are moved whenever the database is opened.
MoveLookAlways(p) ==
    /\ IF p \notin host.root
       THEN Step(p, "host", "ready") /\ UNCHANGED <<mem, unsure>>
       ELSE /\ Step(p, "host", "read")
            /\ mem' = [mem EXCEPT ![p].conf = NoConf, ![p].n = 1]
            /\ TakeUp(p)
    /\ UNCHANGED <<host, schema, rows, conf, disk, chosen>>

\* migrate, move_settings: root's, and nothing to do once there is a file.
MoveLook(p) ==
    /\ IF p \notin host.root \/ conf # Missing
       THEN Step(p, "host", "ready") /\ UNCHANGED <<mem, unsure>>
       ELSE /\ Step(p, "host", "read")
            /\ mem' = [mem EXCEPT ![p].conf = NoConf, ![p].n = 1]
            /\ TakeUp(p)
    /\ UNCHANGED <<host, schema, rows, conf, disk, chosen>>

ReadRow(p) ==
    /\ mem[p].n <= Len(MovedKeys)
    /\ Step(p, "read", "read")
    /\ LET k == MovedKeys[mem[p].n]
       IN  mem' = [mem EXCEPT ![p].conf[k] = Movable(rows[k]), ![p].n = @ + 1]
    /\ UNCHANGED <<host, schema, settings>>

\* write_file: a new file, synced, renamed over the name; the directory is not
\* synced, so the power can still take the name back (Flush).
Save(p) ==
    /\ mem[p].n > Len(MovedKeys)
    /\ Step(p, "read", "forget")
    /\ conf' = mem[p].conf
    /\ mem' = [mem EXCEPT ![p].n = 1]
    /\ UNCHANGED <<host, schema, rows, disk, chosen, unsure>>

\* delete_setting, each in a transaction of its own.
ForgetRow(p) ==
    /\ mem[p].n <= Len(MovedKeys) /\ writer = Nobody
    /\ Step(p, "forget", IF mem[p].n = Len(MovedKeys) THEN "ready" ELSE "forget")
    /\ rows' = [rows EXCEPT ![MovedKeys[mem[p].n]] = Unset]
    /\ mem' = [mem EXCEPT ![p].n = @ + 1]
    /\ UNCHANGED <<host, schema, conf, disk, chosen, unsure>>

\* set-web-server, set-log-paths, set-container-runtime: the file is read...
LoadConf(p) ==
    /\ host.edits /\ p \in host.root
    /\ Step(p, "ready", "edit")
    /\ mem' = [mem EXCEPT ![p].conf = IF conf = Missing THEN NoConf ELSE conf]
    /\ TakeUp(p)
    /\ UNCHANGED <<host, schema, rows, conf, disk, chosen>>

\* ... and replaced, with one of its settings changed.
Store(p) ==
    /\ at[p] = "edit" /\ Ends(p)
    /\ \E k \in Keys, v \in Values \union {Unset} :
          /\ conf' = [mem[p].conf EXCEPT ![k] = v]
          /\ chosen' = [chosen EXCEPT ![k] = v]
    /\ UNCHANGED <<host, schema, rows, disk, unsure>>

SaveFails(p) ==
    /\ "io" \in host.faults
    /\ at[p] \in Replacing
    /\ at[p] = "read" => mem[p].n > Len(MovedKeys)
    /\ Ends(p)
    /\ UNCHANGED <<host, schema, settings>>

-----------------------------------------------------------------------------
(* How a process ends.                                                     *)

Close(p) ==
    /\ at[p] = "ready" /\ Ends(p)
    /\ UNCHANGED <<host, schema, settings>>

\* A process is killed: SQLite rolls back what it had begun.
Kill(p) ==
    /\ "kill" \in host.faults
    /\ at[p] # "off" /\ Ends(p)
    /\ writer' = IF writer = p THEN Nobody ELSE writer
    /\ UNCHANGED <<host, base, ran, copies, settings>>

\* The file system writes the file's new name, in its own time.
Flush ==
    /\ "power" \in host.faults
    /\ disk # conf /\ disk' = conf
    /\ UNCHANGED <<host, schema, rows, conf, chosen, unsure, at, mem>>

\* The power goes: a copy nobody synced may be anything, and the file is what
\* it was before a replacement that did not reach the disk.  (A file system is
\* taken to keep the name of a new file that is synced.)
Power ==
    /\ "power" \in host.faults
    /\ at' = [p \in Openers |-> "off"]
    /\ mem' = [p \in Openers |-> NoMem]
    /\ writer' = Nobody
    /\ \E torn \in SUBSET {c \in Names : copies[c].state \in {"empty", "whole"}
                                         /\ ~copies[c].synced} :
          copies' = [c \in Names |->
                       IF c \in torn THEN [copies[c] EXCEPT !.state = "torn"]
                       ELSE copies[c]]
    /\ conf' = disk
    /\ unsure' = (unsure \/ disk # conf)
    /\ UNCHANGED <<host, base, ran, rows, disk, chosen>>

Opening(p) ==
    \/ Look(p) \/ Tables(p) \/ Create(p) \/ Vacuum(p) \/ Sync(p) \/ BackupFails(p)
    \/ Begin(p) \/ Busied(p) \/ Reread(p) \/ Commit(p) \/ RollBackUpgrade(p)
    \/ MoveLook(p) \/ ReadRow(p) \/ Save(p) \/ ForgetRow(p)
    \/ LoadConf(p) \/ Store(p) \/ SaveFails(p) \/ Close(p) \/ Kill(p)

UpNext == Power \/ Flush \/ \E p \in Openers : Opening(p)

UpSpec == UpInit /\ [][UpNext]_upVars

-----------------------------------------------------------------------------
(* What must hold.                                                         *)

UpTypeOK ==
    /\ host \in Hosts
    /\ base \in Databases
    /\ ran \in [1 .. MaxVersion -> Nat]
    /\ copies \in [Names -> Copies]
    /\ writer \in Openers \union {Nobody}
    /\ rows \in [Keys -> Values \union {Unset, Invalid}]
    /\ conf \in Confs \union {Missing} /\ disk \in Confs \union {Missing}
    /\ at \in [Openers -> OpenLabels]
    /\ mem \in [Openers -> Mems]
    /\ chosen \in Confs
    /\ unsure \in BOOLEAN

\* The migrations done to what the database holds are those its version says,
\* each once, whoever migrated it and from where.
StepsOnce ==
    \A s \in 1 .. MaxVersion : ran[s] = IF s <= base.version THEN 1 ELSE 0

\* A database that was upgraded left a copy of what it was, on disk.
CopyKept ==
    host.base.tables /\ base.version # host.base.version =>
        \E c \in Names : /\ c[1] = host.base.version
                         /\ copies[c] = [state |-> "whole", synced |-> TRUE,
                                         holds |-> host.base.version]

\* Only a database made just now has the defaults of today.
DefaultsKept ==
    base.tables => base.today = (host.base.today \/ ~host.base.tables)

\* An upgrade is done once and can be undone: however many processes of
\* however many releases open the database at once, and are killed or lose the
\* power (schema.rs 207-212, 216-219, 320-323).
Upgraded == StepsOnce /\ CopyKept /\ DefaultsKept

\* What a root process that opens the database takes the host's settings to be.
Effective(k) == IF conf = Missing THEN Movable(rows[k]) ELSE conf[k]

\* "Never settings that are nowhere" (hostconf.rs 596-597): killed or refused
\* anywhere, the settings are what the operator chose last, unless two root
\* processes were replacing the file at the same time, or the power went before
\* the file's new name was on disk.
SettingsKept == unsure \/ \A k \in Keys : Effective(k) = chosen[k]
=============================================================================
