---------------------------- MODULE Replication ----------------------------
(***************************************************************************)
(* Primary-backup replication (src/src/rtx/view.h and .cc, the loggers     *)
(* behind logger.hpp, default_log_cleaner_impl.hpp).  A transaction that   *)
(* has locked and validated sends its writes as one log entry to the       *)
(* backups, waits, and then sends the entry once more as an acknowledgment *)
(* that makes each backup apply it (clean_log).  The log memory itself,    *)
(* a buffer per coroutine id over RPC and an unchecked ring over one-sided *)
(* writes, is written and never read: there is no recovery code.           *)
(***************************************************************************)
EXTENDS Integers

CONSTANTS
  Total,      \* number of machines, numbered from 0
  RepFactor,  \* the replication factor asked for
  Keys,       \* records
  Home        \* Home[k]: the machine that has the primary copy of k

Macs == 0 .. Total - 1

ASSUME ReplicationAssumption ==
  /\ Total \in Nat \ {0}
  /\ RepFactor \in 0 .. 2          \* RTX_MAX_BACKUP
  /\ Home \in [Keys -> Macs]

VARIABLES
  backup,  \* backup[m][k]: the copy of k in the backup stores of machine m
  wait     \* wait[c]: machines that have not answered the log batch of c
-----------------------------------------------------------------------------
\* SymmetricView: a cluster too small for the factor has no backups at all.
rep_factor_ == IF RepFactor >= Total THEN 0 ELSE RepFactor

\* assign_one: the machines behind idx on the ring.
mapping_(idx) == { (idx + i + 1) % Total : i \in 0 .. rep_factor_ - 1 }

add_backup(pid, mac_set) == mac_set \cup mapping_(pid)

is_backup(bid, pid) == bid \in mapping_(pid)

\* Faulty variant: the machines of the write set are not in mac_set_.
LogMachinesLocal(mac_set, here) == add_backup(here, {})

\* log_remote: the backups of the machines in mac_set_ of the write batch,
\* and those of the machine the transaction runs on.
LogMachines(mac_set, here) ==
  add_backup(here, UNION { mapping_(m) : m \in mac_set })
-----------------------------------------------------------------------------
\* broadcast_to: the entry goes to every machine at once.
Broadcast(c, macs) == wait' = [wait EXCEPT ![c] = macs]

\* The machine answers.
Answer(c, m) == m \in wait[c] /\ wait' = [wait EXCEPT ![c] = @ \ {m}]

\* log_remote_handler copies the entry to a buffer and answers; a one-sided
\* entry is one RDMA WRITE.
LogEntry(c, m) == Answer(c, m) /\ UNCHANGED backup

\* clean_log: of the items of the entry, the machine applies those of the
\* primaries it is a backup of.
clean_log(c, m, items, val) ==
  /\ Answer(c, m)
  /\ backup' = [backup EXCEPT ![m] = [k \in Keys |->
       IF k \in items /\ is_backup(m, Home[k]) THEN val[k] ELSE @[k]]]

\* The two batches of log_remote are waited for.
Answered(c) == wait[c] = {}
=============================================================================
