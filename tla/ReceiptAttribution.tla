------------------------- MODULE ReceiptAttribution -------------------------
(***************************************************************************)
(* Receipts that no project has: `expression-audit-finance-fact-attribution*)
(* --apply` (app/cli.py) gives them the project of their photo or of the   *)
(* employee, and writes beforehand a file from which the rollback command  *)
(* restores them.  Meanwhile analyses attribute receipts too               *)
(* (app/services/evidence_copilot.py), photos and employees change their   *)
(* project, and receipts are deleted with their photos.  A session's       *)
(* queries see what others have committed; nothing is locked.              *)
(*                                                                         *)
(* No project is ever deleted without its receipts, so the names that a    *)
(* column may hold and no project has (`invoice`) are NoSite.              *)
(***************************************************************************)
EXTENDS Integers, FiniteSets

CONSTANTS
  Receipts, Projects,
  Commands,     \* executions of the two commands
  FileNames,    \* --rollback-file
  NoSite, NoCommand

ASSUME AttributionAssumption == NoSite \notin Projects /\ NoCommand \notin Commands

VARIABLES
  receipt,      \* the project of each receipt, or "gone"
  photoSite,    \* the project of its photo
  staffSite,    \* the current project of the employee
  syncs,        \* the project that an open analysis of the photo gives the receipt
  \* each command: what it does, its file, the receipts it has still to look at,
  \* what it has found and what it will write
  step, fileOf, unread, found, writes,
  files,        \* the entries in each file, and the command that wrote it
  by            \* history: the apply that the receipt's project is from, if it is

attributionVars ==
  <<receipt, photoSite, staffSite, syncs, step, fileOf, unread, found, writes, files, by>>

MaybeSite == Projects \cup {NoSite}
Steps == {"idle", "audit", "choose", "write", "commit", "restore", "recommit", "done"}
Nowhere == [r \in Receipts |-> NoSite]

AttributionInit ==
  /\ receipt = Nowhere
  /\ photoSite \in [Receipts -> MaybeSite]
  /\ staffSite \in MaybeSite
  /\ syncs = Nowhere
  /\ step = [c \in Commands |-> "idle"]
  /\ fileOf \in [Commands -> FileNames]
  /\ unread = [c \in Commands |-> {}]
  /\ found = [c \in Commands |-> Nowhere]
  /\ writes = [c \in Commands |-> {}]
  /\ files = [f \in FileNames |-> [from |-> NoCommand, entries |-> {}]]
  /\ by = [r \in Receipts |-> NoCommand]

There == {r \in Receipts : receipt[r] /= "gone"}

\* The data and the files stay as they are.
Reading == UNCHANGED <<receipt, photoSite, staffSite, files, by>>

-----------------------------------------------------------------------------
(* The apply *)

BeginApply(c) ==
  /\ step[c] = "idle"
  /\ step' = [step EXCEPT ![c] = "audit"]
  /\ Reading /\ UNCHANGED <<syncs, fileOf, unread, found, writes>>

\* audit_finance_fact_attribution_payload: one project that photo and employee
\* agree on, or that only one of them has.
Candidate(r) ==
  LET sites == {photoSite[r], staffSite} \ {NoSite} IN
  IF receipt[r] = NoSite /\ Cardinality(sites) = 1 THEN CHOOSE p \in sites : TRUE ELSE NoSite

Audit(c) ==
  /\ step[c] = "audit"
  /\ step' = [step EXCEPT ![c] = "choose"]
  /\ found' = [found EXCEPT ![c] = [r \in Receipts |-> IF r \in There THEN Candidate(r) ELSE NoSite]]
  /\ unread' = [unread EXCEPT ![c] = There]
  /\ Reading /\ UNCHANGED <<syncs, fileOf, writes>>

\* apply_finance_fact_attribution_payload loads each receipt that has a candidate,
\* and skips one that is gone or has a project by now.
Choose(c, r) ==
  /\ step[c] = "choose" /\ r \in unread[c]
  /\ unread' = [unread EXCEPT ![c] = @ \ {r}]
  /\ writes' =
       IF found[c][r] /= NoSite /\ receipt[r] = NoSite
       THEN [writes EXCEPT ![c] = @ \cup {[of |-> r, was |-> NoSite, site |-> found[c][r]]}]
       ELSE writes
  /\ Reading /\ UNCHANGED <<syncs, step, fileOf, found>>

\* The file is written, over another of that name, before the command commits.
WriteRollbackFile(c) ==
  /\ step[c] = "choose" /\ unread[c] = {}
  /\ step' = [step EXCEPT ![c] = "commit"]
  /\ files' = [files EXCEPT ![fileOf[c]] = [from |-> c, entries |-> writes[c]]]
  /\ UNCHANGED <<syncs, receipt, photoSite, staffSite, fileOf, unread, found, writes, by>>

\* Mistake: the command commits and leaves the file for later.
MayCommitEarly(c) == step[c] = "choose" /\ unread[c] = {}
MayCommit(c) == step[c] = "commit"

\* The flush updates by id: a receipt that is gone fails the whole commit.
Flush(c, columns) ==
  LET rows == {w.of : w \in writes[c]} IN
  IF rows \subseteq There
  THEN receipt' = [r \in Receipts |-> IF r \in rows THEN columns[r] ELSE receipt[r]]
  ELSE receipt' = receipt

Targets(c) == [r \in Receipts |-> IF \E w \in writes[c] : w.of = r
                                  THEN (CHOOSE w \in writes[c] : w.of = r).site ELSE NoSite]

CommitApply(c) ==
  /\ MayCommit(c)
  /\ step' = [step EXCEPT ![c] = "done"]
  /\ Flush(c, Targets(c))
  /\ by' = [r \in Receipts |->
              IF (\E w \in writes[c] : w.of = r) /\ {w.of : w \in writes[c]} \subseteq There
              THEN c ELSE by[r]]
  /\ UNCHANGED <<syncs, photoSite, staffSite, fileOf, unread, found, writes, files>>

\* The process dies, before or after it has written the file.
Die(c) ==
  /\ step[c] \notin {"idle", "done"}
  /\ step' = [step EXCEPT ![c] = "done"]
  /\ writes' = [writes EXCEPT ![c] = {}]
  /\ Reading /\ UNCHANGED <<syncs, fileOf, unread, found>>

-----------------------------------------------------------------------------
(* The rollback *)

BeginRollback(c) ==
  /\ step[c] = "idle" /\ files[fileOf[c]].from /= NoCommand
  /\ step' = [step EXCEPT ![c] = "restore"]
  /\ found' = [found EXCEPT ![c] = [r \in Receipts |->
       IF \E e \in files[fileOf[c]].entries : e.of = r
       THEN (CHOOSE e \in files[fileOf[c]].entries : e.of = r).site ELSE NoSite]]
  /\ unread' = [unread EXCEPT ![c] = {e.of : e \in files[fileOf[c]].entries}]
  /\ Reading /\ UNCHANGED <<syncs, fileOf, writes>>

\* rollback_finance_fact_attribution_payload: what another has changed is left.
Restore(c, r) ==
  /\ step[c] = "restore" /\ r \in unread[c]
  /\ unread' = [unread EXCEPT ![c] = @ \ {r}]
  /\ writes' =
       IF receipt[r] = found[c][r]
       THEN [writes EXCEPT ![c] = @ \cup {[of |-> r, was |-> receipt[r], site |-> NoSite]}]
       ELSE writes
  /\ Reading /\ UNCHANGED <<syncs, step, fileOf, found>>

CommitRollback(c) ==
  /\ step[c] = "restore" /\ unread[c] = {}
  /\ step' = [step EXCEPT ![c] = "done"]
  /\ Flush(c, Nowhere)
  /\ by' = [r \in Receipts |-> IF receipt'[r] /= receipt[r] THEN NoCommand ELSE by[r]]
  /\ UNCHANGED <<syncs, photoSite, staffSite, fileOf, unread, found, writes, files>>

-----------------------------------------------------------------------------
(* Meanwhile *)

\* sync_photo_evidence_bundle: a receipt that it finds without a project takes the
\* photo's, or else the employee's (_resolve_photo_evidence_project_id), when the
\* analysis commits.
Attribute(r) ==
  /\ receipt[r] = NoSite
  /\ syncs' = [syncs EXCEPT ![r] = IF photoSite[r] /= NoSite THEN photoSite[r] ELSE staffSite]
  /\ Reading /\ UNCHANGED <<step, fileOf, unread, found, writes>>

EndAnalysis(r) ==
  /\ syncs[r] /= NoSite
  /\ syncs' = [syncs EXCEPT ![r] = NoSite]
  /\ receipt' = [receipt EXCEPT ![r] = IF r \in There THEN syncs[r] ELSE "gone"]
  /\ by' = [by EXCEPT ![r] = NoCommand]
  /\ UNCHANGED <<photoSite, staffSite, step, fileOf, unread, found, writes, files>>

\* hard_delete_photo
DeleteReceipt(r) ==
  /\ r \in There
  /\ receipt' = [receipt EXCEPT ![r] = "gone"]
  /\ by' = [by EXCEPT ![r] = NoCommand]
  /\ UNCHANGED <<syncs, photoSite, staffSite, step, fileOf, unread, found, writes, files>>

Reassign(p) ==
  /\ p /= staffSite
  /\ staffSite' = p
  /\ UNCHANGED <<syncs, receipt, photoSite, step, fileOf, unread, found, writes, files, by>>

AttributionNext ==
  \/ \E c \in Commands :
       \/ BeginApply(c) \/ Audit(c) \/ WriteRollbackFile(c) \/ CommitApply(c) \/ Die(c)
       \/ BeginRollback(c) \/ CommitRollback(c)
       \/ \E r \in Receipts : Choose(c, r) \/ Restore(c, r)
  \/ \E r \in Receipts : Attribute(r) \/ EndAnalysis(r) \/ DeleteReceipt(r)
  \/ \E p \in MaybeSite : Reassign(p)

AttributionSpec == AttributionInit /\ [][AttributionNext]_attributionVars

-----------------------------------------------------------------------------
(* Properties *)

\* An attribution can be taken back: whatever an apply has given a receipt stands
\* in the file it named, until another writes a file of that name, although the
\* process may die at any point and the receipts change meanwhile.
Undoable ==
  \A r \in Receipts :
    LET c == by[r] IN
    c /= NoCommand /\ files[fileOf[c]].from \in {c, NoCommand} =>
      \E e \in files[fileOf[c]].entries : e.of = r /\ e.site = receipt[r] /\ e.was = NoSite

=============================================================================
