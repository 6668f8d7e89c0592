----------------------------- MODULE MCDocuments -----------------------------
(* The two halves of the document storage share no state, so nothing shows    *)
(* only when both move: an instance is of one half or of the other.           *)
EXTENDS DocumentStorage, DocumentRecords

VARIABLE half

DocumentsTypeOK == TypeOK /\ RecordsTypeOK

\* The half that stands still is in one of its initial states.
MCInit ==
  /\ Init
  /\ half \in {"files", "records"}
  /\ IF half = "records"
       THEN /\ RecordsInit
            /\ file = [f \in File |-> [rev |-> Never, updated |-> 0]]
       ELSE /\ envelope = Never
            /\ signer = [s \in Signer |-> Never]
            /\ audit = [v \in Event |-> Never]
            /\ token = [t \in Token |-> Never]
            /\ sealed = Never
            /\ note = [k \in Kind |-> Never]
            /\ draft = [r \in Request |-> NoDraft]

MCNext ==
  /\ UNCHANGED half
  /\ \/ half = "files" /\ Next /\ UNCHANGED recordVars
     \/ half = "records" /\ RecordsNext /\ UNCHANGED <<aclVars, docVars>>

MCSpec == MCInit /\ [][MCNext]_<<vars, recordVars, half>>

============================================================================
