------------------------------- MODULE Exports -------------------------------
(***************************************************************************)
(* Exports of approved assessments, beside the approvals that let them     *)
(* begin.  An export is known by the snapshot it is made of and the kinds  *)
(* that were asked for; its objects are put one by one, under keys derived *)
(* from it, and a row that lists their hashes is saved after the last.     *)
(* Two requests for one export may run at once, and each may die anywhere. *)
(*                                                                         *)
(* The bytes of an object are told apart by the CVA_RENDERER_MODE of the   *)
(* instance that rendered them: in one mode a rendering is reproducible,   *)
(* and the id names RENDERER_VERSION but not the mode.                     *)
(***************************************************************************)
EXTENDS BulkApproval

CONSTANTS
    Exported,       \* bound: the assessments that are exported
    Kinds,          \* sets of ExportKind that are asked for
    Modes,          \* of the instances that may serve a request
    Exporters       \* slots for requests at once

NoBytes == "NONE"

ASSUME ExportConstants ==
    /\ Exported \subseteq Assessments
    /\ \A kinds \in Kinds : kinds # {}
    /\ NoBytes \notin Modes

Kind == UNION Kinds
ExportIds == Exported \X Kinds

VARIABLES
    export,     \* table "exports"
    object,     \* the object store: for an id and a kind, the bytes
    exporter

exportVars == <<export, object, exporter>>

NoExport == [version |-> 0, hash |-> [k \in Kind |-> NoBytes]]
IdleExporter ==
    [ step |-> "idle", id |-> <<>>, version |-> 0, mode |-> NoBytes,
      todo |-> {} ]

ExportsInit ==
    /\ BulkInit
    /\ export = [id \in ExportIds |-> NoExport]
    /\ object = [id \in ExportIds |-> [k \in Kind |-> NoBytes]]
    /\ exporter = [e \in Exporters |-> IdleExporter]

ExporterAt(e, step) == exporter[e].step = step
Leaves(e) == exporter' = [exporter EXCEPT ![e] = IdleExporter]

-----------------------------------------------------------------------------
\* The newest version is approved, with its audit event.
Exportable(a) == assessment[a].status = "APPROVED"

Rendered(id, mode) ==
    [ step |-> "put", id |-> id, version |-> assessment[id[1]].version,
      mode |-> mode, todo |-> id[2] ]

\* create_export: an export that is there already is the answer.
CreateExport(e, id, mode) ==
    /\ ExporterAt(e, "idle")
    /\ Exportable(id[1])
    /\ export[id] = NoExport
    /\ exporter' = [exporter EXCEPT ![e] = Rendered(id, mode)]
    /\ UNCHANGED <<bulkVars, export, object>>

\* Mutation: the object is written over.
MayPutOver(old, new) == TRUE

\* put_immutable: no object under this key, or the same bytes.
MayPut(old, new) == old \in {NoBytes, new}

Stored(objects, k, mode) == [objects EXCEPT ![k] = mode]
Remaining(execution, k) == [execution EXCEPT !.todo = @ \ {k}]

Put(e, k) ==
    LET id == exporter[e].id IN
    /\ ExporterAt(e, "put") /\ k \in exporter[e].todo
    /\ MayPut(object[id][k], exporter[e].mode)
    /\ object' = [object EXCEPT ![id] = Stored(@, k, exporter[e].mode)]
    /\ exporter' = [exporter EXCEPT ![e] = Remaining(@, k)]
    /\ UNCHANGED <<bulkVars, export>>

\* "immutable object already exists with different bytes".
PutRefused(e, k) ==
    /\ ExporterAt(e, "put") /\ k \in exporter[e].todo
    /\ ~MayPut(object[exporter[e].id][k], exporter[e].mode)
    /\ Leaves(e)
    /\ UNCHANGED <<bulkVars, export, object>>

\* Mutation: the row is saved with the objects still to come.
SaveableEarly(e) == TRUE

Saveable(e) == exporter[e].todo = {}

\* save_export_record: the row is inserted, or written over.
SaveExport(e) ==
    LET x == exporter[e] IN
    /\ ExporterAt(e, "put") /\ Saveable(e)
    /\ export' = [export EXCEPT ![x.id] =
                    [ version |-> x.version,
                      hash |-> [k \in Kind |-> IF k \in x.id[2] THEN x.mode
                                                                ELSE NoBytes] ]]
    /\ Leaves(e)
    /\ UNCHANGED <<bulkVars, object>>

\* The process dies, or another call of the model for the same submission is
\* found in the ledger: EXPORT_MODEL_CALL_DETECTED.
ExportAbandoned(e) ==
    /\ ~ExporterAt(e, "idle")
    /\ Leaves(e)
    /\ UNCHANGED <<bulkVars, export, object>>

ExportStep(e) ==
    \/ \E k \in exporter[e].todo : Put(e, k) \/ PutRefused(e, k)
    \/ SaveExport(e)

ExportsNext ==
    \/ BulkNext /\ UNCHANGED exportVars
    \/ \E e \in Exporters :
         \/ \E id \in ExportIds, mode \in Modes :
              CreateExport(e, id, mode)
         \/ ExportStep(e)
         \/ ExportAbandoned(e)

ExportsSpec == ExportsInit /\ [][ExportsNext]_<<bulkVars, exportVars>>

-----------------------------------------------------------------------------
(***************************************************************************)
(* Properties.                                                             *)
(***************************************************************************)
\* A row that is there can be downloaded, and what is downloaded is what the
\* row says: every object exists with the hash of the row, whichever of two
\* requests wrote the row last, and the version is the one that was approved.
ExportReadable ==
    \A id \in ExportIds :
        export[id] # NoExport =>
            /\ \A k \in id[2] : /\ export[id].hash[k] # NoBytes
                                /\ object[id][k] = export[id].hash[k]
            /\ Exportable(id[1])
            /\ export[id].version = assessment[id[1]].version

\* What was exported once stays as it is, for those who have downloaded it.
ExportKept ==
    [][\A id \in ExportIds :
         export[id] # NoExport => /\ export'[id].hash = export[id].hash
                                  /\ object'[id] = object[id]
      ]_<<export, object>>
=============================================================================
