----------------------------- MODULE MCService -----------------------------
(***************************************************************************)
(* Instances of the modules about the process of the service, what it does *)
(* to a document before encoding, and the scripts beside it.  They share   *)
(* no state: each behaviour is one of one part, the states of the parts    *)
(* add up, and the parts that rest do so in one initial state.             *)
(***************************************************************************)
EXTENDS EncodingRouter, Chunker, AuditBridge, AuditLog, BulkImport, Reingest, FtsMigration, Lifespan

CONSTANTS n1, n2, n3, i2, d1, d2

VARIABLE part

serviceParts == <<vars, chunkVars, bridgeVars, auditVars, bulkVars, reingestVars,
                  migrationVars, lifespanVars>>

ServiceInit ==
    /\ part \in {"router", "chunker", "bridge", "audit", "bulk", "reingest", "migration", "lifespan"}
    /\ Init /\ ChunkInit /\ BridgeInit /\ AuditInit /\ BulkInit /\ ReingestInit
    /\ MigrationInit /\ LifespanInit
    /\ part # "router"    => gpu = "broken"
    /\ failedDocs \in {NoFile} \cup (IF part = "bulk" THEN {Dirs} ELSE {})
    /\ part # "reingest"  => script = "task_d" /\ hadOld = {}
    /\ part # "migration" => schema = 0 /\ \A d \in Docs : stored[d] = {}
    /\ part # "lifespan"  => ~metricsDir

ServiceNext ==
    /\ UNCHANGED part
    /\ \/ /\ part = "router" /\ Next
          /\ UNCHANGED <<chunkVars, bridgeVars, auditVars, bulkVars, reingestVars,
                         migrationVars, lifespanVars>>
       \/ /\ part = "chunker" /\ ChunkNext
          /\ UNCHANGED <<vars, bridgeVars, auditVars, bulkVars, reingestVars,
                         migrationVars, lifespanVars>>
       \/ /\ part = "bridge" /\ BridgeNext
          /\ UNCHANGED <<vars, chunkVars, auditVars, bulkVars, reingestVars,
                         migrationVars, lifespanVars>>
       \/ /\ part = "audit" /\ AuditNext
          /\ UNCHANGED <<vars, chunkVars, bridgeVars, bulkVars, reingestVars,
                         migrationVars, lifespanVars>>
       \/ /\ part = "bulk" /\ BulkNext
          /\ UNCHANGED <<vars, chunkVars, bridgeVars, auditVars, reingestVars,
                         migrationVars, lifespanVars>>
       \/ /\ part = "reingest" /\ ReingestNext
          /\ UNCHANGED <<vars, chunkVars, bridgeVars, auditVars, bulkVars,
                         migrationVars, lifespanVars>>
       \/ /\ part = "migration" /\ MigrationNext
          /\ UNCHANGED <<vars, chunkVars, bridgeVars, auditVars, bulkVars, reingestVars,
                         lifespanVars>>
       \/ /\ part = "lifespan" /\ LifespanNext
          /\ UNCHANGED <<vars, chunkVars, bridgeVars, auditVars, bulkVars, reingestVars,
                         migrationVars>>

(* The threads of the router's process run, as in its FairSpec.            *)
ServiceSpec ==
    /\ ServiceInit /\ [][ServiceNext]_<<part, serviceParts>>
    /\ WF_vars(part = "router" /\ CheckStep)
    /\ \A e \in Encoders : WF_vars(part = "router" /\ EncodeStep(e))

(* The migration by itself.                                                *)
MigrationPart == ServiceInit /\ part = "migration" /\ [][ServiceNext]_<<part, serviceParts>>
-----------------------------------------------------------------------------
(* Chunker: plain blocks of two scopes, some too long, one of a number and *)
(* its dot at the cut; blank blocks; tables without rows, with rows that   *)
(* fit beside the header, with an oversized row and one that does not fit  *)
(* beside it, and of a header alone.                                       *)
Block(id, type, text, header, lines, scope) ==
    [id |-> id, type |-> type, text |-> text, header |-> header, rows |-> lines,
     structured |-> header # <<>>, scope |-> scope, page |-> 1, form |-> {}]

Text(id, text, scope) == Block(id, "text", text, <<>>, <<>>, scope)

Letters(n) == [i \in 1 .. n |-> "a"]

MCBlocks ==
    {Text(1, Letters(3), "x"), Text(2, <<"u", "1", ".", "1", "a">>, "x"),
     Text(3, Letters(2) \o <<".">> \o Letters(3) \o <<" ", "a", "a", "n", "1", "a", "1">>, "x"),
     Text(4, Letters(5) \o <<"u", "1", ".", "1", "1">>, "y"), Text(5, <<" ", "n">>, "y"),
     Text(9, <<>>, "x"),
     Block(6, "kv", Letters(2), <<>>, <<>>, "x"),
     Block(7, "table", Letters(5) \o <<"1", "1", "1", "1", "1">>, <<>>, <<>>, "x"),
     Block(8, "table", Letters(13), <<"h", "h">>, <<Letters(2), Letters(2), Letters(7)>>, "y"),
     Block(10, "table", Letters(26), <<"h", "h">>,
           <<Letters(6) \o <<"u">> \o Letters(5), Letters(2), Letters(10)>>, "y"),
     Block(11, "table", Letters(12), <<"h", "h">>, <<>>, "y")}

(* Bulk import: the second directory holds the blocks of another document, *)
(* the third (Unusable) has no usable block; a list names all or is absent.*)
MCCorpus == <<n1, n2, n3>>

MCIdOf == [n \in {n1, n2, n3} |-> IF n = n2 THEN i2 ELSE n]

MCDocOrder == <<d1, d2>>
=============================================================================
