----------------------------- MODULE HandshakeStore -----------------------------
(***************************************************************************)
(* HandshakeService: rows of handshakes, whose metadata the actors fill in *)
(* by a read, a merge in memory and a write.                               *)
(*                                                                         *)
(* The metadata of a row is a function from <<actor, field>> to the call   *)
(* whose value is stored there.                                            *)
(***************************************************************************)
EXTENDS RestCalls, Naturals, Sequences

CONSTANTS Handshakes,   \* ids of the rows ever created
          Actors, Fields

VARIABLES handshake,    \* id -> its row
          writes        \* observer: who wrote which fields of which row's metadata, in order

storeVars == <<handshake, writes>>

Statuses == {"pending", "completed"}
NoData == [k \in {} |-> k]
NoRow == [status |-> "none", metadata |-> NoData]
DeletedRow == [status |-> "deleted", metadata |-> NoData]
Exists(h) == handshake[h].status \in Statuses

\* Metadata as a body can give it: what call c says about one actor.
Given(c) == {[k \in {a} \X fs |-> c] : a \in Actors, fs \in SUBSET Fields}

\* The database outlives the process: there may be rows from before.
InitStore ==
    /\ handshake \in [Handshakes -> {NoRow, [status |-> "pending", metadata |-> NoData]}]
    /\ writes = <<>>

Write(c, h, keys) == writes' = Append(writes, [by |-> c, row |-> h, keys |-> keys])

CreateHandshake(c) ==
    \E h \in Handshakes, m \in Given(c) :
        /\ handshake[h] = NoRow
        /\ handshake' = [handshake EXCEPT ![h] = [status |-> "pending", metadata |-> m]]
        /\ Write(c, h, DOMAIN m)
        /\ AnswerAtOnce(c, "create", h, "done")

\* Of status and metadata, those in the body are assigned.  update throws if
\* there is no such row.
UpdateHandshake(c) ==
    \E h \in Handshakes, status \in Statuses \cup {"omitted"}, m \in Given(c), gives \in BOOLEAN :
        \/ /\ Exists(h)
           /\ handshake' = [handshake EXCEPT
                  ![h].status = IF status = "omitted" THEN @ ELSE status,
                  ![h].metadata = IF gives THEN m ELSE @]
           /\ IF gives THEN Write(c, h, Actors \X Fields) ELSE UNCHANGED writes
           /\ AnswerAtOnce(c, "update", h, "done")
        \/ /\ ~Exists(h)
           /\ AnswerAtOnce(c, "update", h, "Error")
           /\ UNCHANGED storeVars

\* Mutant of FindForMerge: an upsert in place of findUnique.
UpsertForMerge(c) ==
    /\ \E h \in Handshakes, m \in Given(c) :
          /\ handshake' = [handshake EXCEPT ![h] = IF Exists(h) THEN @ ELSE [status |-> "pending", metadata |-> NoData]]
          /\ Await(c, "addMetadata", h, [metadata |-> handshake[h].metadata, brings |-> m])
    /\ UNCHANGED writes

\* addMetadata up to its first await: findUnique.
FindForMerge(c) ==
    /\ \E h \in Handshakes, m \in Given(c) :
          \/ Exists(h) /\ Await(c, "addMetadata", h, [metadata |-> handshake[h].metadata, brings |-> m])
          \/ ~Exists(h) /\ AnswerAtOnce(c, "addMetadata", h, "NotFound")
    /\ UNCHANGED storeVars

\* Mutant of Merged: the actor's earlier fields are not spread.
MergedWithoutFields(read) == read.brings

\* The new metadata: what was read, overridden by what the call brings.
Merged(read) ==
    [k \in DOMAIN read.metadata \cup DOMAIN read.brings |->
        IF k \in DOMAIN read.brings THEN read.brings[k] ELSE read.metadata[k]]

\* addMetadata after it: the whole metadata is written back.
WriteMerged(c) ==
    /\ Waiting(c, "addMetadata")
    /\ LET h == call[c].on IN
        \/ /\ Exists(h)
           /\ handshake' = [handshake EXCEPT ![h].metadata = Merged(call[c].read)]
           /\ Write(c, h, DOMAIN call[c].read.brings)
           /\ AnswerWaiting(c, "done")
        \/ /\ ~Exists(h)
           /\ AnswerWaiting(c, "Error")
           /\ UNCHANGED storeVars

DeleteHandshake(c) ==
    \E h \in Handshakes :
        \/ /\ Exists(h)
           /\ handshake' = [handshake EXCEPT ![h] = DeletedRow]
           /\ AnswerAtOnce(c, "delete", h, "done")
           /\ UNCHANGED writes
        \/ /\ ~Exists(h)
           /\ AnswerAtOnce(c, "delete", h, "Error")
           /\ UNCHANGED storeVars

\* getHandshake and getHandshakeBySession; every handshake has a session of
\* its own here.
GetHandshake(c) ==
    /\ \E h \in Handshakes, op \in {"findOne", "findBySession"} :
          AnswerAtOnce(c, op, h, IF Exists(h) THEN handshake[h].status ELSE "NotFound")
    /\ UNCHANGED storeVars

\* getHandshakesByUser, of a user who takes part in all of them.
GetHandshakesByUser(c) ==
    /\ AnswerAtOnce(c, "findByUser", {h \in Handshakes : Exists(h)}, "done")
    /\ UNCHANGED storeVars

HandshakeCall(c) ==
    \/ GetHandshake(c) \/ GetHandshakesByUser(c) \/ CreateHandshake(c) \/ UpdateHandshake(c) \/ DeleteHandshake(c)
    \/ FindForMerge(c) \/ WriteMerged(c)

-----------------------------------------------------------------------------
\* What an actor was told is stored stays in the row until the row is
\* deleted, the field is written again or the metadata replaced; it is lost
\* otherwise only to a merge that was under way together with its own, and a
\* client that waits for the answers loses nothing (addMetadata).
LossNeedsOverlap ==
    \A i \in 1..Len(writes) :
        LET mine == writes[i] IN
        \A k \in mine.keys :
            \/ call[mine.by].op # "addMetadata"
            \/ ~Exists(mine.row)
            \/ k \in DOMAIN handshake[mine.row].metadata /\ handshake[mine.row].metadata[k] = mine.by
            \/ \E j \in i + 1..Len(writes) :
                  /\ writes[j].row = mine.row
                  /\ k \in writes[j].keys \/ <<mine.by, writes[j].by>> \in together
=============================================================================
