----------------------------- MODULE UserService ------------------------------
(***************************************************************************)
(* user_service/server.py: the store of Store.tla, and list_users.  What a *)
(* user is called does not matter to any handler; an answer holds text and *)
(* sizes only, and can always be written.                                  *)
(***************************************************************************)
EXTENDS Store

\* list_users calls len() and then list(), which cannot fail.
ListBegin(w) ==
  /\ Serve(w, [Started("list", "list", 0) EXCEPT !.size = Size])
  /\ UNCHANGED tables

ListEnd(w) ==
  /\ At(w, "list")
  /\ \E ref \in Watched \cup {0} :
       Becomes(w, [worker[w] EXCEPT
         !.pc = "handed", !.ref = ref,
         !.verdict = IF Size = worker[w].size THEN "ok" ELSE "uneven"])
  /\ UNCHANGED <<tables, calm>>

Request(w, id) ==
  \/ GetBegin(w, id) \/ UpdateFields(w, id) \/ Delete(w, id)
  \/ \E op \in {"put", "delete"} : NotFound(w, op, id)

Next ==
  \E w \in Workers :
    \/ CreateRead(w) \/ CreateStore(w) \/ WalkBegin(w) \/ ListBegin(w) \/ ListEnd(w)
    \/ \E id \in Addressed : Request(w, id)
    \/ StoreGo(w, TRUE)

Spec == StoreInit /\ [][Next]_store
=============================================================================
