----------------------------- MODULE AccessStore -----------------------------
(* The promise of the persistence layer: the documents change one operation  *)
(* at a time.  Each operation is decided and written, whole, against the     *)
(* documents as they are; nothing of it is seen before, nothing is lost      *)
(* after, and nothing else ever changes a document.                          *)

CONSTANTS
  InitialDocs,              \* the stores a process may be started over
  Inputs,                   \* the requests clients make
  Arrivals,                 \* the instants they are received at
  Possible(_, _),           \* whether a request can be made of the documents
  Effects(_, _, _)          \* what it may do to them, decided at an instant

VARIABLE docs

StoreInit == docs \in InitialDocs

\* A refused operation, or a replay, is no step of the store.
StoreNext ==
  /\ docs' # docs
  /\ \E r \in Inputs, at \in Arrivals :
       /\ Possible(docs, r)
       /\ \E effect \in Effects(docs, r, at) : docs' = effect.docs

StoreSpec == StoreInit /\ [][StoreNext]_docs
=============================================================================
