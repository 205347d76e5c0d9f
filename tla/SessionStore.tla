---------------------------- MODULE SessionStore ----------------------------
(***************************************************************************)
(* The capture store of the daemon (proxy-daemon/src/session.rs): an       *)
(* atomic id counter and, behind its own read/write lock, the captured     *)
(* transactions, newest first and never more than Capacity of them.        *)
(*                                                                         *)
(* One operator per method.  A method that takes the lock is one step,     *)
(* because nothing is awaited while the lock is held; next_id takes no     *)
(* lock at all, so an id is reserved in one step and recorded in another.  *)
(***************************************************************************)
EXTENDS Integers, Sequences

CONSTANT Capacity      \* SessionStore::new turns a capacity of 0 into 1

ASSUME CapacityAssumption == Capacity \in Nat \ {0}

VARIABLES
    next_id,           \* the AtomicU64; its wrap at 2^64 is out of reach
    transactions       \* the VecDeque, front first

storeVars == <<next_id, transactions>>

Schemes   == {"http", "https", "tunnel"}
Encodings == {"none", "chunked", "other"}     \* the Transfer-Encoding header

(* A captured transaction, reduced to what replay and settlement look at.  *)
(* A preview is "text" when the whole body was kept and decoded, "opaque"  *)
(* when it was cut at the preview limit or is not text.  "response" stands *)
(* for the four response fields that complete() assigns together.          *)
Transaction ==
    [ id                   : Nat,
      scheme               : Schemes,
      transfer_encoding    : Encodings,
      request_body_bytes   : {"zero", "some"},
      request_body_preview : {"none", "text", "opaque"},
      response             : {"none", "captured"},
      state                : {"pending", "complete", "failed"} ]

StoreInit == next_id = 1 /\ transactions = << >>

-----------------------------------------------------------------------------
(* iter().find(): the first record with this id, from the front.           *)
IsFirst(i, txn) ==
    /\ transactions[i].id = txn
    /\ \A j \in 1 .. (i - 1) : transactions[j].id # txn

(* Faulty get(): the newest record, whatever its id.                       *)
GetNewest(txn) == {transactions[i] : i \in DOMAIN transactions \cap {1}}

(* get(): at most one record.                                              *)
Get(txn) == {transactions[i] : i \in {j \in DOMAIN transactions : IsFirst(j, txn)}}

(* next_id(): fetch_add returns the old value.                             *)
NextId == next_id' = next_id + 1

InsertEvictsEarly(txn) ==
    transactions' =
        [i \in 1 .. (IF Len(transactions) + 1 < Capacity THEN Len(transactions) + 1 ELSE Capacity - 1)
            |-> IF i = 1 THEN txn ELSE transactions[i - 1]]

InsertAtBack(txn) ==
    transactions' = IF Len(transactions) < Capacity
                    THEN Append(transactions, txn)
                    ELSE Append(Tail(transactions), txn)

(* insert(): push_front, then pop_back while there are too many.           *)
Insert(txn) ==
    transactions' =
        [i \in 1 .. (IF Len(transactions) < Capacity THEN Len(transactions) + 1 ELSE Capacity)
            |-> IF i = 1 THEN txn ELSE transactions[i - 1]]

(* The update methods change the first record with this id, in one step    *)
(* under the write lock; without such a record they do nothing.            *)
SetRequestPreview(txn, bytes, preview) ==
    transactions' = [i \in DOMAIN transactions |->
        IF IsFirst(i, txn)
        THEN [transactions[i] EXCEPT !.request_body_bytes = bytes,
                                     !.request_body_preview = preview]
        ELSE transactions[i]]

Complete(txn) ==
    transactions' = [i \in DOMAIN transactions |->
        IF IsFirst(i, txn)
        THEN [transactions[i] EXCEPT !.response = "captured", !.state = "complete"]
        ELSE transactions[i]]

Fail(txn) ==
    transactions' = [i \in DOMAIN transactions |->
        IF IsFirst(i, txn)
        THEN [transactions[i] EXCEPT !.state = "failed"]
        ELSE transactions[i]]
=============================================================================
