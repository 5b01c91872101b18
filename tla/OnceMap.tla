------------------------------ MODULE OnceMap --------------------------------
(***************************************************************************)
(* What SymbolsIndexer's module map promises (spec 4.5, 5 and 9): a       *)
(* concurrent insert-once map per indexer, from a module name to the      *)
(* loader's result.                                                        *)
(*                                                                         *)
(*  - A lookup of a filled key returns the cached value.                   *)
(*  - At most one caller at a time runs the loader for a key; the others   *)
(*    wait until it completes.                                             *)
(*  - An Ok result fills the key once and for all and is returned; an Err  *)
(*    is returned to that caller only and leaves the key vacant, so a      *)
(*    later caller retries (a failed load does not poison the slot).       *)
(*  - Every request is answered.                                           *)
(*                                                                         *)
(* An indexer lives as long as its process: Drop(i) discards indexer i     *)
(* with its entries and abandons the requests of its callers.              *)
(***************************************************************************)
EXTENDS Naturals

CONSTANTS
  Indexers,      \* the SymbolsIndexer instances (one per process)
  Names,         \* module names
  Callers,       \* the threads that call load_module
  Values,        \* what a load may cache (Some(symbols) or None)
  IndexerOf(_)   \* the indexer a caller uses

Keys   == Indexers \X Names
Vacant == "vacant"
Idle   == <<>>   \* no pending request (keys and callers are tuples)
NoOne  == <<>>   \* no loader running

ASSUME Vacant \notin Values

Ok(v) == [ok |-> TRUE, val |-> v]
Err   == [ok |-> FALSE]
NoResult == [ok |-> FALSE, none |-> TRUE]

VARIABLES
  map,     \* map[k]: the value cached for key k, or Vacant
  loader,  \* loader[k]: the caller running the loader for k, or NoOne
  req,     \* req[c]: the key caller c asked for and has no answer to, or Idle
  ret      \* ret[c]: the answer to c's last request

ovars == <<map, loader, req, ret>>

OnceInit ==
  /\ map = [k \in Keys |-> Vacant]
  /\ loader = [k \in Keys |-> NoOne]
  /\ req = [c \in Callers |-> Idle]
  /\ ret = [c \in Callers |-> NoResult]

(* Caller c asks its indexer for module n.                                 *)
Request(c, n) ==
  /\ req[c] = Idle
  /\ req' = [req EXCEPT ![c] = <<IndexerOf(c), n>>]
  /\ UNCHANGED <<map, loader, ret>>

(* The key is filled: its value is the answer.                             *)
Hit(c) ==
  /\ req[c] # Idle
  /\ map[req[c]] # Vacant
  /\ ret' = [ret EXCEPT ![c] = Ok(map[req[c]])]
  /\ req' = [req EXCEPT ![c] = Idle]
  /\ UNCHANGED <<map, loader>>

(* The key is vacant and nobody loads it: c becomes its loader.            *)
Claim(c) ==
  /\ req[c] # Idle
  /\ map[req[c]] = Vacant
  /\ loader[req[c]] = NoOne
  /\ loader' = [loader EXCEPT ![req[c]] = c]
  /\ UNCHANGED <<map, req, ret>>

(* c's loader returns Ok(v): v is cached and answered.                     *)
Fill(c, v) ==
  /\ req[c] # Idle
  /\ loader[req[c]] = c
  /\ map' = [map EXCEPT ![req[c]] = v]
  /\ loader' = [loader EXCEPT ![req[c]] = NoOne]
  /\ ret' = [ret EXCEPT ![c] = Ok(v)]
  /\ req' = [req EXCEPT ![c] = Idle]

(* c's loader returns Err: answered to c, the key stays vacant.            *)
Fail(c) ==
  /\ req[c] # Idle
  /\ loader[req[c]] = c
  /\ loader' = [loader EXCEPT ![req[c]] = NoOne]
  /\ ret' = [ret EXCEPT ![c] = Err]
  /\ req' = [req EXCEPT ![c] = Idle]
  /\ UNCHANGED map

(* Indexer i is dropped with its process, and a new, empty one replaces it. *)
Drop(i) ==
  /\ map' = [k \in Keys |-> IF k[1] = i THEN Vacant ELSE map[k]]
  /\ loader' = [k \in Keys |-> IF k[1] = i THEN NoOne ELSE loader[k]]
  /\ req' = [c \in Callers |-> IF IndexerOf(c) = i THEN Idle ELSE req[c]]
  /\ ret' = [c \in Callers |-> IF IndexerOf(c) = i THEN NoResult ELSE ret[c]]

(* The steps that answer or advance c's pending request.                   *)
Serve(c) == Hit(c) \/ Claim(c) \/ (\E v \in Values : Fill(c, v)) \/ Fail(c)

OnceNext ==
  \/ \E c \in Callers, n \in Names : Request(c, n)
  \/ \E c \in Callers : Serve(c)
  \/ \E i \in Indexers : Drop(i)

(* A caller whose request can advance eventually advances it.              *)
OnceSpec == OnceInit /\ [][OnceNext]_ovars /\ \A c \in Callers : WF_ovars(Serve(c))
=============================================================================
