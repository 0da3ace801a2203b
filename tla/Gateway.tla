------------------------------ MODULE Gateway -------------------------------
(***************************************************************************)
(* The discovery gateway (gateway/src): one tenant, one campaign.  A call  *)
(* starts a job under its idempotency key or shares the one in flight; the *)
(* job goes on when the caller has its 503.  It searches a page of people, *)
(* buys the details of each that was never bought, and verifies them; what *)
(* happens between two vendor calls is one step.  The store holds results, *)
(* people bought and the page reached, in a file that survives a crash.    *)
(* People are numbered in the vendor's order.                              *)
(***************************************************************************)
EXTENDS Naturals, FiniteSets, FiniteSetsExt

CONSTANTS Key,      \* idempotency keys of POST /discover
          Check,    \* idempotency keys of POST /verify
          Hash,     \* requests
          People,   \* number of people the vendor knows
          Limit,    \* prospects asked for
          Budget,   \* people a job may buy
          MinPage, MaxPages,
          MaxBuys,  \* bound: purchases of one person
          None

VARIABLES
    result,  \* GatewayStore.results: [hash, value] by key, or None
    job,     \* GatewayStore.inflight: the job by key, or None
    seen,    \* people marked as bought
    cursor,  \* last page used up
    bought,  \* the vendor's bill: purchases of each person
    excused, \* history: people asked for by two jobs at once, or paid for
             \* without an answer
    told     \* history: the answers each key has had, as sets of people; the
             \* answer to a verification is empty or {1}

kept == <<result, seen, cursor>>
vars == <<kept, job, bought, excused, told>>

Person == 1..People
Answer == SUBSET Person
Job == [hash : Hash, at : {"search", "enrich", "verify", "check"}, page : Nat, size : Nat,
        pages : 0..MaxPages, todo : SUBSET Person, who : Person \cup {None},
        enriched : 0..Budget, found : SUBSET Person]

TypeOK ==
    /\ \A k \in Key \cup Check :
          /\ result[k] # None => result[k].hash \in Hash /\ result[k].value \in Answer
          /\ job[k] # None => job[k] \in Job
          /\ told[k] \subseteq Answer
    /\ seen \subseteq Person /\ excused \subseteq Person
    /\ cursor \in Nat /\ bought \in [Person -> 0..MaxBuys]

Init ==
    /\ result = [k \in Key \cup Check |-> None] /\ job = result
    /\ seen = {} /\ cursor = 0 /\ excused = {}
    /\ bought = [p \in Person |-> 0] /\ told = [k \in Key \cup Check |-> {}]

-----------------------------------------------------------------------------
PageSize(enriched) == Max({MinPage, (Budget - enriched) * 2})

(* apollo.searchPeople: a page of the people who match. *)
Page(j) == {p \in Person : (j.page - 1) * j.size < p /\ p <= j.page * j.size}

(* done(), its deadline apart. *)
Full(j) == Cardinality(j.found) >= Limit \/ j.enriched >= Budget

Search(j, page) == [j EXCEPT !.at = "search", !.page = page, !.size = PageSize(j.enriched),
                             !.pages = @ + 1, !.who = None, !.todo = {}]

NewJob(k, h) ==
    LET j == [hash |-> h, at |-> "check", page |-> 0, size |-> 0, pages |-> 0, todo |-> {},
              who |-> None, enriched |-> 0, found |-> {}]
    IN IF k \in Check THEN j ELSE Search(j, cursor + 1)

(* Whoever waits for the job has its answer; those whose wait is over were told that it
   goes on, and ask again. *)
Tell(k, value) == told' = [told EXCEPT ![k] = @ \cup {value}]

(* run(): a key that has a result answers it, one in flight shares its job, and
   either is refused to another request. *)
Call(k, h) ==
    /\ job[k] = None
    /\ IF result[k] = None
         THEN job' = [job EXCEPT ![k] = NewJob(k, h)] /\ UNCHANGED told
         ELSE /\ result[k].hash = h
              /\ Tell(k, result[k].value)
              /\ UNCHANGED job
    /\ UNCHANGED <<kept, bought, excused>>

(* The job ends: its result is stored and whoever waits is told. *)
Finish(k, value) ==
    /\ job' = [job EXCEPT ![k] = None]
    /\ result' = [result EXCEPT ![k] = [hash |-> job[k].hash, value |-> value]]
    /\ Tell(k, value)

(* The job goes on with the next person of its page that was not bought, with the
   next page, or, when it is full or late, ends. *)
Onward(k, j, bill) ==
    \/ /\ j.todo # {} /\ Finish(k, j.found)    \* done(): full, or past the deadline
       /\ bought' = bill /\ UNCHANGED <<cursor, excused>>
    \/ /\ j.todo \ seen' = {}
       /\ cursor' = j.page
       /\ \/ Finish(k, j.found)
          \/ /\ ~Full(j) /\ j.pages < MaxPages
             /\ job' = [job EXCEPT ![k] = Search(j, j.page + 1)]
             /\ UNCHANGED <<result, told>>
       /\ bought' = bill /\ UNCHANGED excused
    \/ /\ ~Full(j) /\ j.todo \ seen' # {}
       /\ LET p == Min(j.todo \ seen')
          IN /\ job' = [job EXCEPT ![k] = [j EXCEPT !.at = "enrich", !.who = p,
                                                   !.todo = {q \in @ : q > p}]]
             /\ excused' = IF \E i \in Key \ {k} : job[i] # None /\ job[i].at = "enrich" /\ job[i].who = p
                             THEN excused \cup {p} ELSE excused
       /\ bought' = bill /\ UNCHANGED <<cursor, result, told>>

At(k, point) == job[k] # None /\ job[k].at = point

(* An empty page: the next job starts over. *)
Searched(k) ==
    /\ At(k, "search") /\ UNCHANGED seen
    /\ IF Page(job[k]) = {}
         THEN cursor' = 0 /\ Finish(k, job[k].found) /\ UNCHANGED <<bought, excused>>
         ELSE Onward(k, [job[k] EXCEPT !.todo = Page(job[k])], bought)

(* Mutant: a person is marked when verified, not when bought. *)
Marked_Verified(p, point) == IF point = "verify" THEN seen \cup {p} ELSE seen

(* markSeen, once the vendor has answered. *)
Marked(p, point) == IF point = "enrich" THEN seen \cup {p} ELSE seen

(* The vendor bills an answer that has an address. *)
Billed(paid) == {p \in Person : \E k \in paid : job[k].who = p}
Bill(paid) == [p \in Person |-> bought[p] + Cardinality({k \in paid : job[k].who = p})]
Bounded(paid) == \A p \in Billed(paid) : Bill(paid)[p] <= MaxBuys

Enriched(k, paid) ==
    LET j == [job[k] EXCEPT !.enriched = @ + 1]
    IN /\ At(k, "enrich") /\ Bounded(paid)
       /\ seen' = Marked(j.who, "enrich")
       /\ IF paid = {} THEN Onward(k, j, bought)
          ELSE \/ Onward(k, j, Bill(paid))     \* no usable company, title or address
               \/ /\ job' = [job EXCEPT ![k] = [j EXCEPT !.at = "verify"]]
                  /\ bought' = Bill(paid)
                  /\ UNCHANGED <<result, cursor, excused, told>>

Verified(k, valid) ==
    /\ At(k, "verify")
    /\ seen' = Marked(job[k].who, "verify")
    /\ Onward(k, IF valid THEN [job[k] EXCEPT !.found = @ \cup {job[k].who}] ELSE job[k], bought)

(* POST /verify: only a definite answer is stored. *)
Checked(k) ==
    /\ At(k, "check")
    /\ \/ \E valid \in SUBSET {1} : Finish(k, valid)
       \/ job' = [job EXCEPT ![k] = None] /\ UNCHANGED <<result, told>>
    /\ UNCHANGED <<seen, cursor, bought, excused>>

(* VendorError ends the job: what it found is its result, if anything.  The vendor
   may have billed the call all the same. *)
VendorFails(k, paid) ==
    /\ job[k] # None /\ Bounded(paid) /\ (paid # {} => job[k].at = "enrich")
    /\ IF job[k].found = {} THEN job' = [job EXCEPT ![k] = None] /\ UNCHANGED <<result, told>>
                            ELSE Finish(k, job[k].found)
    /\ bought' = Bill(paid) /\ excused' = excused \cup Billed(paid)
    /\ UNCHANGED <<seen, cursor>>

(* What the file gives back. *)
Kept == result

Crash ==
    /\ \E k \in DOMAIN job : job[k] # None
    /\ job' = [k \in DOMAIN job |-> None] /\ result' = Kept
    /\ \E paid \in SUBSET {k \in Key : At(k, "enrich")} :
          /\ Bounded(paid)
          /\ bought' = Bill(paid) /\ excused' = excused \cup Billed(paid)
    /\ UNCHANGED <<seen, cursor, told>>

Next ==
    \/ \E k \in Key \cup Check, h \in Hash : Call(k, h)
    \/ \E k \in Key :
          \/ Searched(k)
          \/ \E paid \in {{}, {k}} : Enriched(k, paid)
          \/ \E valid \in BOOLEAN : Verified(k, valid)
    \/ \E k \in Key \cup Check : \E paid \in {{}, {k}} : VendorFails(k, paid)
    \/ \E k \in Check : Checked(k)
    \/ Crash

Spec == Init /\ [][Next]_vars

-----------------------------------------------------------------------------
(* A key has one answer for ever, whatever fails, is retried or restarts between
   two calls (store.ts:32). *)
SameKeySameAnswer == \A k \in Key \cup Check : Cardinality(told[k]) <= 1

(* No one is bought twice unless two jobs of the campaign asked at the same moment or
   an answer paid for was lost (discover.ts:57). *)
BoughtOnce == \A p \in Person : bought[p] <= 1 \/ p \in excused

(* gateway/README.md:17: people already enriched are never bought twice. *)
NeverBoughtTwice == \A p \in Person : bought[p] <= 1
=============================================================================
