----------------------------- MODULE Reassembly -----------------------------
(***************************************************************************)
(* The reassembly of 6LoWPAN datagrams in the packet sniffer,              *)
(* lndw22_doc/websniffer/sixlowpan.py, as send_pkts of main.py uses it:    *)
(* each captured fragment is added, and a datagram that is complete is     *)
(* sent to the browser and removed.                                        *)
(*                                                                         *)
(* Fragments of a datagram (a source and a tag) arrive in any order, some  *)
(* twice, some never.  Every fragment starts a timer of MaxAge that drops  *)
(* the whole entry; only the latest timer of a datagram is kept in _gcs,   *)
(* the others go on sleeping and cannot be cancelled.  A tag can be used   *)
(* again (the next generation) at any time: whatever rest a source gives   *)
(* its tags, a page that is opened later reads the whole file at once, and *)
(* uses that were hours apart come in the same second.  All uses of a tag  *)
(* are cut at the same offsets.  A tick of the clock is so short that no   *)
(* two fragments of a key fall into one; a timer that is due fires before  *)
(* the next tick.                                                          *)
(***************************************************************************)
EXTENDS Integers

CONSTANTS Keys,             \* pairs of a source address and a datagram tag
          NFrags,           \* fragments a datagram is cut into
          MaxAge,           \* MAX_AGE, in ticks
          MaxGen            \* bound on the times a key is used

ASSUME ReassemblyAssumption ==
  NFrags \in Nat \ {0} /\ MaxAge \in Nat \ {0} /\ MaxGen \in Nat \ {0}

Offset == 0..NFrags - 1
NoTimer == -1

VARIABLES
  fragments,        \* _fragments: generation of the fragment at each offset, or 0
  tracked,          \* time left to the timer in _gcs, or NoTimer
  sleeping,         \* times left to the timers no longer in _gcs
  \* The air:
  gen,              \* generation being sent
  heard,            \* ticks since each fragment of the key, those up to MaxAge
  \* History:
  age,              \* ticks since the entry was created, up to MaxAge + 1
  first,            \* ticks since the generation's first fragment, up to MaxAge
  got,              \* offsets that arrived within MaxAge of the first
  whole,            \* the generation was found complete
  sent,             \* the last fragment completed its datagram, and that was sent
  fresh,            \* when the generation began it was so, or the last fragment
                    \* longer ago than MaxAge
  echoed            \* an earlier generation's fragment turned MaxAge within it

reassemblyVars == <<fragments, tracked, sleeping, gen, heard, age, first, got, whole,
                    sent, fresh, echoed>>

Empty == [o \in Offset |-> 0]
Entry(k) == fragments[k] # Empty
Timers(k) == sleeping[k] \cup ({tracked[k]} \ {NoTimer})
Due(k) == 0 \in Timers(k)

ReassemblyInit ==
  /\ fragments = [k \in Keys |-> Empty]
  /\ tracked = [k \in Keys |-> NoTimer]
  /\ sleeping = [k \in Keys |-> {}]
  /\ gen = [k \in Keys |-> 1]
  /\ heard = [k \in Keys |-> {}]
  /\ age = [k \in Keys |-> 0]
  /\ first = [k \in Keys |-> 0]
  /\ got = [k \in Keys |-> {}]
  /\ whole = [k \in Keys |-> FALSE]
  /\ sent = [k \in Keys |-> FALSE]
  /\ fresh = [k \in Keys |-> TRUE]
  /\ echoed = [k \in Keys |-> FALSE]

(***************************************************************************)
(* add, and what send_pkts makes of its result                             *)
(***************************************************************************)

\* Of the fragments of an offset the first to arrive counts.
Added(k, o) ==
  [fragments[k] EXCEPT ![o] = IF @ = 0 THEN gen[k] ELSE @]

\* Mutants: the previous timer is replaced; the timer runs a tick too short.
RestartTimer(k) == sleeping[k]
ShortTimer == MaxAge - 1
NewTimer == MaxAge

\* self._gcs[src, tag] = ensure_future(...): the previous timer sleeps on.
Untrack(k) == Timers(k)

\* The fragments in order of their offsets make up a packet of the datagram's
\* size, whichever datagrams they are of.
Complete(frags) == \A o \in Offset : frags[o] # 0

\* remove: the timer in _gcs is cancelled.
remove(k) ==
  /\ fragments' = [fragments EXCEPT ![k] = Empty]
  /\ tracked' = [tracked EXCEPT ![k] = NoTimer]

\* send_pkts: a complete datagram is sent and removed.  When the browser has
\* gone, sending raises and the entry stays.
Deliver(k, frags) ==
  /\ Complete(frags)
  /\ remove(k)
  /\ sent' = [sent EXCEPT ![k] = TRUE]

Keep(k, frags) ==
  /\ fragments' = [fragments EXCEPT ![k] = frags]
  /\ tracked' = [tracked EXCEPT ![k] = NewTimer]
  /\ sent' = [sent EXCEPT ![k] = FALSE]

Arrive(k, o) ==
  LET frags == Added(k, o)
      inTime == got[k] = {} \/ first[k] < MaxAge
  IN
  /\ 0 \notin heard[k]
  /\ sleeping' = [sleeping EXCEPT ![k] = Untrack(k)]
  /\ Deliver(k, frags) \/ Keep(k, frags)
  /\ heard' = [heard EXCEPT ![k] = @ \cup {0}]
  /\ age' = [age EXCEPT ![k] = IF Entry(k) THEN @ ELSE 0]
  /\ first' = [first EXCEPT ![k] = IF got[k] = {} THEN 0 ELSE @]
  /\ got' = [got EXCEPT ![k] = IF inTime THEN @ \cup {o} ELSE @]
  /\ whole' = [whole EXCEPT ![k] = @ \/ \A p \in Offset : frags[p] = gen[k]]
  /\ echoed' = [echoed EXCEPT ![k] = IF got[k] = {} THEN MaxAge \in heard[k] ELSE @]
  /\ UNCHANGED <<gen, fresh>>

(***************************************************************************)
(* Time                                                                    *)
(***************************************************************************)

\* Mutant: the timeout forgets the timer but not the fragments.
ForgetTimer(k) == UNCHANGED fragments
DropEntry(k) == fragments' = [fragments EXCEPT ![k] = Empty]

\* _timeout and _remove: the key is deleted from _gcs too, so the timer it
\* held, if it is another one, sleeps on.
Expire(k) ==
  /\ Due(k)
  /\ DropEntry(k)
  /\ sleeping' = [sleeping EXCEPT ![k] = Timers(k) \ {0}]
  /\ tracked' = [tracked EXCEPT ![k] = NoTimer]
  /\ UNCHANGED <<gen, heard, age, first, got, whole, sent, fresh, echoed>>

UpTo(n, limit) == IF n < limit THEN n + 1 ELSE n

\* What turns MaxAge old is no fragment of the generation's own.
Echo(k) == got[k] # {} /\ first[k] + 1 < MaxAge /\ MaxAge - 1 \in heard[k]

Tick ==
  /\ \A k \in Keys : ~Due(k)
  /\ sleeping' = [k \in Keys |-> {t - 1 : t \in sleeping[k]}]
  /\ tracked' = [k \in Keys |-> IF tracked[k] = NoTimer THEN NoTimer
                                                        ELSE tracked[k] - 1]
  /\ heard' = [k \in Keys |-> {a + 1 : a \in heard[k] \ {MaxAge}}]
  /\ age' = [k \in Keys |-> UpTo(age[k], MaxAge + 1)]
  /\ first' = [k \in Keys |-> UpTo(first[k], MaxAge)]
  /\ echoed' = [k \in Keys |-> echoed[k] \/ Echo(k)]
  /\ UNCHANGED <<fragments, gen, got, whole, sent, fresh>>

\* The tag is used for another datagram.
NextGeneration(k) ==
  /\ got[k] # {} /\ gen[k] < MaxGen
  /\ gen' = [gen EXCEPT ![k] = @ + 1]
  /\ got' = [got EXCEPT ![k] = {}]
  /\ whole' = [whole EXCEPT ![k] = FALSE]
  /\ fresh' = [fresh EXCEPT ![k] = sent[k] \/ heard[k] = {}]
  /\ echoed' = [echoed EXCEPT ![k] = FALSE]
  /\ UNCHANGED <<fragments, tracked, sleeping, heard, age, first, sent>>

ReassemblyNext ==
  \/ \E k \in Keys : Expire(k) \/ NextGeneration(k) \/ \E o \in Offset : Arrive(k, o)
  \/ Tick

ReassemblySpec == ReassemblyInit /\ [][ReassemblyNext]_reassemblyVars

-----------------------------------------------------------------------------
(***************************************************************************)
(* Properties                                                              *)
(***************************************************************************)

ReassemblyTypeOK ==
  /\ fragments \in [Keys -> [Offset -> 0..MaxGen]]
  /\ tracked \in [Keys -> 0..MaxAge \cup {NoTimer}]
  /\ sleeping \in [Keys -> SUBSET (0..MaxAge)]
  /\ gen \in [Keys -> 1..MaxGen]
  /\ heard \in [Keys -> SUBSET (0..MaxAge)]
  /\ age \in [Keys -> 0..MaxAge + 1]
  /\ first \in [Keys -> 0..MaxAge]
  /\ got \in [Keys -> SUBSET Offset]
  /\ {whole, sent, fresh, echoed} \subseteq [Keys -> BOOLEAN]

\* No entry outlives MaxAge, however many fragments, duplicates and failed
\* sends it saw and whichever timers were cancelled or lost their place in
\* _gcs: one of its timers fires in time.
EntriesExpireOnTime ==
  \A k \in Keys : Entry(k) => \E t \in Timers(k) : t + age[k] <= MaxAge

\* Fragments of two uses of a tag are put together only when one begins within
\* MaxAge of a fragment that the other left in the buffer, whatever duplicates
\* came after a datagram was sent.  Nothing else of the earlier use can be met.
NoMixedDatagram ==
  \A k \in Keys : fresh[k] => \A o \in Offset : fragments[k][o] \in {0, gen[k]}

\* A datagram whose fragments all arrive within MaxAge of the first is found
\* complete, whatever timers were left behind, unless it began in the remains of
\* an earlier use of its tag, or a fragment of an earlier use, even of one that
\* was sent, turned MaxAge old meanwhile: then its forgotten timer strikes.
AllInTimeMeansWhole ==
  \A k \in Keys : fresh[k] /\ ~echoed[k] /\ got[k] = Offset => whole[k]

=============================================================================
