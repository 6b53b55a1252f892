---------------------------- MODULE OutboxProofs ----------------------------
(***************************************************************************)
(* What holds of Outbox for any number of messages and of drains, whatever *)
(* crashes, file errors and delays occur and however sends and drains      *)
(* overlap; and of HerdrClient, which carries a drained message to its     *)
(* pane: whatever text is delivered has nothing a terminal would act on.   *)
(***************************************************************************)
EXTENDS MCOutbox, FiniteSetTheorems, SequenceTheorems, WellFoundedInduction, TLAPS

(* None of these has befallen the message. *)
Spared(m, what) == mishaps[m] \cap what = {}

-----------------------------------------------------------------------------
(* The inductive invariant behind NoLoss. *)

(* A number is chosen before it is used. *)
Numbered ==
    /\ \A m \in Msgs : spc[m] \in {"create", "write", "queued"} => sseq[m] \in Seqs
    /\ \A d \in Drains : Holds(d) \/ dpc[d] = "unclaim" => dseq[d] \in Seqs

Typed == TypeOK /\ Numbered

(* The file m has one of the two names of the number. *)
Leads(s, m) == queue[s] = m \/ claims[s] = m

(* A file has one name, and that of the number its sender gave it. *)
NamesOwned ==
    \A s \in Seqs, m \in Msgs : Leads(s, m) =>
        /\ sseq[m] = s /\ spc[m] \in {"write", "queued", "crashed", "failed"}
        /\ ~(queue[s] = m /\ claims[s] = m)

(* A number that is not shared names one file, and nobody else writes it. *)
NamesOne ==
    \A s \in Seqs, m \in Msgs : Leads(s, m) /\ Spared(m, {"shared"}) =>
        /\ queue[s] = None \/ claims[s] = None
        /\ \A n \in Msgs : spc[n] = "write" /\ sseq[n] = s => n = m

(* While a sender writes, its file is queued and no drain handles its number. *)
WritesAlone ==
    \A m \in Msgs : spc[m] = "write" /\ Spared(m, {"shared", "torn"}) =>
        /\ queue[sseq[m]] = m
        /\ \A d \in Drains : Holds(d) => dseq[d] # sseq[m]

(* What a drain has read is what it handles, and nothing takes its place. *)
ReadsOwn ==
    \A d \in Drains, m \in Msgs :
        /\ dpc[d] \in {"type", "verify", "remove"}
        /\ Leads(dseq[d], m) /\ Written(m) /\ Spared(m, {"shared", "torn"})
        => dtext[d] = m

(* A drain removes only what has been submitted. *)
RemovesSubmitted ==
    \A d \in Drains : dpc[d] = "remove" => dtext[d] \in submitted \cup {Empty}

(* Only what was sent is read, and only that is submitted. *)
SentOnly ==
    /\ \A d \in Drains : dtext[d] \in Msgs => Written(dtext[d])
    /\ \A d \in Drains : dpc[d] \in {"type", "verify", "remove"} => dtext[d] # None
    /\ \A d \in Drains : dpc[d] \in {"off", "sweep", "unclaim", "claim", "read"} => dtext[d] = None
    /\ \A m \in submitted : spc[m] \in {"sent", "queued"}

Kept ==
    /\ NamesOwned
    /\ NamesOne
    /\ WritesAlone
    /\ ReadsOwn
    /\ RemovesSubmitted
    /\ SentOnly
    /\ NoLoss

-----------------------------------------------------------------------------
(* What a step keeps. *)

(* Typed is inductive: TypeOK alone is not, since a drain reads its claim. *)
LEMMA TypedByNext ==
    ASSUME Typed, [Next]_vars
    PROVE  Typed'
<1> USE OutboxAssumption DEF Typed, Numbered, Holds, TypeOK, Files, SenderStates, DrainStates,
                             Mishaps, diskVars, sendVars, drainVars, history
<1>1. ASSUME NEW m \in Msgs, SendDirect(m) PROVE Typed'
  BY <1>1 DEF SendDirect, SenderGoes
<1>2. ASSUME NEW m \in Msgs, SendDirectFails(m) PROVE Typed'
  BY <1>2 DEF SendDirectFails, SenderGoes
<1>3. ASSUME NEW m \in Msgs, SendQueued(m) PROVE Typed'
  BY <1>3 DEF SendQueued, SenderGoes
<1>4. ASSUME NEW m \in Msgs, ListOutbox(m) PROVE Typed'
  BY <1>4 DEF ListOutbox, SenderGoes
<1>5. ASSUME NEW m \in Msgs, SequenceExhausted(m) PROVE Typed'
  BY <1>5 DEF SequenceExhausted, SenderGoes
<1>6. ASSUME NEW m \in Msgs, CreateEntry(m) PROVE Typed'
  BY <1>6 DEF CreateEntry, SenderGoes, Sharers, TooLate
<1>7. ASSUME NEW m \in Msgs, CreateCollides(m) PROVE Typed'
  BY <1>7 DEF CreateCollides, SenderGoes
<1>8. ASSUME NEW m \in Msgs, WriteEntry(m) PROVE Typed'
  BY <1>8 DEF WriteEntry, SenderGoes
<1>9. ASSUME NEW m \in Msgs, WriteFails(m) PROVE Typed'
  BY <1>9 DEF WriteFails, SenderGoes
<1>10. ASSUME NEW m \in Msgs, EnqueueFails(m) PROVE Typed'
  BY <1>10 DEF EnqueueFails
<1>11. ASSUME NEW d \in Drains, StartDrain(d) PROVE Typed'
  BY <1>11 DEF StartDrain, DrainGoes, Claimed
<1>12. ASSUME NEW d \in Drains, NEW s \in Seqs, SweepFresh(d, s) PROVE Typed'
  BY <1>12 DEF SweepFresh
<1>13. ASSUME NEW d \in Drains, NEW s \in Seqs, SweepStale(d, s) PROVE Typed'
  BY <1>13 DEF SweepStale, DrainGoes
<1>14. ASSUME NEW d \in Drains, NEW s \in Seqs, ClaimEntry(d, s) PROVE Typed'
  BY <1>14 DEF ClaimEntry, DrainGoes, Befalls
<1>15. ASSUME NEW d \in Drains, NEW s \in Seqs, SkipEntry(d, s) PROVE Typed'
  BY <1>15 DEF SkipEntry, Befalls
<1>16. ASSUME NEW d \in Drains, SweepClaim(d) PROVE Typed'
  BY <1>16 DEF SweepClaim, DrainGoes, UnclaimOrIgnore, Unclaimed, Befalls, Orphan
<1>17. ASSUME NEW d \in Drains, ListQueue(d) PROVE Typed'
  BY <1>17 DEF ListQueue, DrainGoes, Befalls, Queued
<1>18. ASSUME NEW d \in Drains, FinishDrain(d) PROVE Typed'
  BY <1>18 DEF FinishDrain, Stops
<1>19. ASSUME NEW d \in Drains, ReadClaim(d) PROVE Typed'
  BY <1>19 DEF ReadClaim, DrainGoes, TextOf
<1>20. ASSUME NEW d \in Drains, ReadFails(d) PROVE Typed'
  BY <1>20 DEF ReadFails, DrainGoes
<1>21. ASSUME NEW d \in Drains, TypeText(d) PROVE Typed'
  BY <1>21 DEF TypeText, DrainGoes
<1>22. ASSUME NEW d \in Drains, Verified(d) PROVE Typed'
  BY <1>22 DEF Verified, DrainGoes
<1>23. ASSUME NEW d \in Drains, DeliveryFails(d) PROVE Typed'
  BY <1>23 DEF DeliveryFails
<1>24. ASSUME NEW d \in Drains, Requeue(d) PROVE Typed'
  BY <1>24 DEF Requeue, Stops, UnclaimOrIgnore, Unclaimed
<1>25. ASSUME NEW d \in Drains, RemoveClaim(d) PROVE Typed'
  BY <1>25 DEF RemoveClaim, DrainGoes
<1>26. ASSUME NEW d \in Drains, DrainFails(d) PROVE Typed'
  BY <1>26 DEF DrainFails, Stops, Befalls
<1>27. ASSUME NEW m \in Msgs, SenderCrashes(m) PROVE Typed'
  BY <1>27 DEF SenderCrashes
<1>28. ASSUME NEW m \in Msgs, Age(m) PROVE Typed'
  BY <1>28 DEF Age
<1>29. ASSUME NEW d \in Drains, DrainCrashes(d) PROVE Typed'
  BY <1>29 DEF DrainCrashes, Stops, Befalls
<1>30. CASE UNCHANGED vars
  BY <1>30 DEF vars
<1> QED BY <1>1, <1>2, <1>3, <1>4, <1>5, <1>6, <1>7, <1>8, <1>9, <1>10, <1>11, <1>12, <1>13,
           <1>14, <1>15, <1>16, <1>17, <1>18, <1>19, <1>20, <1>21, <1>22, <1>23, <1>24, <1>25,
           <1>26, <1>27, <1>28, <1>29, <1>30
       DEF Next, Sender, Drain, Environment

(* Every state is of its types. *)
LEMMA TypedThroughout == Spec => []Typed
<1>1. Init => Typed
  BY OutboxAssumption
     DEF Init, Typed, Numbered, Holds, TypeOK, Files, SenderStates, DrainStates, Mishaps
<1> QED BY <1>1, TypedByNext, PTL DEF Spec

(***************************************************************************)
(* The processes only ever hold values of the types TypeOK gives them: in  *)
(* particular the number a sender creates its file under and the number a  *)
(* drain moves are in 1..MaxSeq.                                           *)
(***************************************************************************)
THEOREM TypeCorrect == Spec => []TypeOK
<1>1. Typed => TypeOK
  BY DEF Typed
<1> QED BY <1>1, TypedThroughout, PTL

(* What is read was written. *)
LEMMA KeepsSent ==
    ASSUME Typed, Typed', NamesOwned, SentOnly, [Next]_vars
    PROVE  SentOnly'
<1> USE OutboxAssumption DEF Typed, TypeOK, Numbered, Holds, Files, Written, NamesOwned, Leads,
                             SentOnly, diskVars, sendVars, drainVars, history
<1>1. ASSUME NEW m \in Msgs, SendDirect(m) PROVE SentOnly'
  BY <1>1 DEF SendDirect, SenderGoes
<1>2. ASSUME NEW m \in Msgs, SendDirectFails(m) PROVE SentOnly'
  BY <1>2 DEF SendDirectFails, SenderGoes
<1>3. ASSUME NEW m \in Msgs, SendQueued(m) PROVE SentOnly'
  BY <1>3 DEF SendQueued, SenderGoes
<1>4. ASSUME NEW m \in Msgs, ListOutbox(m) PROVE SentOnly'
  BY <1>4 DEF ListOutbox, SenderGoes
<1>5. ASSUME NEW m \in Msgs, SequenceExhausted(m) PROVE SentOnly'
  BY <1>5 DEF SequenceExhausted, SenderGoes
<1>6. ASSUME NEW m \in Msgs, CreateEntry(m) PROVE SentOnly'
  BY <1>6 DEF CreateEntry, SenderGoes, Sharers, TooLate
<1>7. ASSUME NEW m \in Msgs, CreateCollides(m) PROVE SentOnly'
  BY <1>7 DEF CreateCollides, SenderGoes
<1>8. ASSUME NEW m \in Msgs, WriteEntry(m) PROVE SentOnly'
  BY <1>8 DEF WriteEntry, SenderGoes
<1>9. ASSUME NEW m \in Msgs, WriteFails(m) PROVE SentOnly'
  BY <1>9 DEF WriteFails, SenderGoes
<1>10. ASSUME NEW m \in Msgs, EnqueueFails(m) PROVE SentOnly'
  BY <1>10 DEF EnqueueFails
<1>11. ASSUME NEW d \in Drains, StartDrain(d) PROVE SentOnly'
  BY <1>11 DEF StartDrain, DrainGoes
<1>12. ASSUME NEW d \in Drains, NEW s \in Seqs, SweepFresh(d, s) PROVE SentOnly'
  BY <1>12 DEF SweepFresh
<1>13. ASSUME NEW d \in Drains, NEW s \in Seqs, SweepStale(d, s) PROVE SentOnly'
  BY <1>13 DEF SweepStale, DrainGoes
<1>14. ASSUME NEW d \in Drains, NEW s \in Seqs, ClaimEntry(d, s) PROVE SentOnly'
  BY <1>14 DEF ClaimEntry, DrainGoes, Befalls
<1>15. ASSUME NEW d \in Drains, NEW s \in Seqs, SkipEntry(d, s) PROVE SentOnly'
  BY <1>15 DEF SkipEntry, Befalls
<1>16. ASSUME NEW d \in Drains, SweepClaim(d) PROVE SentOnly'
  BY <1>16 DEF SweepClaim, DrainGoes, UnclaimOrIgnore, Unclaimed, Befalls, Orphan
<1>17. ASSUME NEW d \in Drains, ListQueue(d) PROVE SentOnly'
  BY <1>17 DEF ListQueue, DrainGoes, Befalls
<1>18. ASSUME NEW d \in Drains, FinishDrain(d) PROVE SentOnly'
  BY <1>18 DEF FinishDrain, Stops
<1>19. ASSUME NEW d \in Drains, ReadClaim(d) PROVE SentOnly'
  BY <1>19 DEF ReadClaim, DrainGoes, TextOf
<1>20. ASSUME NEW d \in Drains, ReadFails(d) PROVE SentOnly'
  BY <1>20 DEF ReadFails, DrainGoes
<1>21. ASSUME NEW d \in Drains, TypeText(d) PROVE SentOnly'
  BY <1>21 DEF TypeText, DrainGoes
<1>22. ASSUME NEW d \in Drains, Verified(d) PROVE SentOnly'
  BY <1>22 DEF Verified, DrainGoes
<1>23. ASSUME NEW d \in Drains, DeliveryFails(d) PROVE SentOnly'
  BY <1>23 DEF DeliveryFails
<1>24. ASSUME NEW d \in Drains, Requeue(d) PROVE SentOnly'
  BY <1>24 DEF Requeue, Stops, UnclaimOrIgnore, Unclaimed
<1>25. ASSUME NEW d \in Drains, RemoveClaim(d) PROVE SentOnly'
  BY <1>25 DEF RemoveClaim, DrainGoes
<1>26. ASSUME NEW d \in Drains, DrainFails(d) PROVE SentOnly'
  BY <1>26 DEF DrainFails, Stops, Befalls
<1>27. ASSUME NEW m \in Msgs, SenderCrashes(m) PROVE SentOnly'
  BY <1>27 DEF SenderCrashes
<1>28. ASSUME NEW m \in Msgs, Age(m) PROVE SentOnly'
  BY <1>28 DEF Age
<1>29. ASSUME NEW d \in Drains, DrainCrashes(d) PROVE SentOnly'
  BY <1>29 DEF DrainCrashes, Stops, Befalls
<1>30. CASE UNCHANGED vars
  BY <1>30 DEF vars
<1> QED BY <1>1, <1>2, <1>3, <1>4, <1>5, <1>6, <1>7, <1>8, <1>9, <1>10, <1>11, <1>12, <1>13,
           <1>14, <1>15, <1>16, <1>17, <1>18, <1>19, <1>20, <1>21, <1>22, <1>23, <1>24, <1>25,
           <1>26, <1>27, <1>28, <1>29, <1>30
       DEF Next, Sender, Drain, Environment

(* What is removed was submitted. *)
LEMMA KeepsRemoves ==
    ASSUME Typed, Typed', RemovesSubmitted, SentOnly, [Next]_vars
    PROVE  RemovesSubmitted'
<1> USE OutboxAssumption DEF Typed, TypeOK, Numbered, Holds, Files, Written, SentOnly,
                             RemovesSubmitted, diskVars, sendVars, drainVars, history
<1>1. ASSUME NEW m \in Msgs, SendDirect(m) PROVE RemovesSubmitted'
  BY <1>1 DEF SendDirect, SenderGoes
<1>2. ASSUME NEW m \in Msgs, SendDirectFails(m) PROVE RemovesSubmitted'
  BY <1>2 DEF SendDirectFails, SenderGoes
<1>3. ASSUME NEW m \in Msgs, SendQueued(m) PROVE RemovesSubmitted'
  BY <1>3 DEF SendQueued, SenderGoes
<1>4. ASSUME NEW m \in Msgs, ListOutbox(m) PROVE RemovesSubmitted'
  BY <1>4 DEF ListOutbox, SenderGoes
<1>5. ASSUME NEW m \in Msgs, SequenceExhausted(m) PROVE RemovesSubmitted'
  BY <1>5 DEF SequenceExhausted, SenderGoes
<1>6. ASSUME NEW m \in Msgs, CreateEntry(m) PROVE RemovesSubmitted'
  BY <1>6 DEF CreateEntry, SenderGoes, Sharers, TooLate
<1>7. ASSUME NEW m \in Msgs, CreateCollides(m) PROVE RemovesSubmitted'
  BY <1>7 DEF CreateCollides, SenderGoes
<1>8. ASSUME NEW m \in Msgs, WriteEntry(m) PROVE RemovesSubmitted'
  BY <1>8 DEF WriteEntry, SenderGoes
<1>9. ASSUME NEW m \in Msgs, WriteFails(m) PROVE RemovesSubmitted'
  BY <1>9 DEF WriteFails, SenderGoes
<1>10. ASSUME NEW m \in Msgs, EnqueueFails(m) PROVE RemovesSubmitted'
  BY <1>10 DEF EnqueueFails
<1>11. ASSUME NEW d \in Drains, StartDrain(d) PROVE RemovesSubmitted'
  BY <1>11 DEF StartDrain, DrainGoes
<1>12. ASSUME NEW d \in Drains, NEW s \in Seqs, SweepFresh(d, s) PROVE RemovesSubmitted'
  BY <1>12 DEF SweepFresh
<1>13. ASSUME NEW d \in Drains, NEW s \in Seqs, SweepStale(d, s) PROVE RemovesSubmitted'
  BY <1>13 DEF SweepStale, DrainGoes
<1>14. ASSUME NEW d \in Drains, NEW s \in Seqs, ClaimEntry(d, s) PROVE RemovesSubmitted'
  BY <1>14 DEF ClaimEntry, DrainGoes, Befalls
<1>15. ASSUME NEW d \in Drains, NEW s \in Seqs, SkipEntry(d, s) PROVE RemovesSubmitted'
  BY <1>15 DEF SkipEntry, Befalls
<1>16. ASSUME NEW d \in Drains, SweepClaim(d) PROVE RemovesSubmitted'
  BY <1>16 DEF SweepClaim, DrainGoes, UnclaimOrIgnore, Unclaimed, Befalls, Orphan
<1>17. ASSUME NEW d \in Drains, ListQueue(d) PROVE RemovesSubmitted'
  BY <1>17 DEF ListQueue, DrainGoes, Befalls
<1>18. ASSUME NEW d \in Drains, FinishDrain(d) PROVE RemovesSubmitted'
  BY <1>18 DEF FinishDrain, Stops
<1>19. ASSUME NEW d \in Drains, ReadClaim(d) PROVE RemovesSubmitted'
  BY <1>19 DEF ReadClaim, DrainGoes, TextOf
<1>20. ASSUME NEW d \in Drains, ReadFails(d) PROVE RemovesSubmitted'
  BY <1>20 DEF ReadFails, DrainGoes
<1>21. ASSUME NEW d \in Drains, TypeText(d) PROVE RemovesSubmitted'
  BY <1>21 DEF TypeText, DrainGoes
<1>22. ASSUME NEW d \in Drains, Verified(d) PROVE RemovesSubmitted'
  BY <1>22 DEF Verified, DrainGoes
<1>23. ASSUME NEW d \in Drains, DeliveryFails(d) PROVE RemovesSubmitted'
  BY <1>23 DEF DeliveryFails
<1>24. ASSUME NEW d \in Drains, Requeue(d) PROVE RemovesSubmitted'
  BY <1>24 DEF Requeue, Stops, UnclaimOrIgnore, Unclaimed
<1>25. ASSUME NEW d \in Drains, RemoveClaim(d) PROVE RemovesSubmitted'
  BY <1>25 DEF RemoveClaim, DrainGoes
<1>26. ASSUME NEW d \in Drains, DrainFails(d) PROVE RemovesSubmitted'
  BY <1>26 DEF DrainFails, Stops, Befalls
<1>27. ASSUME NEW m \in Msgs, SenderCrashes(m) PROVE RemovesSubmitted'
  BY <1>27 DEF SenderCrashes
<1>28. ASSUME NEW m \in Msgs, Age(m) PROVE RemovesSubmitted'
  BY <1>28 DEF Age
<1>29. ASSUME NEW d \in Drains, DrainCrashes(d) PROVE RemovesSubmitted'
  BY <1>29 DEF DrainCrashes, Stops, Befalls
<1>30. CASE UNCHANGED vars
  BY <1>30 DEF vars
<1> QED BY <1>1, <1>2, <1>3, <1>4, <1>5, <1>6, <1>7, <1>8, <1>9, <1>10, <1>11, <1>12, <1>13,
           <1>14, <1>15, <1>16, <1>17, <1>18, <1>19, <1>20, <1>21, <1>22, <1>23, <1>24, <1>25,
           <1>26, <1>27, <1>28, <1>29, <1>30
       DEF Next, Sender, Drain, Environment

(* Files move between the names of one number. *)
LEMMA KeepsNames ==
    ASSUME Typed, Typed', NamesOwned, [Next]_vars
    PROVE  NamesOwned'
<1> USE OutboxAssumption DEF Typed, TypeOK, Numbered, Holds, Files, Written, NamesOwned, Leads,
                             diskVars, sendVars, drainVars, history
<1>1. ASSUME NEW m \in Msgs, SendDirect(m) PROVE NamesOwned'
  BY <1>1 DEF SendDirect, SenderGoes
<1>2. ASSUME NEW m \in Msgs, SendDirectFails(m) PROVE NamesOwned'
  BY <1>2 DEF SendDirectFails, SenderGoes
<1>3. ASSUME NEW m \in Msgs, SendQueued(m) PROVE NamesOwned'
  BY <1>3 DEF SendQueued, SenderGoes
<1>4. ASSUME NEW m \in Msgs, ListOutbox(m) PROVE NamesOwned'
  BY <1>4 DEF ListOutbox, SenderGoes
<1>5. ASSUME NEW m \in Msgs, SequenceExhausted(m) PROVE NamesOwned'
  BY <1>5 DEF SequenceExhausted, SenderGoes
<1>6. ASSUME NEW m \in Msgs, CreateEntry(m) PROVE NamesOwned'
  BY <1>6 DEF CreateEntry, SenderGoes, Sharers, TooLate
<1>7. ASSUME NEW m \in Msgs, CreateCollides(m) PROVE NamesOwned'
  BY <1>7 DEF CreateCollides, SenderGoes
<1>8. ASSUME NEW m \in Msgs, WriteEntry(m) PROVE NamesOwned'
  BY <1>8 DEF WriteEntry, SenderGoes
<1>9. ASSUME NEW m \in Msgs, WriteFails(m) PROVE NamesOwned'
  BY <1>9 DEF WriteFails, SenderGoes
<1>10. ASSUME NEW m \in Msgs, EnqueueFails(m) PROVE NamesOwned'
  BY <1>10 DEF EnqueueFails
<1>11. ASSUME NEW d \in Drains, StartDrain(d) PROVE NamesOwned'
  BY <1>11 DEF StartDrain, DrainGoes
<1>12. ASSUME NEW d \in Drains, NEW s \in Seqs, SweepFresh(d, s) PROVE NamesOwned'
  BY <1>12 DEF SweepFresh
<1>13. ASSUME NEW d \in Drains, NEW s \in Seqs, SweepStale(d, s) PROVE NamesOwned'
  BY <1>13 DEF SweepStale, DrainGoes
<1>14. ASSUME NEW d \in Drains, NEW s \in Seqs, ClaimEntry(d, s) PROVE NamesOwned'
  BY <1>14 DEF ClaimEntry, DrainGoes, Befalls
<1>15. ASSUME NEW d \in Drains, NEW s \in Seqs, SkipEntry(d, s) PROVE NamesOwned'
  BY <1>15 DEF SkipEntry, Befalls
<1>16. ASSUME NEW d \in Drains, SweepClaim(d) PROVE NamesOwned'
  BY <1>16 DEF SweepClaim, DrainGoes, UnclaimOrIgnore, Unclaimed, Befalls, Orphan
<1>17. ASSUME NEW d \in Drains, ListQueue(d) PROVE NamesOwned'
  BY <1>17 DEF ListQueue, DrainGoes, Befalls
<1>18. ASSUME NEW d \in Drains, FinishDrain(d) PROVE NamesOwned'
  BY <1>18 DEF FinishDrain, Stops
<1>19. ASSUME NEW d \in Drains, ReadClaim(d) PROVE NamesOwned'
  BY <1>19 DEF ReadClaim, DrainGoes, TextOf
<1>20. ASSUME NEW d \in Drains, ReadFails(d) PROVE NamesOwned'
  BY <1>20 DEF ReadFails, DrainGoes
<1>21. ASSUME NEW d \in Drains, TypeText(d) PROVE NamesOwned'
  BY <1>21 DEF TypeText, DrainGoes
<1>22. ASSUME NEW d \in Drains, Verified(d) PROVE NamesOwned'
  BY <1>22 DEF Verified, DrainGoes
<1>23. ASSUME NEW d \in Drains, DeliveryFails(d) PROVE NamesOwned'
  BY <1>23 DEF DeliveryFails
<1>24. ASSUME NEW d \in Drains, Requeue(d) PROVE NamesOwned'
  BY <1>24 DEF Requeue, Stops, UnclaimOrIgnore, Unclaimed
<1>25. ASSUME NEW d \in Drains, RemoveClaim(d) PROVE NamesOwned'
  BY <1>25 DEF RemoveClaim, DrainGoes
<1>26. ASSUME NEW d \in Drains, DrainFails(d) PROVE NamesOwned'
  BY <1>26 DEF DrainFails, Stops, Befalls
<1>27. ASSUME NEW m \in Msgs, SenderCrashes(m) PROVE NamesOwned'
  BY <1>27 DEF SenderCrashes
<1>28. ASSUME NEW m \in Msgs, Age(m) PROVE NamesOwned'
  BY <1>28 DEF Age
<1>29. ASSUME NEW d \in Drains, DrainCrashes(d) PROVE NamesOwned'
  BY <1>29 DEF DrainCrashes, Stops, Befalls
<1>30. CASE UNCHANGED vars
  BY <1>30 DEF vars
<1> QED BY <1>1, <1>2, <1>3, <1>4, <1>5, <1>6, <1>7, <1>8, <1>9, <1>10, <1>11, <1>12, <1>13,
           <1>14, <1>15, <1>16, <1>17, <1>18, <1>19, <1>20, <1>21, <1>22, <1>23, <1>24, <1>25,
           <1>26, <1>27, <1>28, <1>29, <1>30
       DEF Next, Sender, Drain, Environment

(* A second file of a number is one that shares it. *)
LEMMA KeepsOne ==
    ASSUME Typed, Typed', NamesOwned, NamesOne, [Next]_vars
    PROVE  NamesOne'
<1> USE OutboxAssumption DEF Typed, TypeOK, Numbered, Holds, Files, Written, NamesOwned,
                             NamesOne, Leads, Spared, diskVars, sendVars, drainVars, history
<1>1. ASSUME NEW m \in Msgs, SendDirect(m) PROVE NamesOne'
  BY <1>1 DEF SendDirect, SenderGoes
<1>2. ASSUME NEW m \in Msgs, SendDirectFails(m) PROVE NamesOne'
  BY <1>2 DEF SendDirectFails, SenderGoes
<1>3. ASSUME NEW m \in Msgs, SendQueued(m) PROVE NamesOne'
  BY <1>3 DEF SendQueued, SenderGoes
<1>4. ASSUME NEW m \in Msgs, ListOutbox(m) PROVE NamesOne'
  BY <1>4 DEF ListOutbox, SenderGoes
<1>5. ASSUME NEW m \in Msgs, SequenceExhausted(m) PROVE NamesOne'
  BY <1>5 DEF SequenceExhausted, SenderGoes
<1>6. ASSUME NEW m \in Msgs, CreateEntry(m) PROVE NamesOne'
  BY <1>6 DEF CreateEntry, SenderGoes, Sharers, TooLate
<1>7. ASSUME NEW m \in Msgs, CreateCollides(m) PROVE NamesOne'
  BY <1>7 DEF CreateCollides, SenderGoes
<1>8. ASSUME NEW m \in Msgs, WriteEntry(m) PROVE NamesOne'
  BY <1>8 DEF WriteEntry, SenderGoes
<1>9. ASSUME NEW m \in Msgs, WriteFails(m) PROVE NamesOne'
  BY <1>9 DEF WriteFails, SenderGoes
<1>10. ASSUME NEW m \in Msgs, EnqueueFails(m) PROVE NamesOne'
  BY <1>10 DEF EnqueueFails
<1>11. ASSUME NEW d \in Drains, StartDrain(d) PROVE NamesOne'
  BY <1>11 DEF StartDrain, DrainGoes
<1>12. ASSUME NEW d \in Drains, NEW s \in Seqs, SweepFresh(d, s) PROVE NamesOne'
  BY <1>12 DEF SweepFresh
<1>13. ASSUME NEW d \in Drains, NEW s \in Seqs, SweepStale(d, s) PROVE NamesOne'
  BY <1>13 DEF SweepStale, DrainGoes
<1>14. ASSUME NEW d \in Drains, NEW s \in Seqs, ClaimEntry(d, s) PROVE NamesOne'
  BY <1>14 DEF ClaimEntry, DrainGoes, Befalls
<1>15. ASSUME NEW d \in Drains, NEW s \in Seqs, SkipEntry(d, s) PROVE NamesOne'
  BY <1>15 DEF SkipEntry, Befalls
<1>16. ASSUME NEW d \in Drains, SweepClaim(d) PROVE NamesOne'
  BY <1>16 DEF SweepClaim, DrainGoes, UnclaimOrIgnore, Unclaimed, Befalls, Orphan
<1>17. ASSUME NEW d \in Drains, ListQueue(d) PROVE NamesOne'
  BY <1>17 DEF ListQueue, DrainGoes, Befalls
<1>18. ASSUME NEW d \in Drains, FinishDrain(d) PROVE NamesOne'
  BY <1>18 DEF FinishDrain, Stops
<1>19. ASSUME NEW d \in Drains, ReadClaim(d) PROVE NamesOne'
  BY <1>19 DEF ReadClaim, DrainGoes, TextOf
<1>20. ASSUME NEW d \in Drains, ReadFails(d) PROVE NamesOne'
  BY <1>20 DEF ReadFails, DrainGoes
<1>21. ASSUME NEW d \in Drains, TypeText(d) PROVE NamesOne'
  BY <1>21 DEF TypeText, DrainGoes
<1>22. ASSUME NEW d \in Drains, Verified(d) PROVE NamesOne'
  BY <1>22 DEF Verified, DrainGoes
<1>23. ASSUME NEW d \in Drains, DeliveryFails(d) PROVE NamesOne'
  BY <1>23 DEF DeliveryFails
<1>24. ASSUME NEW d \in Drains, Requeue(d) PROVE NamesOne'
  BY <1>24 DEF Requeue, Stops, UnclaimOrIgnore, Unclaimed
<1>25. ASSUME NEW d \in Drains, RemoveClaim(d) PROVE NamesOne'
  BY <1>25 DEF RemoveClaim, DrainGoes
<1>26. ASSUME NEW d \in Drains, DrainFails(d) PROVE NamesOne'
  BY <1>26 DEF DrainFails, Stops, Befalls
<1>27. ASSUME NEW m \in Msgs, SenderCrashes(m) PROVE NamesOne'
  BY <1>27 DEF SenderCrashes
<1>28. ASSUME NEW m \in Msgs, Age(m) PROVE NamesOne'
  BY <1>28 DEF Age
<1>29. ASSUME NEW d \in Drains, DrainCrashes(d) PROVE NamesOne'
  BY <1>29 DEF DrainCrashes, Stops, Befalls
<1>30. CASE UNCHANGED vars
  BY <1>30 DEF vars
<1> QED BY <1>1, <1>2, <1>3, <1>4, <1>5, <1>6, <1>7, <1>8, <1>9, <1>10, <1>11, <1>12, <1>13,
           <1>14, <1>15, <1>16, <1>17, <1>18, <1>19, <1>20, <1>21, <1>22, <1>23, <1>24, <1>25,
           <1>26, <1>27, <1>28, <1>29, <1>30
       DEF Next, Sender, Drain, Environment

(* A file is claimed while it is written, or else not. *)
LEMMA KeepsWriting ==
    ASSUME Typed, Typed', NamesOwned, NamesOne, WritesAlone, [Next]_vars
    PROVE  WritesAlone'
<1> USE OutboxAssumption DEF Typed, TypeOK, Numbered, Holds, Files, Written, NamesOwned,
                             NamesOne, WritesAlone, Leads, Spared, diskVars, sendVars,
                             drainVars, history
<1>1. ASSUME NEW m \in Msgs, SendDirect(m) PROVE WritesAlone'
  BY <1>1 DEF SendDirect, SenderGoes
<1>2. ASSUME NEW m \in Msgs, SendDirectFails(m) PROVE WritesAlone'
  BY <1>2 DEF SendDirectFails, SenderGoes
<1>3. ASSUME NEW m \in Msgs, SendQueued(m) PROVE WritesAlone'
  BY <1>3 DEF SendQueued, SenderGoes
<1>4. ASSUME NEW m \in Msgs, ListOutbox(m) PROVE WritesAlone'
  BY <1>4 DEF ListOutbox, SenderGoes
<1>5. ASSUME NEW m \in Msgs, SequenceExhausted(m) PROVE WritesAlone'
  BY <1>5 DEF SequenceExhausted, SenderGoes
<1>6. ASSUME NEW m \in Msgs, CreateEntry(m) PROVE WritesAlone'
  <2> USE <1>6 DEF CreateEntry, SenderGoes
  <2>1. Spared(m, {"shared"})' => m \notin Sharers(m, sseq[m])
    OBVIOUS
  <2>2. m \notin Sharers(m, sseq[m]) => \A d \in Drains : Holds(d) => dseq[d] # sseq[m]
    BY DEF Sharers
  <2>3. ASSUME NEW n \in Msgs, spc'[n] = "write", Spared(n, {"shared", "torn"})'
        PROVE  queue'[sseq'[n]] = n /\ \A d \in Drains : Holds(d)' => dseq'[d] # sseq'[n]
    <3>1. CASE n = m BY <2>1, <2>2, <2>3, <3>1
    <3>2. CASE n # m BY <2>3, <3>2
    <3> QED BY <3>1, <3>2
  <2> QED BY <2>3
<1>7. ASSUME NEW m \in Msgs, CreateCollides(m) PROVE WritesAlone'
  BY <1>7 DEF CreateCollides, SenderGoes
<1>8. ASSUME NEW m \in Msgs, WriteEntry(m) PROVE WritesAlone'
  BY <1>8 DEF WriteEntry, SenderGoes
<1>9. ASSUME NEW m \in Msgs, WriteFails(m) PROVE WritesAlone'
  BY <1>9 DEF WriteFails, SenderGoes
<1>10. ASSUME NEW m \in Msgs, EnqueueFails(m) PROVE WritesAlone'
  BY <1>10 DEF EnqueueFails
<1>11. ASSUME NEW d \in Drains, StartDrain(d) PROVE WritesAlone'
  BY <1>11 DEF StartDrain, DrainGoes
<1>12. ASSUME NEW d \in Drains, NEW s \in Seqs, SweepFresh(d, s) PROVE WritesAlone'
  BY <1>12 DEF SweepFresh
<1>13. ASSUME NEW d \in Drains, NEW s \in Seqs, SweepStale(d, s) PROVE WritesAlone'
  BY <1>13 DEF SweepStale, DrainGoes
<1>14. ASSUME NEW d \in Drains, NEW s \in Seqs, ClaimEntry(d, s) PROVE WritesAlone'
  <2> USE <1>14 DEF ClaimEntry, DrainGoes, Befalls
  <2>1. ASSUME NEW n \in Msgs, spc'[n] = "write", Spared(n, {"shared", "torn"})'
        PROVE  queue'[sseq'[n]] = n /\ \A e \in Drains : Holds(e)' => dseq'[e] # sseq'[n]
    <3>1. Spared(n, {"shared", "torn"}) /\ queue[s] # n
      BY <2>1
    <3> QED BY <2>1, <3>1
  <2> QED BY <2>1
<1>15. ASSUME NEW d \in Drains, NEW s \in Seqs, SkipEntry(d, s) PROVE WritesAlone'
  BY <1>15 DEF SkipEntry, Befalls
<1>16. ASSUME NEW d \in Drains, SweepClaim(d) PROVE WritesAlone'
  BY <1>16 DEF SweepClaim, DrainGoes, UnclaimOrIgnore, Unclaimed, Befalls, Orphan
<1>17. ASSUME NEW d \in Drains, ListQueue(d) PROVE WritesAlone'
  BY <1>17 DEF ListQueue, DrainGoes, Befalls
<1>18. ASSUME NEW d \in Drains, FinishDrain(d) PROVE WritesAlone'
  BY <1>18 DEF FinishDrain, Stops
<1>19. ASSUME NEW d \in Drains, ReadClaim(d) PROVE WritesAlone'
  BY <1>19 DEF ReadClaim, DrainGoes, TextOf
<1>20. ASSUME NEW d \in Drains, ReadFails(d) PROVE WritesAlone'
  BY <1>20 DEF ReadFails, DrainGoes
<1>21. ASSUME NEW d \in Drains, TypeText(d) PROVE WritesAlone'
  BY <1>21 DEF TypeText, DrainGoes
<1>22. ASSUME NEW d \in Drains, Verified(d) PROVE WritesAlone'
  BY <1>22 DEF Verified, DrainGoes
<1>23. ASSUME NEW d \in Drains, DeliveryFails(d) PROVE WritesAlone'
  BY <1>23 DEF DeliveryFails
<1>24. ASSUME NEW d \in Drains, Requeue(d) PROVE WritesAlone'
  BY <1>24 DEF Requeue, Stops, UnclaimOrIgnore, Unclaimed
<1>25. ASSUME NEW d \in Drains, RemoveClaim(d) PROVE WritesAlone'
  BY <1>25 DEF RemoveClaim, DrainGoes
<1>26. ASSUME NEW d \in Drains, DrainFails(d) PROVE WritesAlone'
  BY <1>26 DEF DrainFails, Stops, Befalls
<1>27. ASSUME NEW m \in Msgs, SenderCrashes(m) PROVE WritesAlone'
  BY <1>27 DEF SenderCrashes
<1>28. ASSUME NEW m \in Msgs, Age(m) PROVE WritesAlone'
  BY <1>28 DEF Age
<1>29. ASSUME NEW d \in Drains, DrainCrashes(d) PROVE WritesAlone'
  BY <1>29 DEF DrainCrashes, Stops, Befalls
<1>30. CASE UNCHANGED vars
  BY <1>30 DEF vars
<1> QED BY <1>1, <1>2, <1>3, <1>4, <1>5, <1>6, <1>7, <1>8, <1>9, <1>10, <1>11, <1>12, <1>13,
           <1>14, <1>15, <1>16, <1>17, <1>18, <1>19, <1>20, <1>21, <1>22, <1>23, <1>24, <1>25,
           <1>26, <1>27, <1>28, <1>29, <1>30
       DEF Next, Sender, Drain, Environment

(* A drain reads the one file of its number. *)
LEMMA KeepsReading ==
    ASSUME Typed, Typed', NamesOwned, NamesOne, WritesAlone, ReadsOwn, SentOnly, [Next]_vars
    PROVE  ReadsOwn'
<1> USE OutboxAssumption DEF Typed, TypeOK, Numbered, Holds, Files, Written, NamesOwned,
                             NamesOne, WritesAlone, ReadsOwn, SentOnly, Leads, Spared,
                             diskVars, sendVars, drainVars, history
<1>1. ASSUME NEW m \in Msgs, SendDirect(m) PROVE ReadsOwn'
  BY <1>1 DEF SendDirect, SenderGoes
<1>2. ASSUME NEW m \in Msgs, SendDirectFails(m) PROVE ReadsOwn'
  BY <1>2 DEF SendDirectFails, SenderGoes
<1>3. ASSUME NEW m \in Msgs, SendQueued(m) PROVE ReadsOwn'
  BY <1>3 DEF SendQueued, SenderGoes
<1>4. ASSUME NEW m \in Msgs, ListOutbox(m) PROVE ReadsOwn'
  BY <1>4 DEF ListOutbox, SenderGoes
<1>5. ASSUME NEW m \in Msgs, SequenceExhausted(m) PROVE ReadsOwn'
  BY <1>5 DEF SequenceExhausted, SenderGoes
<1>6. ASSUME NEW m \in Msgs, CreateEntry(m) PROVE ReadsOwn'
  BY <1>6 DEF CreateEntry, SenderGoes, Sharers, TooLate
<1>7. ASSUME NEW m \in Msgs, CreateCollides(m) PROVE ReadsOwn'
  BY <1>7 DEF CreateCollides, SenderGoes
<1>8. ASSUME NEW m \in Msgs, WriteEntry(m) PROVE ReadsOwn'
  BY <1>8 DEF WriteEntry, SenderGoes
<1>9. ASSUME NEW m \in Msgs, WriteFails(m) PROVE ReadsOwn'
  BY <1>9 DEF WriteFails, SenderGoes
<1>10. ASSUME NEW m \in Msgs, EnqueueFails(m) PROVE ReadsOwn'
  BY <1>10 DEF EnqueueFails
<1>11. ASSUME NEW d \in Drains, StartDrain(d) PROVE ReadsOwn'
  BY <1>11 DEF StartDrain, DrainGoes
<1>12. ASSUME NEW d \in Drains, NEW s \in Seqs, SweepFresh(d, s) PROVE ReadsOwn'
  BY <1>12 DEF SweepFresh
<1>13. ASSUME NEW d \in Drains, NEW s \in Seqs, SweepStale(d, s) PROVE ReadsOwn'
  BY <1>13 DEF SweepStale, DrainGoes
<1>14. ASSUME NEW d \in Drains, NEW s \in Seqs, ClaimEntry(d, s) PROVE ReadsOwn'
  BY <1>14 DEF ClaimEntry, DrainGoes, Befalls
<1>15. ASSUME NEW d \in Drains, NEW s \in Seqs, SkipEntry(d, s) PROVE ReadsOwn'
  BY <1>15 DEF SkipEntry, Befalls
<1>16. ASSUME NEW d \in Drains, SweepClaim(d) PROVE ReadsOwn'
  BY <1>16 DEF SweepClaim, DrainGoes, UnclaimOrIgnore, Unclaimed, Befalls, Orphan
<1>17. ASSUME NEW d \in Drains, ListQueue(d) PROVE ReadsOwn'
  BY <1>17 DEF ListQueue, DrainGoes, Befalls
<1>18. ASSUME NEW d \in Drains, FinishDrain(d) PROVE ReadsOwn'
  BY <1>18 DEF FinishDrain, Stops
<1>19. ASSUME NEW d \in Drains, ReadClaim(d) PROVE ReadsOwn'
  BY <1>19 DEF ReadClaim, DrainGoes, TextOf
<1>20. ASSUME NEW d \in Drains, ReadFails(d) PROVE ReadsOwn'
  BY <1>20 DEF ReadFails, DrainGoes
<1>21. ASSUME NEW d \in Drains, TypeText(d) PROVE ReadsOwn'
  BY <1>21 DEF TypeText, DrainGoes
<1>22. ASSUME NEW d \in Drains, Verified(d) PROVE ReadsOwn'
  BY <1>22 DEF Verified, DrainGoes
<1>23. ASSUME NEW d \in Drains, DeliveryFails(d) PROVE ReadsOwn'
  BY <1>23 DEF DeliveryFails
<1>24. ASSUME NEW d \in Drains, Requeue(d) PROVE ReadsOwn'
  BY <1>24 DEF Requeue, Stops, UnclaimOrIgnore, Unclaimed
<1>25. ASSUME NEW d \in Drains, RemoveClaim(d) PROVE ReadsOwn'
  BY <1>25 DEF RemoveClaim, DrainGoes
<1>26. ASSUME NEW d \in Drains, DrainFails(d) PROVE ReadsOwn'
  BY <1>26 DEF DrainFails, Stops, Befalls
<1>27. ASSUME NEW m \in Msgs, SenderCrashes(m) PROVE ReadsOwn'
  BY <1>27 DEF SenderCrashes
<1>28. ASSUME NEW m \in Msgs, Age(m) PROVE ReadsOwn'
  BY <1>28 DEF Age
<1>29. ASSUME NEW d \in Drains, DrainCrashes(d) PROVE ReadsOwn'
  BY <1>29 DEF DrainCrashes, Stops, Befalls
<1>30. CASE UNCHANGED vars
  BY <1>30 DEF vars
<1> QED BY <1>1, <1>2, <1>3, <1>4, <1>5, <1>6, <1>7, <1>8, <1>9, <1>10, <1>11, <1>12, <1>13,
           <1>14, <1>15, <1>16, <1>17, <1>18, <1>19, <1>20, <1>21, <1>22, <1>23, <1>24, <1>25,
           <1>26, <1>27, <1>28, <1>29, <1>30
       DEF Next, Sender, Drain, Environment

(* No step loses a written message that is not exposed. *)
LEMMA LosesNone ==
    ASSUME Typed, Typed', Kept, [Next]_vars
    PROVE  NoLoss'
<1> USE OutboxAssumption DEF Typed, TypeOK, Numbered, Holds, Files, Written, Kept, NamesOwned,
                             NamesOne, WritesAlone, ReadsOwn, RemovesSubmitted, SentOnly,
                             NoLoss, Exposed, OnDisk, Queued, Claimed, Leads, Spared, diskVars,
                             sendVars, drainVars, history
<1>1. ASSUME NEW m \in Msgs, SendDirect(m) PROVE NoLoss'
  BY <1>1 DEF SendDirect, SenderGoes
<1>2. ASSUME NEW m \in Msgs, SendDirectFails(m) PROVE NoLoss'
  BY <1>2 DEF SendDirectFails, SenderGoes
<1>3. ASSUME NEW m \in Msgs, SendQueued(m) PROVE NoLoss'
  BY <1>3 DEF SendQueued, SenderGoes
<1>4. ASSUME NEW m \in Msgs, ListOutbox(m) PROVE NoLoss'
  BY <1>4 DEF ListOutbox, SenderGoes
<1>5. ASSUME NEW m \in Msgs, SequenceExhausted(m) PROVE NoLoss'
  BY <1>5 DEF SequenceExhausted, SenderGoes
<1>6. ASSUME NEW m \in Msgs, CreateEntry(m) PROVE NoLoss'
  BY <1>6 DEF CreateEntry, SenderGoes, Sharers, TooLate
<1>7. ASSUME NEW m \in Msgs, CreateCollides(m) PROVE NoLoss'
  BY <1>7 DEF CreateCollides, SenderGoes
<1>8. ASSUME NEW m \in Msgs, WriteEntry(m) PROVE NoLoss'
  BY <1>8 DEF WriteEntry, SenderGoes
<1>9. ASSUME NEW m \in Msgs, WriteFails(m) PROVE NoLoss'
  BY <1>9 DEF WriteFails, SenderGoes
<1>10. ASSUME NEW m \in Msgs, EnqueueFails(m) PROVE NoLoss'
  BY <1>10 DEF EnqueueFails
<1>11. ASSUME NEW d \in Drains, StartDrain(d) PROVE NoLoss'
  BY <1>11 DEF StartDrain, DrainGoes
<1>12. ASSUME NEW d \in Drains, NEW s \in Seqs, SweepFresh(d, s) PROVE NoLoss'
  BY <1>12 DEF SweepFresh
<1>13. ASSUME NEW d \in Drains, NEW s \in Seqs, SweepStale(d, s) PROVE NoLoss'
  BY <1>13 DEF SweepStale, DrainGoes
<1>14. ASSUME NEW d \in Drains, NEW s \in Seqs, ClaimEntry(d, s) PROVE NoLoss'
  BY <1>14 DEF ClaimEntry, DrainGoes, Befalls
<1>15. ASSUME NEW d \in Drains, NEW s \in Seqs, SkipEntry(d, s) PROVE NoLoss'
  BY <1>15 DEF SkipEntry, Befalls
<1>16. ASSUME NEW d \in Drains, SweepClaim(d) PROVE NoLoss'
  BY <1>16 DEF SweepClaim, DrainGoes, UnclaimOrIgnore, Unclaimed, Befalls, Orphan
<1>17. ASSUME NEW d \in Drains, ListQueue(d) PROVE NoLoss'
  BY <1>17 DEF ListQueue, DrainGoes, Befalls
<1>18. ASSUME NEW d \in Drains, FinishDrain(d) PROVE NoLoss'
  BY <1>18 DEF FinishDrain, Stops
<1>19. ASSUME NEW d \in Drains, ReadClaim(d) PROVE NoLoss'
  BY <1>19 DEF ReadClaim, DrainGoes, TextOf
<1>20. ASSUME NEW d \in Drains, ReadFails(d) PROVE NoLoss'
  BY <1>20 DEF ReadFails, DrainGoes
<1>21. ASSUME NEW d \in Drains, TypeText(d) PROVE NoLoss'
  BY <1>21 DEF TypeText, DrainGoes
<1>22. ASSUME NEW d \in Drains, Verified(d) PROVE NoLoss'
  BY <1>22 DEF Verified, DrainGoes
<1>23. ASSUME NEW d \in Drains, DeliveryFails(d) PROVE NoLoss'
  BY <1>23 DEF DeliveryFails
<1>24. ASSUME NEW d \in Drains, Requeue(d) PROVE NoLoss'
  BY <1>24 DEF Requeue, Stops, UnclaimOrIgnore, Unclaimed
<1>25. ASSUME NEW d \in Drains, RemoveClaim(d) PROVE NoLoss'
  BY <1>25 DEF RemoveClaim, DrainGoes
<1>26. ASSUME NEW d \in Drains, DrainFails(d) PROVE NoLoss'
  BY <1>26 DEF DrainFails, Stops, Befalls
<1>27. ASSUME NEW m \in Msgs, SenderCrashes(m) PROVE NoLoss'
  BY <1>27 DEF SenderCrashes
<1>28. ASSUME NEW m \in Msgs, Age(m) PROVE NoLoss'
  BY <1>28 DEF Age
<1>29. ASSUME NEW d \in Drains, DrainCrashes(d) PROVE NoLoss'
  BY <1>29 DEF DrainCrashes, Stops, Befalls
<1>30. CASE UNCHANGED vars
  BY <1>30 DEF vars
<1> QED BY <1>1, <1>2, <1>3, <1>4, <1>5, <1>6, <1>7, <1>8, <1>9, <1>10, <1>11, <1>12, <1>13,
           <1>14, <1>15, <1>16, <1>17, <1>18, <1>19, <1>20, <1>21, <1>22, <1>23, <1>24, <1>25,
           <1>26, <1>27, <1>28, <1>29, <1>30
       DEF Next, Sender, Drain, Environment

(* Kept holds throughout, whatever dies, fails or grows old. *)
LEMMA KeptThroughout == Spec => [](Typed /\ Kept)
<1>1. ASSUME Init PROVE Kept
  <2> USE <1>1, OutboxAssumption DEF Init, Holds, Written, Leads, Files
  <2>1. NamesOwned BY DEF NamesOwned, Seqs
  <2>2. NamesOne BY DEF NamesOne
  <2>3. WritesAlone /\ ReadsOwn /\ RemovesSubmitted /\ SentOnly
    BY DEF WritesAlone, ReadsOwn, RemovesSubmitted, SentOnly
  <2>4. NoLoss
    <3> SUFFICES ASSUME NEW m \in Msgs, Written(m) PROVE m \in OnDisk
      BY DEF NoLoss
    <3>1. sseq[m] \in Seqs /\ queue[sseq[m]] = m
      OBVIOUS
    <3> QED BY <3>1 DEF OnDisk, Queued
  <2> QED BY <2>1, <2>2, <2>3, <2>4 DEF Kept
<1>2. Typed /\ Typed' /\ Kept /\ [Next]_vars => Kept'
  BY KeepsSent, KeepsRemoves, KeepsNames, KeepsOne, KeepsWriting, KeepsReading, LosesNone DEF Kept
<1> QED BY <1>1, <1>2, TypedThroughout, PTL DEF Spec

(***************************************************************************)
(* "Queued: durably retained in the outbox", for any number of messages    *)
(* and drains, whatever dies, fails or grows old and however sends and     *)
(* drains overlap: what `msg` reported as enqueued stays on disk until its *)
(* delivery is verified, unless the message itself shared its number or    *)
(* was claimed before it was written.  The run outbox_reuse shows that the *)
(* exception is needed.                                                    *)
(***************************************************************************)
THEOREM NothingLost == Spec => []NoLoss
<1>1. Kept => NoLoss
  BY DEF Kept
<1> QED BY <1>1, KeptThroughout, PTL

-----------------------------------------------------------------------------
(* Every step of the outbox is a step of the abstract queue, or none. *)

AbstractStep == [Abstract!Next]_<<Pending, submitted, Exposed>>

(* A step that submits nothing and puts nothing on disk that is written is *)
(* one that exposes messages, since nothing else is lost.                  *)
LEMMA ExposesOnly ==
    ASSUME Typed, Typed', Kept', Exposed \subseteq Exposed', submitted' = submitted,
           Pending' \subseteq Pending, \A m \in Msgs : Written(m) => Written(m)'
    PROVE  AbstractStep
<1>1. Pending \ Pending' \subseteq Exposed'
  BY DEF Kept, NoLoss, Pending, OnDisk, Queued, Claimed, Typed, TypeOK, Files
<1>2. Abstract!Expose
  BY <1>1 DEF Abstract!Expose
<1> QED BY <1>2 DEF AbstractStep, Abstract!Next

(* What has befallen a message stays. *)
LEMMA MishapsStay ==
    ASSUME Typed, [Next]_vars
    PROVE  \A m \in Msgs : mishaps[m] \subseteq mishaps'[m]
  BY DEF Typed, TypeOK, Next, Sender, Drain, Environment, SendDirect, SendDirectFails, SendQueued,
     ListOutbox, SequenceExhausted, CreateEntry, CreateCollides, WriteEntry, WriteFails,
     EnqueueFails, StartDrain, SweepFresh, SweepStale, ClaimEntry, SkipEntry, SweepClaim,
     ListQueue, FinishDrain, ReadClaim, ReadFails, TypeText, Verified, DeliveryFails, Requeue,
     RemoveClaim, DrainFails, SenderCrashes, Age, DrainCrashes, Befalls, vars, history

LEMMA ExposedGrows ==
    ASSUME Typed, [Next]_vars
    PROVE  Exposed \subseteq Exposed'
  BY MishapsStay DEF Exposed, Typed, TypeOK

(* So it was spared before. *)
LEMMA SparedBefore ==
    ASSUME Typed, [Next]_vars, NEW m \in Msgs, NEW what, Spared(m, what)'
    PROVE  Spared(m, what)
  BY MishapsStay DEF Spared

(* A step that neither submits nor completes a write adds nothing that is pending. *)
LEMMA OthersRefine ==
    ASSUME Typed, Typed', Kept, Kept', [Next]_vars,
           \A m \in Msgs : ~SendDirect(m) /\ ~WriteEntry(m),
           \A d \in Drains : ~Verified(d)
    PROVE  AbstractStep
<1> DEFINE Adds == Pending' \subseteq Pending /\ submitted' = submitted
                   /\ \A m \in Msgs : Written(m) => Written(m)'
<1> USE OutboxAssumption DEF Typed, TypeOK, Files, Written, OnDisk, Queued, Claimed, Pending,
        diskVars, sendVars, drainVars, history
<1>1. ASSUME NEW m \in Msgs, Sender(m) PROVE Adds
  BY <1>1 DEF Sender, SenderGoes, SendDirectFails, SendQueued, ListOutbox, SequenceExhausted,
     CreateEntry, CreateCollides, WriteFails, EnqueueFails
<1>2. ASSUME NEW d \in Drains, NEW s \in Seqs, ClaimEntry(d, s) PROVE Adds
  BY <1>2 DEF ClaimEntry
<1>3. ASSUME NEW d \in Drains, SweepClaim(d) \/ Requeue(d) PROVE Adds
  BY <1>3 DEF SweepClaim, Requeue, UnclaimOrIgnore, Unclaimed
<1>4. ASSUME NEW d \in Drains, RemoveClaim(d) PROVE Adds
  BY <1>4 DEF RemoveClaim
<1>5. ASSUME UNCHANGED <<queue, claims, spc, submitted>> PROVE Adds
  BY <1>5
<1>6. ASSUME NEW m \in Msgs, SenderCrashes(m) PROVE Adds
  BY <1>6 DEF SenderCrashes
<1> HIDE DEF Adds
<1>7. Adds
  BY <1>1, <1>2, <1>3, <1>4, <1>5, <1>6
     DEF Next, Drain, Environment, StartDrain, SweepFresh, SweepStale, SkipEntry, ListQueue,
         FinishDrain, ReadClaim, ReadFails, TypeText, DeliveryFails, DrainFails, DrainCrashes,
         Age, vars
<1> QED BY <1>7, ExposedGrows, ExposesOnly DEF Adds

(* A completed write puts what is still on disk into the queue. *)
LEMMA WriteRefines ==
    ASSUME Typed, Kept, NEW m \in Msgs, WriteEntry(m)
    PROVE  AbstractStep
<1> USE DEF Typed, TypeOK, Kept, SentOnly, WriteEntry, SenderGoes, Written, OnDisk, Queued,
        Claimed, Pending, Exposed, diskVars, sendVars, drainVars, history
<1>1. m \notin submitted /\ submitted' = submitted /\ Exposed' = Exposed
  OBVIOUS
<1>2. CASE m \in OnDisk
  <2>1. Pending' = Pending \cup {m} BY <1>1, <1>2
  <2>2. Abstract!Put(m) BY <1>1, <2>1 DEF Abstract!Put
  <2> QED BY <2>2 DEF AbstractStep, Abstract!Next
<1>3. CASE m \notin OnDisk
  <2>1. Pending' = Pending BY <1>1, <1>3
  <2> QED BY <1>1, <2>1 DEF AbstractStep
<1> QED BY <1>2, <1>3

(* A direct delivery is one at once. *)
LEMMA DirectRefines ==
    ASSUME Typed, NEW m \in Msgs, SendDirect(m)
    PROVE  AbstractStep
<1> USE DEF Typed, TypeOK, SendDirect, SenderGoes, Written, OnDisk, Queued, Claimed, Pending,
        Exposed, diskVars, sendVars, drainVars, history
<1>1. m \notin Pending /\ Pending' = Pending /\ submitted' = submitted \cup {m} /\ Exposed' = Exposed
  OBVIOUS
<1>2. Abstract!SendNow(m) BY <1>1 DEF Abstract!SendNow
<1> QED BY <1>2 DEF AbstractStep, Abstract!Next

(* A verified delivery is one of what is pending, or of what was lost. *)
LEMMA VerifiedRefines ==
    ASSUME Typed, NEW d \in Drains, Verified(d)
    PROVE  AbstractStep
<1> USE DEF Typed, TypeOK, Verified, DrainGoes, Written, OnDisk, Queued, Claimed, Pending, Exposed,
        diskVars, sendVars, drainVars, history
<1>1. Exposed' = Exposed /\ submitted' = submitted \cup ({dtext[d]} \cap Msgs)
  OBVIOUS
<1>2. CASE dtext[d] \notin Msgs \ submitted
  <2>1. submitted' = submitted /\ Pending' = Pending BY <1>1, <1>2
  <2> QED BY <1>1, <2>1 DEF AbstractStep
<1>3. CASE dtext[d] \in Msgs \ submitted
  <2> PICK m \in Msgs : m = dtext[d] BY <1>3
  <2>1. submitted' = submitted \cup {m} /\ Pending' = Pending \ {m} BY <1>1
  <2>2. CASE m \in Pending
    <3>1. Abstract!Submit(m) BY <1>1, <2>1, <2>2 DEF Abstract!Submit
    <3> QED BY <3>1 DEF AbstractStep, Abstract!Next
  <2>3. CASE m \notin Pending
    <3>1. Abstract!SendNow(m) BY <1>1, <2>1, <2>3 DEF Abstract!SendNow
    <3> QED BY <3>1 DEF AbstractStep, Abstract!Next
  <2> QED BY <2>2, <2>3
<1> QED BY <1>2, <1>3

(***************************************************************************)
(* The outbox implements the abstract queue for any number of messages and *)
(* drains and under every fault: what is pending grows only by a completed *)
(* write and shrinks only by a verified delivery, or by what was exposed.  *)
(***************************************************************************)
THEOREM ImplementsMessageQueue == Spec => KeepsMessages
<1>1. Init => Abstract!Init
  BY DEF Init, Abstract!Init, Pending, OnDisk, Queued, Claimed, Written, Exposed, Files
<1>2. Typed /\ Typed' /\ Kept /\ Kept' /\ [Next]_vars => AbstractStep
  BY OthersRefine, WriteRefines, DirectRefines, VerifiedRefines
<1> QED BY <1>1, <1>2, KeptThroughout, PTL
       DEF Spec, KeepsMessages, Abstract!Spec, AbstractStep

-----------------------------------------------------------------------------
(* The invariant behind ownership. *)

(***************************************************************************)
(* Of a message that shares no number and is not swept from its drain: who *)
(* has read it holds its claim, a drain that holds its claim is the only   *)
(* one, and nobody does while it is queued.                                *)
(***************************************************************************)
Owned ==
    \A m \in Msgs : Spared(m, {"shared", "swept"}) =>
        /\ \A d \in Drains :
              Holds(d) /\ dtext[d] = m => claims[dseq[d]] = m
        /\ \A s \in Seqs, d \in Drains : queue[s] = m /\ Holds(d) => dseq[d] # s
        /\ \A s \in Seqs, d, e \in Drains :
              claims[s] = m /\ Holds(d) /\ Holds(e) /\ dseq[d] = s /\ dseq[e] = s => d = e

(* A submitted message is gone, or its claim about to be removed. *)
Done ==
    \A m \in submitted, s \in Seqs : Spared(m, {"shared", "swept", "left"}) =>
        /\ queue[s] # m
        /\ claims[s] = m => \E d \in Drains : dpc[d] = "remove" /\ dtext[d] = m

-----------------------------------------------------------------------------
(* The invariant behind InOrder. *)

(* A number is larger than those that were queued when it was taken. *)
Rising ==
    \A n, m \in Msgs : <<n, m>> \in before => Written(n) /\ sseq[n] < sseq[m]

Overtaken == {"shared", "torn", "passed", "late"}

(***************************************************************************)
(* A drain that still has a larger number to handle has listed what is on  *)
(* disk, or is handling it.                                                *)
(***************************************************************************)
ListsEarlier ==
    \A d \in Drains, n \in Msgs, r \in Seqs :
        /\ dpc[d] = "claim" \/ Holds(d)
        /\ spc[n] \in {"write", "queued"} /\ n \notin submitted /\ Spared(n, Overtaken)
        /\ r \in todo[d] /\ r > sseq[n]
        => sseq[n] \in todo[d] \/ (Holds(d) /\ dseq[d] = sseq[n])

(* A message is claimed when those queued before it are submitted. *)
ClaimsLater ==
    \A n, m \in Msgs : <<n, m>> \in before /\ Spared(n, Overtaken) =>
        /\ \A s \in Seqs : claims[s] = m => n \in submitted
        /\ \A d \in Drains : Holds(d) /\ dtext[d] = m => n \in submitted

(* What is submitted comes after those queued before it. *)
Ordered ==
    \A n, m \in Msgs :
        <<n, m>> \in before /\ Spared(n, Overtaken) /\ Written(m) /\ m \in submitted
            => n \in submitted

-----------------------------------------------------------------------------
(* What a step keeps of them. *)

(* A claim of its own has one owner, who has read it. *)
LEMMA KeepsOwners ==
    ASSUME Typed, Typed', Kept, Owned, [Next]_vars
    PROVE  Owned'
<1> DEFINE What == {"shared", "swept"}
<1>a. \A m \in Msgs : Spared(m, What)' => Spared(m, What)
  BY SparedBefore
<1>b. \A m \in Msgs : Spared(m, What) => Spared(m, {"shared"})
  BY DEF Spared
<1> USE <1>a, <1>b
<1> USE OutboxAssumption DEF Typed, TypeOK, Numbered, Holds, Files, Written, Kept, NamesOwned,
                             NamesOne, SentOnly, Owned, Leads, diskVars, sendVars, drainVars,
                             history
<1>1. ASSUME NEW m \in Msgs, SendDirect(m) PROVE Owned'
  BY <1>1 DEF SendDirect, SenderGoes
<1>2. ASSUME NEW m \in Msgs, SendDirectFails(m) PROVE Owned'
  BY <1>2 DEF SendDirectFails, SenderGoes
<1>3. ASSUME NEW m \in Msgs, SendQueued(m) PROVE Owned'
  BY <1>3 DEF SendQueued, SenderGoes
<1>4. ASSUME NEW m \in Msgs, ListOutbox(m) PROVE Owned'
  BY <1>4 DEF ListOutbox, SenderGoes
<1>5. ASSUME NEW m \in Msgs, SequenceExhausted(m) PROVE Owned'
  BY <1>5 DEF SequenceExhausted, SenderGoes
<1>6. ASSUME NEW m \in Msgs, CreateEntry(m) PROVE Owned'
  <2> USE <1>6 DEF CreateEntry, SenderGoes
  <2>1. Spared(m, What)' => m \notin Sharers(m, sseq[m])
    BY DEF Spared
  <2>2. m \notin Sharers(m, sseq[m]) => \A d \in Drains : Holds(d) => dseq[d] # sseq[m]
    BY DEF Sharers
  <2>3. ~Leads(sseq[m], m) /\ \A s \in Seqs : ~Leads(s, m)
    OBVIOUS
  <2>4. ASSUME NEW n \in Msgs, Spared(n, What)'
        PROVE  /\ \A d \in Drains : Holds(d)' /\ dtext'[d] = n => claims'[dseq'[d]] = n
               /\ \A s \in Seqs, d \in Drains : queue'[s] = n /\ Holds(d)' => dseq'[d] # s
               /\ \A s \in Seqs, d, e \in Drains :
                    claims'[s] = n /\ Holds(d)' /\ Holds(e)' /\ dseq'[d] = s /\ dseq'[e] = s => d = e
    <3>1. CASE n = m BY <2>1, <2>2, <2>3, <2>4, <3>1
    <3>2. CASE n # m BY <2>4, <3>2
    <3> QED BY <3>1, <3>2
  <2> QED BY <2>4
<1>7. ASSUME NEW m \in Msgs, CreateCollides(m) PROVE Owned'
  BY <1>7 DEF CreateCollides, SenderGoes
<1>8. ASSUME NEW m \in Msgs, WriteEntry(m) PROVE Owned'
  BY <1>8 DEF WriteEntry, SenderGoes
<1>9. ASSUME NEW m \in Msgs, WriteFails(m) PROVE Owned'
  BY <1>9 DEF WriteFails, SenderGoes
<1>10. ASSUME NEW m \in Msgs, EnqueueFails(m) PROVE Owned'
  BY <1>10 DEF EnqueueFails
<1>11. ASSUME NEW d \in Drains, StartDrain(d) PROVE Owned'
  BY <1>11 DEF StartDrain, DrainGoes
<1>12. ASSUME NEW d \in Drains, NEW s \in Seqs, SweepFresh(d, s) PROVE Owned'
  BY <1>12 DEF SweepFresh
<1>13. ASSUME NEW d \in Drains, NEW s \in Seqs, SweepStale(d, s) PROVE Owned'
  BY <1>13 DEF SweepStale, DrainGoes
<1>14. ASSUME NEW d \in Drains, NEW s \in Seqs, ClaimEntry(d, s) PROVE Owned'
  <2> USE <1>14 DEF ClaimEntry, DrainGoes
  <2>1. ASSUME NEW n \in Msgs, Spared(n, What)'
        PROVE  /\ \A e \in Drains : Holds(e)' /\ dtext'[e] = n => claims'[dseq'[e]] = n
               /\ \A r \in Seqs, e \in Drains : queue'[r] = n /\ Holds(e)' => dseq'[e] # r
               /\ \A r \in Seqs, e, f \in Drains :
                    claims'[r] = n /\ Holds(e)' /\ Holds(f)' /\ dseq'[e] = r /\ dseq'[f] = r => e = f
    <3>1. claims[s] # n
      BY <2>1
    <3>2. ASSUME NEW e \in Drains, Holds(e)', dtext'[e] = n PROVE claims'[dseq'[e]] = n
      <4>1. e # d /\ Holds(e) /\ claims[dseq[e]] = n BY <2>1, <3>2
      <4> QED BY <3>1, <4>1
    <3>3. ASSUME NEW r \in Seqs, NEW e \in Drains, queue'[r] = n, Holds(e)' PROVE dseq'[e] # r
      BY <2>1, <3>3
    <3>4. ASSUME NEW r \in Seqs, NEW e \in Drains, NEW f \in Drains, claims'[r] = n,
                 Holds(e)', Holds(f)', dseq'[e] = r, dseq'[f] = r
          PROVE  e = f
      BY <2>1, <3>4
    <3> QED BY <3>2, <3>3, <3>4
  <2> QED BY <2>1
<1>15. ASSUME NEW d \in Drains, NEW s \in Seqs, SkipEntry(d, s) PROVE Owned'
  BY <1>15 DEF SkipEntry, Befalls
<1>16. ASSUME NEW d \in Drains, SweepClaim(d) PROVE Owned'
  <2> USE <1>16 DEF SweepClaim, DrainGoes, UnclaimOrIgnore, Unclaimed
  <2>1. \A n \in Msgs : Spared(n, What)' /\ claims[dseq[d]] = n => Orphan(dseq[d])
    BY DEF Spared, Befalls
  <2>2. Orphan(dseq[d]) => \A e \in Drains : Holds(e) => dseq[e] # dseq[d]
    BY DEF Orphan
  <2>3. ASSUME NEW n \in Msgs, Spared(n, What)'
        PROVE  /\ \A e \in Drains : Holds(e)' /\ dtext'[e] = n => claims'[dseq'[e]] = n
               /\ \A r \in Seqs, e \in Drains : queue'[r] = n /\ Holds(e)' => dseq'[e] # r
               /\ \A r \in Seqs, e, f \in Drains :
                    claims'[r] = n /\ Holds(e)' /\ Holds(f)' /\ dseq'[e] = r /\ dseq'[f] = r => e = f
    <3>1. ASSUME NEW e \in Drains, Holds(e)', dtext'[e] = n PROVE claims'[dseq'[e]] = n
      BY <2>1, <2>2, <2>3, <3>1
    <3>2. ASSUME NEW r \in Seqs, NEW e \in Drains, queue'[r] = n, Holds(e)' PROVE dseq'[e] # r
      BY <2>1, <2>2, <2>3, <3>2
    <3>3. ASSUME NEW r \in Seqs, NEW e \in Drains, NEW f \in Drains, claims'[r] = n,
                 Holds(e)', Holds(f)', dseq'[e] = r, dseq'[f] = r
          PROVE  e = f
      BY <2>3, <3>3
    <3> QED BY <3>1, <3>2, <3>3
  <2> QED BY <2>3
<1>17. ASSUME NEW d \in Drains, ListQueue(d) PROVE Owned'
  BY <1>17 DEF ListQueue, DrainGoes, Befalls
<1>18. ASSUME NEW d \in Drains, FinishDrain(d) PROVE Owned'
  BY <1>18 DEF FinishDrain, Stops
<1>19. ASSUME NEW d \in Drains, ReadClaim(d) PROVE Owned'
  BY <1>19 DEF ReadClaim, DrainGoes, TextOf
<1>20. ASSUME NEW d \in Drains, ReadFails(d) PROVE Owned'
  BY <1>20 DEF ReadFails, DrainGoes
<1>21. ASSUME NEW d \in Drains, TypeText(d) PROVE Owned'
  BY <1>21 DEF TypeText, DrainGoes
<1>22. ASSUME NEW d \in Drains, Verified(d) PROVE Owned'
  BY <1>22 DEF Verified, DrainGoes
<1>23. ASSUME NEW d \in Drains, DeliveryFails(d) PROVE Owned'
  BY <1>23 DEF DeliveryFails
<1>24. ASSUME NEW d \in Drains, Requeue(d) PROVE Owned'
  BY <1>24 DEF Requeue, Stops, UnclaimOrIgnore, Unclaimed
<1>25. ASSUME NEW d \in Drains, RemoveClaim(d) PROVE Owned'
  BY <1>25 DEF RemoveClaim, DrainGoes
<1>26. ASSUME NEW d \in Drains, DrainFails(d) PROVE Owned'
  BY <1>26 DEF DrainFails, Stops, Befalls
<1>27. ASSUME NEW m \in Msgs, SenderCrashes(m) PROVE Owned'
  BY <1>27 DEF SenderCrashes
<1>28. ASSUME NEW m \in Msgs, Age(m) PROVE Owned'
  BY <1>28 DEF Age
<1>29. ASSUME NEW d \in Drains, DrainCrashes(d) PROVE Owned'
  BY <1>29 DEF DrainCrashes, Stops, Befalls
<1>30. CASE UNCHANGED vars
  BY <1>30 DEF vars
<1> HIDE DEF Owned
<1> QED BY <1>1, <1>2, <1>3, <1>4, <1>5, <1>6, <1>7, <1>8, <1>9, <1>10, <1>11, <1>12, <1>13,
           <1>14, <1>15, <1>16, <1>17, <1>18, <1>19, <1>20, <1>21, <1>22, <1>23, <1>24, <1>25,
           <1>26, <1>27, <1>28, <1>29, <1>30
       DEF Next, Sender, Drain, Environment

(* What is verified is removed by the drain that verified it. *)
LEMMA KeepsDone ==
    ASSUME Typed, Typed', Kept, Owned, Done, [Next]_vars
    PROVE  Done'
<1> DEFINE What == {"shared", "swept", "left"}
<1>a. \A m \in Msgs : Spared(m, What)' => Spared(m, What)
  BY SparedBefore
<1>b. \A m \in Msgs : Spared(m, What) => Spared(m, {"shared", "swept"}) /\ Spared(m, {"shared"})
  BY DEF Spared
<1> USE <1>a, <1>b
<1> USE OutboxAssumption DEF Typed, TypeOK, Numbered, Holds, Files, Written, Kept, NamesOwned,
                             NamesOne, SentOnly, Owned, Done, Leads, diskVars, sendVars,
                             drainVars, history
<1>1. ASSUME NEW m \in Msgs, SendDirect(m) PROVE Done'
  BY <1>1 DEF SendDirect, SenderGoes
<1>2. ASSUME NEW m \in Msgs, SendDirectFails(m) PROVE Done'
  BY <1>2 DEF SendDirectFails, SenderGoes
<1>3. ASSUME NEW m \in Msgs, SendQueued(m) PROVE Done'
  BY <1>3 DEF SendQueued, SenderGoes
<1>4. ASSUME NEW m \in Msgs, ListOutbox(m) PROVE Done'
  BY <1>4 DEF ListOutbox, SenderGoes
<1>5. ASSUME NEW m \in Msgs, SequenceExhausted(m) PROVE Done'
  BY <1>5 DEF SequenceExhausted, SenderGoes
<1>6. ASSUME NEW m \in Msgs, CreateEntry(m) PROVE Done'
  BY <1>6 DEF CreateEntry, SenderGoes, Sharers, TooLate
<1>7. ASSUME NEW m \in Msgs, CreateCollides(m) PROVE Done'
  BY <1>7 DEF CreateCollides, SenderGoes
<1>8. ASSUME NEW m \in Msgs, WriteEntry(m) PROVE Done'
  BY <1>8 DEF WriteEntry, SenderGoes
<1>9. ASSUME NEW m \in Msgs, WriteFails(m) PROVE Done'
  BY <1>9 DEF WriteFails, SenderGoes
<1>10. ASSUME NEW m \in Msgs, EnqueueFails(m) PROVE Done'
  BY <1>10 DEF EnqueueFails
<1>11. ASSUME NEW d \in Drains, StartDrain(d) PROVE Done'
  BY <1>11 DEF StartDrain, DrainGoes
<1>12. ASSUME NEW d \in Drains, NEW s \in Seqs, SweepFresh(d, s) PROVE Done'
  BY <1>12 DEF SweepFresh
<1>13. ASSUME NEW d \in Drains, NEW s \in Seqs, SweepStale(d, s) PROVE Done'
  BY <1>13 DEF SweepStale, DrainGoes
<1>14. ASSUME NEW d \in Drains, NEW s \in Seqs, ClaimEntry(d, s) PROVE Done'
  BY <1>14 DEF ClaimEntry, DrainGoes, Befalls
<1>15. ASSUME NEW d \in Drains, NEW s \in Seqs, SkipEntry(d, s) PROVE Done'
  BY <1>15 DEF SkipEntry, Befalls
<1>16. ASSUME NEW d \in Drains, SweepClaim(d) PROVE Done'
  <2> USE <1>16 DEF SweepClaim, DrainGoes, UnclaimOrIgnore, Unclaimed
  <2>1. \A n \in Msgs : Spared(n, What)' /\ claims[dseq[d]] = n => Orphan(dseq[d])
    BY DEF Spared, Befalls
  <2>2. Orphan(dseq[d]) => \A e \in Drains : Holds(e) => dseq[e] # dseq[d]
    BY DEF Orphan
  <2>3. ASSUME NEW n \in submitted, Spared(n, What)' PROVE claims[dseq[d]] # n
    <3>1. SUFFICES ASSUME claims[dseq[d]] = n PROVE FALSE
      OBVIOUS
    <3>2. PICK e \in Drains : dpc[e] = "remove" /\ dtext[e] = n
      BY <2>3, <3>1
    <3>3. claims[dseq[e]] = n
      BY <2>3, <3>2
    <3>4. dseq[e] = dseq[d]
      BY <3>1, <3>2, <3>3
    <3> QED BY <2>1, <2>2, <2>3, <3>1, <3>2, <3>4
  <2> QED BY <2>3
<1>17. ASSUME NEW d \in Drains, ListQueue(d) PROVE Done'
  BY <1>17 DEF ListQueue, DrainGoes, Befalls
<1>18. ASSUME NEW d \in Drains, FinishDrain(d) PROVE Done'
  BY <1>18 DEF FinishDrain, Stops
<1>19. ASSUME NEW d \in Drains, ReadClaim(d) PROVE Done'
  BY <1>19 DEF ReadClaim, DrainGoes, TextOf
<1>20. ASSUME NEW d \in Drains, ReadFails(d) PROVE Done'
  BY <1>20 DEF ReadFails, DrainGoes
<1>21. ASSUME NEW d \in Drains, TypeText(d) PROVE Done'
  BY <1>21 DEF TypeText, DrainGoes
<1>22. ASSUME NEW d \in Drains, Verified(d) PROVE Done'
  BY <1>22 DEF Verified, DrainGoes
<1>23. ASSUME NEW d \in Drains, DeliveryFails(d) PROVE Done'
  BY <1>23 DEF DeliveryFails
<1>24. ASSUME NEW d \in Drains, Requeue(d) PROVE Done'
  BY <1>24 DEF Requeue, Stops, UnclaimOrIgnore, Unclaimed
<1>25. ASSUME NEW d \in Drains, RemoveClaim(d) PROVE Done'
  BY <1>25 DEF RemoveClaim, DrainGoes
<1>26. ASSUME NEW d \in Drains, DrainFails(d) PROVE Done'
  <2> USE <1>26 DEF DrainFails, Stops
  <2>1. ASSUME NEW n \in Msgs, Spared(n, What)' PROVE ~(dpc[d] = "remove" /\ dtext[d] = n)
    BY <2>1 DEF Spared, Befalls
  <2> QED BY <2>1
<1>27. ASSUME NEW m \in Msgs, SenderCrashes(m) PROVE Done'
  BY <1>27 DEF SenderCrashes
<1>28. ASSUME NEW m \in Msgs, Age(m) PROVE Done'
  BY <1>28 DEF Age
<1>29. ASSUME NEW d \in Drains, DrainCrashes(d) PROVE Done'
  <2> USE <1>29 DEF DrainCrashes, Stops
  <2>1. ASSUME NEW n \in Msgs, Spared(n, What)' PROVE ~(dpc[d] = "remove" /\ dtext[d] = n)
    BY <2>1 DEF Spared, Befalls
  <2> QED BY <2>1
<1>30. CASE UNCHANGED vars
  BY <1>30 DEF vars
<1> HIDE DEF Done, Owned
<1> QED BY <1>1, <1>2, <1>3, <1>4, <1>5, <1>6, <1>7, <1>8, <1>9, <1>10, <1>11, <1>12, <1>13,
           <1>14, <1>15, <1>16, <1>17, <1>18, <1>19, <1>20, <1>21, <1>22, <1>23, <1>24, <1>25,
           <1>26, <1>27, <1>28, <1>29, <1>30
       DEF Next, Sender, Drain, Environment

(* A set of naturals has a least element. *)
LEMMA LeastExists ==
    ASSUME NEW S, S \subseteq Nat, S # {}
    PROVE  \E r \in S : \A q \in S : r =< q
<1> DEFINE Less == OpToRel(<, Nat)
<1>1. IsWellFoundedOn(Less, Nat)
  BY NatLessThanWellFounded, Zenon
<1> HIDE DEF Less
<1>2. PICK r \in S : \A q \in S : <<q, r>> \notin Less
  BY <1>1, WFMin
<1>3. \A q \in S : ~(q < r)
  BY <1>2 DEF Less, OpToRel
<1> QED BY <1>2, <1>3

(* The number of a new entry is larger than those in use. *)
LEMMA NextIsLarger == ASSUME NEW s \in Queued PROVE NextSequence > s
<1>1. Queued \subseteq 1..MaxSeq /\ MaxSeq \in Nat
  BY OutboxAssumption DEF Queued, Seqs
<1> DEFINE Room == {MaxSeq - x : x \in Queued}
<1>2. Room \subseteq Nat /\ Room # {}
  <2>1. ASSUME NEW x \in Queued PROVE MaxSeq - x \in Nat
    <3>1. x \in 1..MaxSeq
      BY <1>1
    <3> QED BY <1>1, <3>1
  <2>2. MaxSeq - s \in Room
    OBVIOUS
  <2> QED BY <2>1, <2>2
<1>3. PICK r \in Room : \A q \in Room : r <= q
  <2> HIDE DEF Room
  <2> QED BY <1>2, LeastExists
<1>4. PICK x \in Queued : r = MaxSeq - x
  BY <1>3
<1>5. \A y \in Queued : x >= y
  <2>1. ASSUME NEW y \in Queued PROVE x >= y
    <3>1. MaxSeq - y \in Room /\ r <= MaxSeq - y
      BY <1>3
    <3>2. x \in Nat /\ y \in Nat
      BY <1>1
    <3> QED BY <1>1, <1>4, <3>1, <3>2
  <2> QED BY <2>1
<1>6. \E z \in Queued : \A y \in Queued : z >= y
  BY <1>5
<1>7. Max(Queued) \in Queued /\ \A y \in Queued : Max(Queued) >= y
  BY <1>6, Zenon DEF Max
<1>8. NextSequence = Max(Queued) + 1
  BY DEF NextSequence
<1>9. Max(Queued) \in Nat /\ s \in Nat /\ Max(Queued) >= s
  <2>1. Max(Queued) \in 1..MaxSeq /\ s \in 1..MaxSeq
    BY <1>1, <1>7
  <2> QED BY <1>1, <1>7, <2>1
<1> QED BY <1>8, <1>9
(* A number is larger than those queued when it was taken. *)
LEMMA KeepsRising ==
    ASSUME Typed, Typed', Kept, Rising, [Next]_vars
    PROVE  Rising'
<1> USE OutboxAssumption DEF Typed, TypeOK, Numbered, Holds, Files, Written, Kept, NamesOwned,
                             SentOnly, Rising, Leads, diskVars, sendVars, drainVars, history
<1>1. ASSUME NEW m \in Msgs, SendDirect(m) PROVE Rising'
  BY <1>1 DEF SendDirect, SenderGoes
<1>2. ASSUME NEW m \in Msgs, SendDirectFails(m) PROVE Rising'
  BY <1>2 DEF SendDirectFails, SenderGoes
<1>3. ASSUME NEW m \in Msgs, SendQueued(m) PROVE Rising'
  BY <1>3 DEF SendQueued, SenderGoes
<1>4. ASSUME NEW m \in Msgs, ListOutbox(m) PROVE Rising'
  <2> USE <1>4 DEF ListOutbox, SenderGoes
  <2>1. ASSUME NEW n \in Msgs, NEW s \in Seqs, queue[s] = n PROVE sseq[n] < NextSequence
    <3>1. s \in Queued /\ sseq[n] = s /\ s \in Nat
      BY <2>1 DEF Queued, Seqs
    <3>2. NextSequence > s
      BY <3>1, NextIsLarger
    <3> QED BY <3>1, <3>2 DEF Seqs
  <2>2. ASSUME NEW n \in Msgs, NEW o \in Msgs, <<n, o>> \in before'
        PROVE  Written(n)' /\ sseq'[n] < sseq'[o]
    <3>1. CASE <<n, o>> \in before /\ o # m
      <4>1. Written(n) /\ sseq[n] < sseq[o] /\ n # m
        BY <3>1
      <4> QED BY <3>1, <4>1
    <3>2. CASE o = m /\ Written(n) /\ \E s \in Seqs : queue[s] = n
      <4>1. sseq[n] < NextSequence /\ n # m
        BY <2>1, <3>2
      <4> QED BY <3>2, <4>1
    <3> QED BY <2>2, <3>1, <3>2
  <2> QED BY <2>2
<1>5. ASSUME NEW m \in Msgs, SequenceExhausted(m) PROVE Rising'
  BY <1>5 DEF SequenceExhausted, SenderGoes
<1>6. ASSUME NEW m \in Msgs, CreateEntry(m) PROVE Rising'
  BY <1>6 DEF CreateEntry, SenderGoes, Sharers, TooLate
<1>7. ASSUME NEW m \in Msgs, CreateCollides(m) PROVE Rising'
  BY <1>7 DEF CreateCollides, SenderGoes
<1>8. ASSUME NEW m \in Msgs, WriteEntry(m) PROVE Rising'
  BY <1>8 DEF WriteEntry, SenderGoes
<1>9. ASSUME NEW m \in Msgs, WriteFails(m) PROVE Rising'
  BY <1>9 DEF WriteFails, SenderGoes
<1>10. ASSUME NEW m \in Msgs, EnqueueFails(m) PROVE Rising'
  BY <1>10 DEF EnqueueFails
<1>11. ASSUME NEW d \in Drains, StartDrain(d) PROVE Rising'
  BY <1>11 DEF StartDrain, DrainGoes
<1>12. ASSUME NEW d \in Drains, NEW s \in Seqs, SweepFresh(d, s) PROVE Rising'
  BY <1>12 DEF SweepFresh
<1>13. ASSUME NEW d \in Drains, NEW s \in Seqs, SweepStale(d, s) PROVE Rising'
  BY <1>13 DEF SweepStale, DrainGoes
<1>14. ASSUME NEW d \in Drains, NEW s \in Seqs, ClaimEntry(d, s) PROVE Rising'
  BY <1>14 DEF ClaimEntry, DrainGoes, Befalls
<1>15. ASSUME NEW d \in Drains, NEW s \in Seqs, SkipEntry(d, s) PROVE Rising'
  BY <1>15 DEF SkipEntry, Befalls
<1>16. ASSUME NEW d \in Drains, SweepClaim(d) PROVE Rising'
  BY <1>16 DEF SweepClaim, DrainGoes, UnclaimOrIgnore, Unclaimed, Befalls, Orphan
<1>17. ASSUME NEW d \in Drains, ListQueue(d) PROVE Rising'
  BY <1>17 DEF ListQueue, DrainGoes, Befalls
<1>18. ASSUME NEW d \in Drains, FinishDrain(d) PROVE Rising'
  BY <1>18 DEF FinishDrain, Stops
<1>19. ASSUME NEW d \in Drains, ReadClaim(d) PROVE Rising'
  BY <1>19 DEF ReadClaim, DrainGoes, TextOf
<1>20. ASSUME NEW d \in Drains, ReadFails(d) PROVE Rising'
  BY <1>20 DEF ReadFails, DrainGoes
<1>21. ASSUME NEW d \in Drains, TypeText(d) PROVE Rising'
  BY <1>21 DEF TypeText, DrainGoes
<1>22. ASSUME NEW d \in Drains, Verified(d) PROVE Rising'
  BY <1>22 DEF Verified, DrainGoes
<1>23. ASSUME NEW d \in Drains, DeliveryFails(d) PROVE Rising'
  BY <1>23 DEF DeliveryFails
<1>24. ASSUME NEW d \in Drains, Requeue(d) PROVE Rising'
  BY <1>24 DEF Requeue, Stops, UnclaimOrIgnore, Unclaimed
<1>25. ASSUME NEW d \in Drains, RemoveClaim(d) PROVE Rising'
  BY <1>25 DEF RemoveClaim, DrainGoes
<1>26. ASSUME NEW d \in Drains, DrainFails(d) PROVE Rising'
  BY <1>26 DEF DrainFails, Stops, Befalls
<1>27. ASSUME NEW m \in Msgs, SenderCrashes(m) PROVE Rising'
  BY <1>27 DEF SenderCrashes
<1>28. ASSUME NEW m \in Msgs, Age(m) PROVE Rising'
  BY <1>28 DEF Age
<1>29. ASSUME NEW d \in Drains, DrainCrashes(d) PROVE Rising'
  BY <1>29 DEF DrainCrashes, Stops, Befalls
<1>30. CASE UNCHANGED vars
  BY <1>30 DEF vars
<1> QED BY <1>1, <1>2, <1>3, <1>4, <1>5, <1>6, <1>7, <1>8, <1>9, <1>10, <1>11, <1>12, <1>13,
           <1>14, <1>15, <1>16, <1>17, <1>18, <1>19, <1>20, <1>21, <1>22, <1>23, <1>24, <1>25,
           <1>26, <1>27, <1>28, <1>29, <1>30
       DEF Next, Sender, Drain, Environment

(* What a drain has not listed came late or was passed. *)
LEMMA KeepsListed ==
    ASSUME Typed, Typed', Kept, ListsEarlier, [Next]_vars
    PROVE  ListsEarlier'
<1>a. \A n \in Msgs : Spared(n, Overtaken)' => Spared(n, Overtaken)
  BY SparedBefore
<1>b. \A n \in Msgs : Spared(n, Overtaken) =>
        Spared(n, {"shared"}) /\ Spared(n, {"shared", "torn"}) /\ n \notin Exposed
  BY DEF Spared, Overtaken, Exposed
<1> USE <1>a, <1>b
<1> USE OutboxAssumption DEF Typed, TypeOK, Numbered, Holds, Files, Written, Kept, NamesOwned,
                             NamesOne, WritesAlone, ReadsOwn, RemovesSubmitted, NoLoss, OnDisk,
                             Queued, Claimed, ListsEarlier, IsFirst, Leads, diskVars, sendVars,
                             drainVars, history
<1>1. ASSUME NEW m \in Msgs, SendDirect(m) PROVE ListsEarlier'
  BY <1>1 DEF SendDirect, SenderGoes
<1>2. ASSUME NEW m \in Msgs, SendDirectFails(m) PROVE ListsEarlier'
  BY <1>2 DEF SendDirectFails, SenderGoes
<1>3. ASSUME NEW m \in Msgs, SendQueued(m) PROVE ListsEarlier'
  BY <1>3 DEF SendQueued, SenderGoes
<1>4. ASSUME NEW m \in Msgs, ListOutbox(m) PROVE ListsEarlier'
  BY <1>4 DEF ListOutbox, SenderGoes
<1>5. ASSUME NEW m \in Msgs, SequenceExhausted(m) PROVE ListsEarlier'
  BY <1>5 DEF SequenceExhausted, SenderGoes
<1>6. ASSUME NEW m \in Msgs, CreateEntry(m) PROVE ListsEarlier'
  <2> USE <1>6 DEF CreateEntry, SenderGoes
  <2>1. Spared(m, Overtaken)' => ~TooLate(sseq[m])
    BY DEF Spared, Overtaken
  <2>2. ASSUME NEW d \in Drains, NEW r \in Seqs, ~TooLate(sseq[m]), dpc[d] = "claim" \/ Holds(d),
               r \in todo[d], r > sseq[m]
        PROVE  sseq[m] \in todo[d]
    BY <2>2 DEF TooLate
  <2>3. ASSUME NEW d \in Drains, NEW n \in Msgs, NEW r \in Seqs,
               dpc'[d] = "claim" \/ Holds(d)', spc'[n] \in {"write", "queued"}, n \notin submitted',
               Spared(n, Overtaken)', r \in todo'[d], r > sseq'[n]
        PROVE  sseq'[n] \in todo'[d] \/ (Holds(d)' /\ dseq'[d] = sseq'[n])
    <3>1. CASE n = m BY <2>1, <2>2, <2>3, <3>1
    <3>2. CASE n # m BY <2>3, <3>2
    <3> QED BY <3>1, <3>2
  <2> QED BY <2>3
<1>7. ASSUME NEW m \in Msgs, CreateCollides(m) PROVE ListsEarlier'
  BY <1>7 DEF CreateCollides, SenderGoes
<1>8. ASSUME NEW m \in Msgs, WriteEntry(m) PROVE ListsEarlier'
  BY <1>8 DEF WriteEntry, SenderGoes
<1>9. ASSUME NEW m \in Msgs, WriteFails(m) PROVE ListsEarlier'
  BY <1>9 DEF WriteFails, SenderGoes
<1>10. ASSUME NEW m \in Msgs, EnqueueFails(m) PROVE ListsEarlier'
  BY <1>10 DEF EnqueueFails
<1>11. ASSUME NEW d \in Drains, StartDrain(d) PROVE ListsEarlier'
  BY <1>11 DEF StartDrain, DrainGoes
<1>12. ASSUME NEW d \in Drains, NEW s \in Seqs, SweepFresh(d, s) PROVE ListsEarlier'
  BY <1>12 DEF SweepFresh
<1>13. ASSUME NEW d \in Drains, NEW s \in Seqs, SweepStale(d, s) PROVE ListsEarlier'
  BY <1>13 DEF SweepStale, DrainGoes
<1>14. ASSUME NEW d \in Drains, NEW s \in Seqs, ClaimEntry(d, s) PROVE ListsEarlier'
  BY <1>14 DEF ClaimEntry, DrainGoes, Befalls
<1>15. ASSUME NEW d \in Drains, NEW s \in Seqs, SkipEntry(d, s) PROVE ListsEarlier'
  <2> USE <1>15 DEF SkipEntry
  <2>1. ASSUME NEW n \in Msgs, Spared(n, Overtaken)' PROVE claims[s] # n
    BY <2>1 DEF Spared, Overtaken, Befalls
  <2>2. ASSUME NEW n \in Msgs, Spared(n, Overtaken)', n \notin submitted, spc[n] \in {"write", "queued"}
        PROVE  sseq[n] # s
    <3>1. CASE spc[n] = "write" BY <2>2, <3>1
    <3>2. CASE spc[n] = "queued"
      <4>1. PICK r \in Seqs : Leads(r, n) BY <2>2, <3>2
      <4> QED BY <2>1, <2>2, <4>1
    <3> QED BY <2>2, <3>1, <3>2
  <2> QED BY <2>2
<1>16. ASSUME NEW d \in Drains, SweepClaim(d) PROVE ListsEarlier'
  BY <1>16 DEF SweepClaim, DrainGoes, UnclaimOrIgnore, Unclaimed, Befalls, Orphan
<1>17. ASSUME NEW d \in Drains, ListQueue(d) PROVE ListsEarlier'
  <2> USE <1>17 DEF ListQueue, DrainGoes
  <2>1. ASSUME NEW n \in Msgs, Spared(n, Overtaken)', NEW r \in Seqs PROVE claims[r] # n
    <3>1. SUFFICES ASSUME claims[r] = n PROVE FALSE
      OBVIOUS
    <3>2. r \in Claimed /\ n \in {claims[x] : x \in Claimed}
      BY <3>1
    <3>3. "passed" \in mishaps'[n]
      BY <3>2 DEF Befalls
    <3> QED BY <2>1, <3>3 DEF Spared, Overtaken
  <2>2. ASSUME NEW n \in Msgs, Spared(n, Overtaken)', n \notin submitted, spc[n] \in {"write", "queued"}
        PROVE  sseq[n] \in Queued
    <3>1. CASE spc[n] = "write" BY <2>2, <3>1
    <3>2. CASE spc[n] = "queued"
      <4>1. PICK r \in Seqs : Leads(r, n) BY <2>2, <3>2
      <4> QED BY <2>1, <2>2, <4>1
    <3> QED BY <2>2, <3>1, <3>2
  <2> HIDE DEF Queued
  <2> QED BY <2>2
<1>18. ASSUME NEW d \in Drains, FinishDrain(d) PROVE ListsEarlier'
  BY <1>18 DEF FinishDrain, Stops
<1>19. ASSUME NEW d \in Drains, ReadClaim(d) PROVE ListsEarlier'
  BY <1>19 DEF ReadClaim, DrainGoes, TextOf
<1>20. ASSUME NEW d \in Drains, ReadFails(d) PROVE ListsEarlier'
  BY <1>20 DEF ReadFails, DrainGoes
<1>21. ASSUME NEW d \in Drains, TypeText(d) PROVE ListsEarlier'
  BY <1>21 DEF TypeText, DrainGoes
<1>22. ASSUME NEW d \in Drains, Verified(d) PROVE ListsEarlier'
  BY <1>22 DEF Verified, DrainGoes
<1>23. ASSUME NEW d \in Drains, DeliveryFails(d) PROVE ListsEarlier'
  BY <1>23 DEF DeliveryFails
<1>24. ASSUME NEW d \in Drains, Requeue(d) PROVE ListsEarlier'
  BY <1>24 DEF Requeue, Stops, UnclaimOrIgnore, Unclaimed
<1>25. ASSUME NEW d \in Drains, RemoveClaim(d) PROVE ListsEarlier'
  BY <1>25 DEF RemoveClaim, DrainGoes
<1>26. ASSUME NEW d \in Drains, DrainFails(d) PROVE ListsEarlier'
  BY <1>26 DEF DrainFails, Stops, Befalls
<1>27. ASSUME NEW m \in Msgs, SenderCrashes(m) PROVE ListsEarlier'
  BY <1>27 DEF SenderCrashes
<1>28. ASSUME NEW m \in Msgs, Age(m) PROVE ListsEarlier'
  BY <1>28 DEF Age
<1>29. ASSUME NEW d \in Drains, DrainCrashes(d) PROVE ListsEarlier'
  BY <1>29 DEF DrainCrashes, Stops, Befalls
<1>30. CASE UNCHANGED vars
  BY <1>30 DEF vars
<1> QED BY <1>1, <1>2, <1>3, <1>4, <1>5, <1>6, <1>7, <1>8, <1>9, <1>10, <1>11, <1>12, <1>13,
           <1>14, <1>15, <1>16, <1>17, <1>18, <1>19, <1>20, <1>21, <1>22, <1>23, <1>24, <1>25,
           <1>26, <1>27, <1>28, <1>29, <1>30
       DEF Next, Sender, Drain, Environment

(* The first of the listing is claimed. *)
LEMMA KeepsLater ==
    ASSUME Typed, Typed', Kept, Rising, ListsEarlier, ClaimsLater, [Next]_vars
    PROVE  ClaimsLater'
<1>a. \A n \in Msgs : Spared(n, Overtaken)' => Spared(n, Overtaken)
  BY SparedBefore
<1> USE <1>a
<1> USE OutboxAssumption DEF Typed, TypeOK, Numbered, Holds, Files, Written, Kept, NamesOwned,
                             SentOnly, Rising, ListsEarlier, ClaimsLater, IsFirst, Leads,
                             diskVars, sendVars, drainVars, history
<1>1. ASSUME NEW m \in Msgs, SendDirect(m) PROVE ClaimsLater'
  BY <1>1 DEF SendDirect, SenderGoes
<1>2. ASSUME NEW m \in Msgs, SendDirectFails(m) PROVE ClaimsLater'
  BY <1>2 DEF SendDirectFails, SenderGoes
<1>3. ASSUME NEW m \in Msgs, SendQueued(m) PROVE ClaimsLater'
  BY <1>3 DEF SendQueued, SenderGoes
<1>4. ASSUME NEW m \in Msgs, ListOutbox(m) PROVE ClaimsLater'
  BY <1>4 DEF ListOutbox, SenderGoes
<1>5. ASSUME NEW m \in Msgs, SequenceExhausted(m) PROVE ClaimsLater'
  BY <1>5 DEF SequenceExhausted, SenderGoes
<1>6. ASSUME NEW m \in Msgs, CreateEntry(m) PROVE ClaimsLater'
  BY <1>6 DEF CreateEntry, SenderGoes, Sharers, TooLate
<1>7. ASSUME NEW m \in Msgs, CreateCollides(m) PROVE ClaimsLater'
  BY <1>7 DEF CreateCollides, SenderGoes
<1>8. ASSUME NEW m \in Msgs, WriteEntry(m) PROVE ClaimsLater'
  BY <1>8 DEF WriteEntry, SenderGoes
<1>9. ASSUME NEW m \in Msgs, WriteFails(m) PROVE ClaimsLater'
  BY <1>9 DEF WriteFails, SenderGoes
<1>10. ASSUME NEW m \in Msgs, EnqueueFails(m) PROVE ClaimsLater'
  BY <1>10 DEF EnqueueFails
<1>11. ASSUME NEW d \in Drains, StartDrain(d) PROVE ClaimsLater'
  BY <1>11 DEF StartDrain, DrainGoes
<1>12. ASSUME NEW d \in Drains, NEW s \in Seqs, SweepFresh(d, s) PROVE ClaimsLater'
  BY <1>12 DEF SweepFresh
<1>13. ASSUME NEW d \in Drains, NEW s \in Seqs, SweepStale(d, s) PROVE ClaimsLater'
  BY <1>13 DEF SweepStale, DrainGoes
<1>14. ASSUME NEW d \in Drains, NEW s \in Seqs, ClaimEntry(d, s) PROVE ClaimsLater'
  <2> USE <1>14 DEF ClaimEntry, DrainGoes
  <2>1. ASSUME NEW n \in Msgs, NEW m \in Msgs, <<n, m>> \in before, Spared(n, Overtaken), queue[s] = m
        PROVE  n \in submitted
    <3>1. Written(n) /\ sseq[n] < s /\ sseq[m] = s
      BY <2>1
    <3>2. sseq[n] \in Nat /\ s \in Nat
      BY <3>1 DEF Seqs
    <3>3. n \in submitted \/ sseq[n] \in todo[d]
      BY <2>1, <3>1, <3>2
    <3> QED BY <3>1, <3>2, <3>3
  <2> QED BY <2>1
<1>15. ASSUME NEW d \in Drains, NEW s \in Seqs, SkipEntry(d, s) PROVE ClaimsLater'
  BY <1>15 DEF SkipEntry, Befalls
<1>16. ASSUME NEW d \in Drains, SweepClaim(d) PROVE ClaimsLater'
  BY <1>16 DEF SweepClaim, DrainGoes, UnclaimOrIgnore, Unclaimed, Befalls, Orphan
<1>17. ASSUME NEW d \in Drains, ListQueue(d) PROVE ClaimsLater'
  BY <1>17 DEF ListQueue, DrainGoes, Befalls
<1>18. ASSUME NEW d \in Drains, FinishDrain(d) PROVE ClaimsLater'
  BY <1>18 DEF FinishDrain, Stops
<1>19. ASSUME NEW d \in Drains, ReadClaim(d) PROVE ClaimsLater'
  BY <1>19 DEF ReadClaim, DrainGoes, TextOf
<1>20. ASSUME NEW d \in Drains, ReadFails(d) PROVE ClaimsLater'
  BY <1>20 DEF ReadFails, DrainGoes
<1>21. ASSUME NEW d \in Drains, TypeText(d) PROVE ClaimsLater'
  BY <1>21 DEF TypeText, DrainGoes
<1>22. ASSUME NEW d \in Drains, Verified(d) PROVE ClaimsLater'
  BY <1>22 DEF Verified, DrainGoes
<1>23. ASSUME NEW d \in Drains, DeliveryFails(d) PROVE ClaimsLater'
  BY <1>23 DEF DeliveryFails
<1>24. ASSUME NEW d \in Drains, Requeue(d) PROVE ClaimsLater'
  BY <1>24 DEF Requeue, Stops, UnclaimOrIgnore, Unclaimed
<1>25. ASSUME NEW d \in Drains, RemoveClaim(d) PROVE ClaimsLater'
  BY <1>25 DEF RemoveClaim, DrainGoes
<1>26. ASSUME NEW d \in Drains, DrainFails(d) PROVE ClaimsLater'
  BY <1>26 DEF DrainFails, Stops, Befalls
<1>27. ASSUME NEW m \in Msgs, SenderCrashes(m) PROVE ClaimsLater'
  BY <1>27 DEF SenderCrashes
<1>28. ASSUME NEW m \in Msgs, Age(m) PROVE ClaimsLater'
  BY <1>28 DEF Age
<1>29. ASSUME NEW d \in Drains, DrainCrashes(d) PROVE ClaimsLater'
  BY <1>29 DEF DrainCrashes, Stops, Befalls
<1>30. CASE UNCHANGED vars
  BY <1>30 DEF vars
<1> QED BY <1>1, <1>2, <1>3, <1>4, <1>5, <1>6, <1>7, <1>8, <1>9, <1>10, <1>11, <1>12, <1>13,
           <1>14, <1>15, <1>16, <1>17, <1>18, <1>19, <1>20, <1>21, <1>22, <1>23, <1>24, <1>25,
           <1>26, <1>27, <1>28, <1>29, <1>30
       DEF Next, Sender, Drain, Environment

(* What is submitted was claimed. *)
LEMMA KeepsOrder ==
    ASSUME Typed, Typed', Kept, Rising, ClaimsLater, Ordered, [Next]_vars
    PROVE  Ordered'
<1>a. \A n \in Msgs : Spared(n, Overtaken)' => Spared(n, Overtaken)
  BY SparedBefore
<1> USE <1>a
<1> USE OutboxAssumption DEF Typed, TypeOK, Numbered, Holds, Files, Written, Kept, SentOnly,
                             Rising, ClaimsLater, Ordered, diskVars, sendVars, drainVars,
                             history
<1>1. ASSUME NEW m \in Msgs, SendDirect(m) PROVE Ordered'
  BY <1>1 DEF SendDirect, SenderGoes
<1>2. ASSUME NEW m \in Msgs, SendDirectFails(m) PROVE Ordered'
  BY <1>2 DEF SendDirectFails, SenderGoes
<1>3. ASSUME NEW m \in Msgs, SendQueued(m) PROVE Ordered'
  BY <1>3 DEF SendQueued, SenderGoes
<1>4. ASSUME NEW m \in Msgs, ListOutbox(m) PROVE Ordered'
  BY <1>4 DEF ListOutbox, SenderGoes
<1>5. ASSUME NEW m \in Msgs, SequenceExhausted(m) PROVE Ordered'
  BY <1>5 DEF SequenceExhausted, SenderGoes
<1>6. ASSUME NEW m \in Msgs, CreateEntry(m) PROVE Ordered'
  BY <1>6 DEF CreateEntry, SenderGoes, Sharers, TooLate
<1>7. ASSUME NEW m \in Msgs, CreateCollides(m) PROVE Ordered'
  BY <1>7 DEF CreateCollides, SenderGoes
<1>8. ASSUME NEW m \in Msgs, WriteEntry(m) PROVE Ordered'
  BY <1>8 DEF WriteEntry, SenderGoes
<1>9. ASSUME NEW m \in Msgs, WriteFails(m) PROVE Ordered'
  BY <1>9 DEF WriteFails, SenderGoes
<1>10. ASSUME NEW m \in Msgs, EnqueueFails(m) PROVE Ordered'
  BY <1>10 DEF EnqueueFails
<1>11. ASSUME NEW d \in Drains, StartDrain(d) PROVE Ordered'
  BY <1>11 DEF StartDrain, DrainGoes
<1>12. ASSUME NEW d \in Drains, NEW s \in Seqs, SweepFresh(d, s) PROVE Ordered'
  BY <1>12 DEF SweepFresh
<1>13. ASSUME NEW d \in Drains, NEW s \in Seqs, SweepStale(d, s) PROVE Ordered'
  BY <1>13 DEF SweepStale, DrainGoes
<1>14. ASSUME NEW d \in Drains, NEW s \in Seqs, ClaimEntry(d, s) PROVE Ordered'
  BY <1>14 DEF ClaimEntry, DrainGoes, Befalls
<1>15. ASSUME NEW d \in Drains, NEW s \in Seqs, SkipEntry(d, s) PROVE Ordered'
  BY <1>15 DEF SkipEntry, Befalls
<1>16. ASSUME NEW d \in Drains, SweepClaim(d) PROVE Ordered'
  BY <1>16 DEF SweepClaim, DrainGoes, UnclaimOrIgnore, Unclaimed, Befalls, Orphan
<1>17. ASSUME NEW d \in Drains, ListQueue(d) PROVE Ordered'
  BY <1>17 DEF ListQueue, DrainGoes, Befalls
<1>18. ASSUME NEW d \in Drains, FinishDrain(d) PROVE Ordered'
  BY <1>18 DEF FinishDrain, Stops
<1>19. ASSUME NEW d \in Drains, ReadClaim(d) PROVE Ordered'
  BY <1>19 DEF ReadClaim, DrainGoes, TextOf
<1>20. ASSUME NEW d \in Drains, ReadFails(d) PROVE Ordered'
  BY <1>20 DEF ReadFails, DrainGoes
<1>21. ASSUME NEW d \in Drains, TypeText(d) PROVE Ordered'
  BY <1>21 DEF TypeText, DrainGoes
<1>22. ASSUME NEW d \in Drains, Verified(d) PROVE Ordered'
  BY <1>22 DEF Verified, DrainGoes
<1>23. ASSUME NEW d \in Drains, DeliveryFails(d) PROVE Ordered'
  BY <1>23 DEF DeliveryFails
<1>24. ASSUME NEW d \in Drains, Requeue(d) PROVE Ordered'
  BY <1>24 DEF Requeue, Stops, UnclaimOrIgnore, Unclaimed
<1>25. ASSUME NEW d \in Drains, RemoveClaim(d) PROVE Ordered'
  BY <1>25 DEF RemoveClaim, DrainGoes
<1>26. ASSUME NEW d \in Drains, DrainFails(d) PROVE Ordered'
  BY <1>26 DEF DrainFails, Stops, Befalls
<1>27. ASSUME NEW m \in Msgs, SenderCrashes(m) PROVE Ordered'
  BY <1>27 DEF SenderCrashes
<1>28. ASSUME NEW m \in Msgs, Age(m) PROVE Ordered'
  BY <1>28 DEF Age
<1>29. ASSUME NEW d \in Drains, DrainCrashes(d) PROVE Ordered'
  BY <1>29 DEF DrainCrashes, Stops, Befalls
<1>30. CASE UNCHANGED vars
  BY <1>30 DEF vars
<1> QED BY <1>1, <1>2, <1>3, <1>4, <1>5, <1>6, <1>7, <1>8, <1>9, <1>10, <1>11, <1>12, <1>13,
           <1>14, <1>15, <1>16, <1>17, <1>18, <1>19, <1>20, <1>21, <1>22, <1>23, <1>24, <1>25,
           <1>26, <1>27, <1>28, <1>29, <1>30
       DEF Next, Sender, Drain, Environment

-----------------------------------------------------------------------------
(* The results. *)

LEMMA OwnersThroughout == Spec => [](Typed /\ Kept /\ Owned /\ Done)
<1>1. Init => Owned /\ Done
  BY DEF Init, Owned, Done, Holds
<1>2. Typed /\ Typed' /\ Kept /\ Owned /\ Done /\ [Next]_vars => Owned' /\ Done'
  BY KeepsOwners, KeepsDone
<1> QED BY <1>1, <1>2, KeptThroughout, PTL DEF Spec

(***************************************************************************)
(* "The rename winner owns delivery" (hook.rs, drain_outbox), for any      *)
(* number of messages and drains that overlap, fail and die: only a shared *)
(* number or a sweep gives a message to two drains.                        *)
(***************************************************************************)
THEOREM ClaimsAreExclusive == Spec => []ExclusiveClaim
<1>1. Typed /\ Kept /\ Owned => ExclusiveClaim
  BY DEF Typed, TypeOK, Numbered, Kept, NamesOwned, Leads, Owned, ExclusiveClaim, Delivers, Spared,
     Holds
<1> QED BY <1>1, OwnersThroughout, PTL

(***************************************************************************)
(* No double delivery, for any number of messages and drains that overlap, *)
(* fail and die, but for the three ways NoResubmission names.              *)
(***************************************************************************)
THEOREM NothingResubmitted == Spec => []NoResubmission
<1>1. Typed /\ Kept /\ Owned /\ Done => NoResubmission
  BY DEF Typed, TypeOK, Numbered, Kept, NamesOwned, Leads, Owned, Done, NoResubmission, Spared,
     Holds
<1> QED BY <1>1, OwnersThroughout, PTL

(***************************************************************************)
(* "Drained in order", for any number of messages and of drains that       *)
(* overlap, fail and die: a message that was in the queue when another     *)
(* took its number is submitted before it, unless it is exposed, was found *)
(* claimed, or came too late for a listing.                                *)
(***************************************************************************)
THEOREM DrainedInOrder == Spec => []InOrder
<1> DEFINE OrderInv == Rising /\ ListsEarlier /\ ClaimsLater /\ Ordered
<1>1. Init => OrderInv
  BY DEF Init, Rising, ListsEarlier, ClaimsLater, Ordered, Holds
<1>2. Typed /\ Typed' /\ Kept /\ OrderInv /\ [Next]_vars => OrderInv'
  BY KeepsRising, KeepsListed, KeepsLater, KeepsOrder
<1>3. Typed /\ OrderInv => InOrder
  BY DEF Typed, TypeOK, Ordered, InOrder, Spared, Overtaken
<1> QED BY <1>1, <1>2, <1>3, KeptThroughout, PTL DEF Spec

-----------------------------------------------------------------------------
(* Counting, and numbers in order. *)

(* Ascending lists every element of a finite set of numbers, in their order. *)
LEMMA AscendingOrders ==
    ASSUME NEW S \in SUBSET Nat, IsFiniteSet(S)
    PROVE  /\ Ascending(S) \in Seq(S)
           /\ \A k, l \in DOMAIN Ascending(S) : k < l => Ascending(S)[k] < Ascending(S)[l]
           /\ \A x \in S : \E k \in DOMAIN Ascending(S) : Ascending(S)[k] = x
           /\ \A k \in 1..Cardinality(S) :
                 Ascending(S)[k] \in S /\ Cardinality({j \in S : j =< Ascending(S)[k]}) = k
           /\ \A x \in S : Ascending(S)[Cardinality({j \in S : j =< x})] = x
<1> DEFINE n == Cardinality(S)
           Below(i) == {j \in S : j =< i}
           rank == [i \in S |-> Cardinality(Below(i))]
<1>1. n \in Nat
  BY FS_CardinalityType
<1>2. ASSUME NEW i \in S
      PROVE  IsFiniteSet(Below(i)) /\ Cardinality(Below(i)) \in 1..n
  <2>1. Below(i) \in SUBSET S
    OBVIOUS
  <2>2. IsFiniteSet(Below(i)) /\ Cardinality(Below(i)) =< n
    BY <2>1, FS_Subset
  <2>3. Cardinality(Below(i)) \in Nat
    BY <2>2, FS_CardinalityType
  <2>4. i \in Below(i)
    OBVIOUS
  <2>5. Cardinality(Below(i)) # 0
    BY <2>2, <2>4, FS_EmptySet
  <2> HIDE DEF n, Below
  <2> QED BY <1>1, <2>2, <2>3, <2>5
<1>3. ASSUME NEW i \in S, NEW j \in S, i < j
      PROVE  Cardinality(Below(i)) # Cardinality(Below(j))
  <2>1. Below(i) \in SUBSET Below(j)
    <3> SUFFICES ASSUME NEW l \in S, l =< i PROVE l =< j
      OBVIOUS
    <3>1. l \in Nat /\ i \in Nat /\ j \in Nat
      OBVIOUS
    <3> QED BY <1>3, <3>1
  <2>2. j \in Below(j) /\ j \notin Below(i)
    BY <1>3
  <2>3. IsFiniteSet(Below(j))
    BY <1>2
  <2> QED BY <2>1, <2>2, <2>3, FS_Subset
<1>4. rank \in Injection(S, 1..n)
  <2>1. rank \in [S -> 1..n]
    BY <1>2
  <2>2. \A i, j \in S : rank[i] = rank[j] => i = j
    <3> SUFFICES ASSUME NEW i \in S, NEW j \in S, i # j PROVE rank[i] # rank[j]
      OBVIOUS
    <3>1. i \in Nat /\ j \in Nat
      OBVIOUS
    <3>2. i < j \/ j < i
      BY <3>1
    <3> QED BY <1>3, <3>2
  <2> HIDE DEF rank, n
  <2> QED BY <2>1, <2>2 DEF Injection, IsInjective
<1>5. rank \in Surjection(S, 1..n)
  <2>1. IsFiniteSet(1..n) /\ Cardinality(1..n) = n
    BY <1>1, FS_Interval
  <2> HIDE DEF rank
  <2> QED BY <1>4, <2>1, FS_Injection
<1>6. \A k \in 1..n : \E i \in S : rank[i] = k
  BY <1>5 DEF Surjection
<1>7. \A k \in 1..n : Ascending(S)[k] \in S /\ rank[Ascending(S)[k]] = k
  <2> SUFFICES ASSUME NEW k \in 1..n
               PROVE  Ascending(S)[k] \in S /\ rank[Ascending(S)[k]] = k
    OBVIOUS
  <2>1. Ascending(S)[k] = CHOOSE i \in S : Cardinality(Below(i)) = k
    BY DEF Ascending
  <2>2. \E i \in S : Cardinality(Below(i)) = k
    BY <1>6
  <2>3. Ascending(S)[k] \in S /\ Cardinality(Below(Ascending(S)[k])) = k
    BY <2>1, <2>2
  <2> QED BY <2>3
<1>8. DOMAIN Ascending(S) = 1..n /\ Ascending(S) \in [1..n -> S]
  <2> DEFINE nth(k) == CHOOSE i \in S : Cardinality({j \in S : j =< i}) = k
  <2>1. Ascending(S) = [k \in 1..n |-> nth(k)]
    BY DEF Ascending
  <2> HIDE DEF nth
  <2>2. \A k \in 1..n : Ascending(S)[k] = nth(k)
    BY <2>1
  <2> HIDE DEF n, rank
  <2> QED BY <1>7, <2>1, <2>2
<1>9. Ascending(S) \in Seq(S)
  <2> HIDE DEF n, rank
  <2> QED BY <1>1, <1>8, SeqDef
<1>10. \A x \in S : Ascending(S)[rank[x]] = x /\ rank[x] \in 1..n
  <2> SUFFICES ASSUME NEW x \in S PROVE Ascending(S)[rank[x]] = x /\ rank[x] \in 1..n
    OBVIOUS
  <2>1. rank[x] \in 1..n
    BY <1>4 DEF Injection
  <2>2. Ascending(S)[rank[x]] \in S /\ rank[Ascending(S)[rank[x]]] = rank[x]
    BY <1>7, <2>1
  <2> HIDE DEF rank, n
  <2> QED BY <1>4, <2>1, <2>2 DEF Injection, IsInjective
<1>11. ASSUME NEW i \in S, NEW j \in S, i =< j PROVE rank[i] =< rank[j]
  <2>1. CASE i = j
    <3>1. rank[i] \in Nat /\ rank[i] = rank[j]
      BY <1>2, <2>1
    <3> HIDE DEF rank
    <3> QED BY <3>1
  <2>2. CASE i # j
    <3>1. Below(i) \in SUBSET Below(j)
      <4> SUFFICES ASSUME NEW l \in S, l =< i PROVE l =< j
        OBVIOUS
      <4>1. l \in Nat /\ i \in Nat /\ j \in Nat
        OBVIOUS
      <4> QED BY <1>11, <4>1
    <3>2. Cardinality(Below(i)) =< Cardinality(Below(j))
      BY <1>2, <3>1, FS_Subset
    <3> QED BY <3>2
  <2> QED BY <2>1, <2>2
<1>12. ASSUME NEW k \in 1..n, NEW l \in 1..n, k < l PROVE Ascending(S)[k] < Ascending(S)[l]
  <2>1. Ascending(S)[k] \in S /\ Ascending(S)[l] \in S
    BY <1>7
  <2>2. rank[Ascending(S)[k]] = k /\ rank[Ascending(S)[l]] = l
    BY <1>7
  <2>3. ~(Ascending(S)[l] =< Ascending(S)[k])
    <3> SUFFICES ASSUME Ascending(S)[l] =< Ascending(S)[k] PROVE FALSE
      OBVIOUS
    <3>1. rank[Ascending(S)[l]] =< rank[Ascending(S)[k]]
      BY <1>11, <2>1
    <3> HIDE DEF rank, n
    <3> QED BY <1>1, <1>12, <2>2, <3>1
  <2>4. Ascending(S)[k] \in Nat /\ Ascending(S)[l] \in Nat
    BY <2>1
  <2> HIDE DEF rank, n
  <2> QED BY <2>3, <2>4
<1>13. \A k \in 1..n : Ascending(S)[k] \in S /\ Cardinality({j \in S : j =< Ascending(S)[k]}) = k
  BY <1>7
<1>14. \A x \in S : Ascending(S)[Cardinality({j \in S : j =< x})] = x
  BY <1>10
<1>15. \A x \in S : \E k \in DOMAIN Ascending(S) : Ascending(S)[k] = x
  <2> HIDE DEF n, rank
  <2> QED BY <1>8, <1>10
<1> HIDE DEF rank
<1> QED BY <1>8, <1>9, <1>12, <1>13, <1>14, <1>15

(* A set of numbers that goes on from each to the next is all of them. *)
LEMMA GoesOn ==
    ASSUME NEW n \in Nat, NEW T, 0 \in T,
           \A k \in Nat : k < n /\ k \in T => k + 1 \in T
    PROVE  \A k \in 0..n : k \in T
<1> DEFINE S == {k \in 0..n : k \notin T}
<1> SUFFICES ASSUME S # {} PROVE FALSE
  OBVIOUS
<1>0. S \subseteq Nat
  OBVIOUS
<1> HIDE DEF S
<1>1. PICK r \in S : \A q \in S : r =< q
  BY <1>0, LeastExists
<1> USE DEF S
<1>2. r \in 0..n /\ r \notin T /\ r # 0
  BY <1>1
<1>3. r - 1 \in Nat /\ r - 1 < n /\ r - 1 \in T
  BY <1>1, <1>2
<1> QED BY <1>2, <1>3

(* A number that is larger than all of them comes last. *)
LEMMA AscendingGrows ==
    ASSUME NEW S \in SUBSET Nat, IsFiniteSet(S), NEW x \in Nat, \A i \in S : i < x
    PROVE  LET n == Cardinality(S)
               R == S \cup {x} IN
           /\ n \in Nat /\ Cardinality(R) = n + 1
           /\ \A m \in 1..n : Ascending(R)[m] = Ascending(S)[m] /\ Ascending(S)[m] \in S
           /\ Ascending(R)[n + 1] = x
<1> DEFINE n == Cardinality(S)
           R == S \cup {x}
<1>1. n \in Nat /\ x \notin S
  BY FS_CardinalityType
<1>2. IsFiniteSet(R) /\ Cardinality(R) = n + 1 /\ R \in SUBSET Nat
  BY <1>1, FS_AddElement
<1>3. \A y \in S : {j \in R : j =< y} = {j \in S : j =< y}
  OBVIOUS
<1>4. {j \in R : j =< x} = R
  <2>1. \A j \in R : j \in Nat /\ j =< x
    OBVIOUS
  <2> QED BY <2>1
<1>5. ASSUME NEW m \in 1..n PROVE Ascending(R)[m] = Ascending(S)[m] /\ Ascending(S)[m] \in S
  <2>1. Ascending(S)[m] \in S /\ Cardinality({j \in S : j =< Ascending(S)[m]}) = m
    BY AscendingOrders
  <2>2. {j \in R : j =< Ascending(S)[m]} = {j \in S : j =< Ascending(S)[m]}
    BY <1>3, <2>1
  <2>3. Ascending(R)[Cardinality({j \in R : j =< Ascending(S)[m]})] = Ascending(S)[m]
    <3> HIDE DEF R
    <3>1. Ascending(S)[m] \in R
      BY <2>1 DEF R
    <3> QED BY <1>2, <3>1, AscendingOrders
  <2> QED BY <2>1, <2>2, <2>3
<1>6. Ascending(R)[Cardinality({j \in R : j =< x})] = x
  <2>1. x \in R
    OBVIOUS
  <2> HIDE DEF R
  <2> QED BY <1>2, <2>1, AscendingOrders
<1> HIDE DEF R, n
<1> QED BY <1>1, <1>2, <1>4, <1>5, <1>6 DEF R, n

(* The recursive function is the one that is meant: it starts with nothing and scans one more. *)
LEMMA AfterEach ==
    ASSUME NEW text, Len(text) \in Nat
    PROVE  /\ Scanned(text)[0] = NothingScanned
           /\ \A k \in Nat : k < Len(text) =>
                 Scanned(text)[k + 1] = StripStep(Scanned(text)[k], text[k + 1])
<1> DEFINE n == Len(text)
           Is(m, f) == f = [k \in 0..m |->
               IF k = 0 THEN NothingScanned ELSE StripStep(f[k - 1], text[k])]
           Has(m) == \E f : Is(m, f)
           T == {m \in 0..n : Has(m)}
<1>0. n \in Nat
  OBVIOUS
<1>1. 0 \in T
  <2>1. Is(0, [k \in 0..0 |-> NothingScanned])
    OBVIOUS
  <2>2. Has(0)
    BY <2>1
  <2> HIDE DEF Has
  <2> QED BY <2>2, <1>0
<1>2. ASSUME NEW m \in Nat, m < n, m \in T PROVE m + 1 \in T
  <2>1. PICK f : Is(m, f)
    BY <1>2
  <2> DEFINE g == [k \in 0..(m + 1) |-> IF k =< m THEN f[k] ELSE StripStep(f[m], text[m + 1])]
  <2>2. ASSUME NEW k \in 0..(m + 1)
        PROVE  g[k] = IF k = 0 THEN NothingScanned ELSE StripStep(g[k - 1], text[k])
    <3>1. CASE k = 0
      BY <2>1, <3>1
    <3>2. CASE k # 0 /\ k =< m
      <4>1. k - 1 \in 0..m /\ k \in 0..m /\ k - 1 \in 0..(m + 1)
        BY <3>2
      <4>2. g[k] = f[k] /\ g[k - 1] = f[k - 1]
        BY <4>1
      <4> QED BY <2>1, <3>2, <4>1, <4>2
    <3>3. CASE k = m + 1
      <4>1. g[k] = StripStep(f[m], text[m + 1]) /\ g[k - 1] = f[m] /\ k # 0
        BY <3>3
      <4> QED BY <3>3, <4>1
    <3> QED BY <3>1, <3>2, <3>3
  <2>3. Is(m + 1, g)
    BY <2>2
  <2>4. Has(m + 1)
    BY <2>3
  <2> HIDE DEF Has
  <2> QED BY <1>2, <2>4, <1>0
<1> HIDE DEF Is
<1>3. n \in T
  <2> HIDE DEF T, n
  <2>1. \A k \in 0..n : k \in T
    BY <1>0, <1>1, <1>2, GoesOn
  <2>2. n \in 0..n
    BY <1>0
  <2> QED BY <2>1, <2>2
<1>4. PICK f : Is(n, f)
  BY <1>3
<1>5. Scanned(text) = CHOOSE g : Is(n, g)
  BY DEF Scanned, Is
<1>6. Is(n, Scanned(text))
  BY <1>4, <1>5
<1> DEFINE h == Scanned(text)
<1>7. h = [k \in 0..n |-> IF k = 0 THEN NothingScanned ELSE StripStep(h[k - 1], text[k])]
  BY <1>6 DEF Is
<1> HIDE DEF h
<1>8. \A k \in 0..n : h[k] = IF k = 0 THEN NothingScanned ELSE StripStep(h[k - 1], text[k])
  BY <1>7
<1>9. \A k \in Nat : k < n => h[k + 1] = StripStep(h[k], text[k + 1])
  <2> SUFFICES ASSUME NEW k \in Nat, k < n PROVE h[k + 1] = StripStep(h[k], text[k + 1])
    OBVIOUS
  <2>1. k + 1 \in 0..n /\ k + 1 # 0 /\ (k + 1) - 1 = k
    OBVIOUS
  <2>2. h[k + 1] = StripStep(h[(k + 1) - 1], text[k + 1])
    BY <1>8, <2>1, Zenon
  <2> QED BY <2>1, <2>2
<1>10. h[0] = NothingScanned
  BY <1>8
<1> QED BY <1>9, <1>10 DEF h

-----------------------------------------------------------------------------
(* The control sequences of a text: one character. *)

Ats == {"text", "esc", "csi", "osc", "str", "osc esc", "str esc"}
Scans == [at : Ats, kept : Seq(Characters)]

LEMMA IntroducersAre ==
    /\ DOMAIN Introducers = {"CSI", "OSC", "DCS"}
    /\ Introducers["CSI"] = "csi" /\ Introducers["OSC"] = "osc" /\ Introducers["DCS"] = "str"
    /\ Ending["osc"] = "osc esc" /\ Ending["str"] = "str esc"
BY DEF Introducers, Ending

(* In a string, the character after ESC. *)
LEMMA StringMayEnd ==
    ASSUME NEW s \in Scans, NEW c \in Characters, s.at \in {"osc esc", "str esc"}
    PROVE  LET t == StripStep(s, c) IN
           /\ t \in Scans /\ t.kept = s.kept
           /\ t.at = IF c = "\\" \/ (c = "BEL" /\ s.at = "osc esc") THEN "text"
                     ELSE IF c = "ESC" THEN s.at ELSE IF s.at = "osc esc" THEN "osc" ELSE "str"
<1> DEFINE t == StripStep(s, c)
<1>0. ASSUME NEW at \in Ats
      PROVE  /\ [s EXCEPT !.at = at] \in Scans
             /\ [s EXCEPT !.at = at].at = at /\ [s EXCEPT !.at = at].kept = s.kept
  BY DEF Scans
<1>1. t = IF c = "\\" \/ (c = "BEL" /\ s.at = "osc esc") THEN [s EXCEPT !.at = "text"]
          ELSE IF c = "ESC" THEN s
          ELSE [s EXCEPT !.at = IF s.at = "osc esc" THEN "osc" ELSE "str"]
  BY IntroducersAre DEF StripStep
<1>2. "text" \in Ats /\ "osc" \in Ats /\ "str" \in Ats
  BY DEF Ats
<1>3. /\ t \in Scans /\ t.kept = s.kept
      /\ t.at = IF c = "\\" \/ (c = "BEL" /\ s.at = "osc esc") THEN "text"
                ELSE IF c = "ESC" THEN s.at ELSE IF s.at = "osc esc" THEN "osc" ELSE "str"
  <2>1. CASE c = "\\" \/ (c = "BEL" /\ s.at = "osc esc")
    BY <1>0, <1>1, <1>2, <2>1
  <2>2. CASE ~(c = "\\" \/ (c = "BEL" /\ s.at = "osc esc")) /\ c = "ESC"
    BY <1>1, <2>2
  <2>3. CASE ~(c = "\\" \/ (c = "BEL" /\ s.at = "osc esc")) /\ c # "ESC"
    <3>1. CASE s.at = "osc esc"
      BY <1>0, <1>1, <1>2, <2>3, <3>1
    <3>2. CASE s.at # "osc esc"
      <4>1. t = [s EXCEPT !.at = "str"]
        BY <1>1, <2>3, <3>2
      <4>2. t \in Scans /\ t.at = "str" /\ t.kept = s.kept
        BY <1>0, <1>2, <4>1
      <4> QED BY <2>3, <3>2, <4>2
    <3> QED BY <3>1, <3>2
  <2> QED BY <2>1, <2>2, <2>3
<1> QED BY <1>3, IntroducersAre

(* What a character does at each place. *)
LEMMA OneCharacter ==
    ASSUME NEW s \in Scans, NEW c \in Characters
    PROVE  LET t == StripStep(s, c) IN
           /\ t \in Scans
           /\ s.at # "text" \/ Begins(c) => t.kept = s.kept
           /\ s.at = "text" /\ ~Begins(c) => t.at = "text" /\ t.kept = Append(s.kept, c)
           /\ s.at = "text" /\ c = "ESC" => t.at = "esc"
           /\ s.at = "text" /\ c \in DOMAIN Introducers => t.at = Introducers[c]
           /\ s.at = "esc" => t.at = AfterEsc(c)
           /\ s.at = "csi" => t.at = IF c \in Finals THEN "text" ELSE "csi"
           /\ s.at \in {"osc", "str"} =>
                 t.at = IF c = "ESC" THEN Ending[s.at]
                        ELSE IF c = "BEL" /\ s.at = "osc" THEN "text" ELSE s.at
<1> DEFINE t == StripStep(s, c)
<1>0. s.at \in Ats /\ s.kept \in Seq(Characters) /\ s = [at |-> s.at, kept |-> s.kept]
  BY DEF Scans
<1>1. ASSUME NEW at \in Ats
      PROVE  /\ [s EXCEPT !.at = at] \in Scans
             /\ [s EXCEPT !.at = at].at = at /\ [s EXCEPT !.at = at].kept = s.kept
  BY DEF Scans
<1>2. /\ [s EXCEPT !.kept = Append(@, c)] \in Scans
      /\ [s EXCEPT !.kept = Append(@, c)].at = s.at
      /\ [s EXCEPT !.kept = Append(@, c)].kept = Append(s.kept, c)
  <2>1. Append(s.kept, c) \in Seq(Characters)
    BY <1>0
  <2> QED BY <2>1 DEF Scans
<1>3. AfterEsc(c) \in Ats
  BY DEF AfterEsc, Ats
<1>4. CASE s.at = "text"
  <2>1. CASE c = "ESC"
    <3>1. t = [s EXCEPT !.at = "esc"]
      BY <1>4, <2>1, IntroducersAre DEF StripStep
    <3>2. "esc" \in Ats
      BY DEF Ats
    <3>3. t \in Scans /\ t.at = "esc" /\ t.kept = s.kept
      BY <1>1, <3>1, <3>2
    <3> QED BY <1>4, <2>1, <3>3, IntroducersAre DEF Begins
  <2>2. CASE c \in DOMAIN Introducers
    <3>1. c # "ESC" /\ Introducers[c] \in Ats
      BY <2>2, IntroducersAre DEF Ats
    <3>2. t = [s EXCEPT !.at = Introducers[c]]
      BY <1>4, <2>2, <3>1 DEF StripStep
    <3>3. t \in Scans /\ t.at = Introducers[c] /\ t.kept = s.kept
      BY <1>1, <3>1, <3>2
    <3> QED BY <1>4, <2>2, <3>1, <3>3, IntroducersAre DEF Begins
  <2>3. CASE ~Begins(c)
    <3>1. t = [s EXCEPT !.kept = Append(@, c)]
      BY <1>4, <2>3 DEF StripStep, Begins
    <3>2. t \in Scans /\ t.at = "text" /\ t.kept = Append(s.kept, c)
      BY <1>2, <1>4, <3>1
    <3> QED BY <1>4, <2>3, <3>2, IntroducersAre DEF Begins
  <2> QED BY <2>1, <2>2, <2>3 DEF Begins
<1>5. CASE s.at = "esc"
  <2>1. t = [s EXCEPT !.at = AfterEsc(c)]
    BY <1>5 DEF StripStep
  <2>2. t \in Scans /\ t.at = AfterEsc(c) /\ t.kept = s.kept
    BY <1>1, <1>3, <2>1
  <2> QED BY <1>5, <2>2, IntroducersAre
<1>6. CASE s.at = "csi"
  <2>1. t = IF c \in Finals THEN [s EXCEPT !.at = "text"] ELSE s
    BY <1>6 DEF StripStep
  <2>2. "text" \in Ats
    BY DEF Ats
  <2>3. t \in Scans /\ t.at = (IF c \in Finals THEN "text" ELSE "csi") /\ t.kept = s.kept
    BY <1>1, <1>6, <2>1, <2>2
  <2> QED BY <1>6, <2>3, IntroducersAre
<1>7. CASE s.at \in {"osc", "str"}
  <2>1. t = IF c = "ESC" THEN [s EXCEPT !.at = Ending[s.at]]
            ELSE IF c = "BEL" /\ s.at = "osc" THEN [s EXCEPT !.at = "text"] ELSE s
    BY <1>7 DEF StripStep
  <2>2. "text" \in Ats /\ Ending[s.at] \in Ats
    BY <1>7, IntroducersAre DEF Ats
  <2>3. /\ t \in Scans /\ t.kept = s.kept
        /\ t.at = IF c = "ESC" THEN Ending[s.at]
                  ELSE IF c = "BEL" /\ s.at = "osc" THEN "text" ELSE s.at
    BY <1>1, <2>1, <2>2
  <2> QED BY <1>7, <2>3, IntroducersAre
<1>8. CASE s.at \in {"osc esc", "str esc"}
  BY <1>8, StringMayEnd
<1> QED BY <1>0, <1>4, <1>5, <1>6, <1>7, <1>8 DEF Ats

(* Where the scan is after j characters. *)
At(text, j) == Scanned(text)[j].at

LEMMA ScansTyped ==
    ASSUME NEW text \in Seq(Characters)
    PROVE  /\ Scanned(text)[0] = NothingScanned
           /\ \A k \in 0..Len(text) : Scanned(text)[k] \in Scans
           /\ \A k \in Nat : k < Len(text) =>
                 /\ text[k + 1] \in Characters
                 /\ Scanned(text)[k + 1] = StripStep(Scanned(text)[k], text[k + 1])
<1>1. Len(text) \in Nat
  OBVIOUS
<1>2. /\ Scanned(text)[0] = NothingScanned
      /\ \A k \in Nat : k < Len(text) =>
            Scanned(text)[k + 1] = StripStep(Scanned(text)[k], text[k + 1])
  BY <1>1, AfterEach
<1>3. \A k \in Nat : k < Len(text) => text[k + 1] \in Characters
  OBVIOUS
<1> DEFINE T == {k \in 0..Len(text) : Scanned(text)[k] \in Scans}
<1>4. 0 \in T
  <2>1. NothingScanned \in Scans
    BY DEF NothingScanned, Scans, Ats
  <2> QED BY <1>1, <1>2, <2>1
<1>5. ASSUME NEW k \in Nat, k < Len(text), k \in T PROVE k + 1 \in T
  <2>1. PICK s \in Scans : s = Scanned(text)[k]
    BY <1>5
  <2>2. PICK c \in Characters : c = text[k + 1]
    BY <1>3, <1>5
  <2>3. StripStep(s, c) \in Scans
    BY OneCharacter
  <2>4. Scanned(text)[k + 1] = StripStep(s, c)
    BY <1>2, <1>5, <2>1, <2>2
  <2> QED BY <1>1, <1>5, <2>3, <2>4
<1>6. \A k \in 0..Len(text) : k \in T
  <2> HIDE DEF T
  <2> QED BY <1>1, <1>4, <1>5, GoesOn
<1> QED BY <1>2, <1>3, <1>6

(* The place in the sequence that begins at i, after the character at j. *)
Mode(text, i, j) ==
    LET kind == KindAt(text, i) IN
    IF j + 1 < BodyAt(text, i) THEN "esc"
    ELSE IF kind \in {"osc", "str"} /\ j >= BodyAt(text, i) /\ text[j] = "ESC" THEN Ending[kind]
    ELSE kind

(* A sequence begins where its introducer is. *)
LEMMA SequenceBegins ==
    ASSUME NEW text \in Seq(Characters), NEW i \in 1..Len(text), Begins(text[i]),
           At(text, i - 1) = "text"
    PROVE  At(text, i) # "text" /\ ~Closes(text, i, i) /\ At(text, i) = Mode(text, i, i)
<1>1. PICK k \in Nat : k < Len(text) /\ i = k + 1 /\ i - 1 = k
  <2>1. i - 1 \in Nat /\ i - 1 < Len(text) /\ i = (i - 1) + 1
    OBVIOUS
  <2> QED BY <2>1
<1>2. PICK s \in Scans : s = Scanned(text)[k] /\ s.at = "text"
  BY <1>1, ScansTyped DEF At
<1>3. PICK c \in Characters : c = text[i]
  OBVIOUS
<1>4. At(text, i) = IF c = "ESC" THEN "esc" ELSE Introducers[c]
  <2>1. Scanned(text)[i] = StripStep(s, c)
    BY <1>1, <1>2, <1>3, ScansTyped
  <2> QED BY <1>2, <1>3, <2>1, OneCharacter DEF Begins, At
<1>5. CASE c = "ESC"
  <2>1. BodyAt(text, i) = i + 2
    BY <1>3, <1>5 DEF BodyAt
  <2> QED BY <1>3, <1>4, <1>5, <2>1 DEF Closes, Mode
<1>6. CASE c # "ESC"
  <2>1. BodyAt(text, i) = i + 1 /\ KindAt(text, i) = Introducers[c] /\ c \in DOMAIN Introducers
    BY <1>3, <1>6 DEF BodyAt, KindAt, Begins
  <2>2. Introducers[c] \in {"csi", "osc", "str"}
    BY <2>1, IntroducersAre
  <2>3. ~(i >= i + 1) /\ ~(i > i + 1) /\ ~(i + 1 < i + 1)
    OBVIOUS
  <2> QED BY <1>4, <1>6, <2>1, <2>2, <2>3 DEF Closes, Mode
<1> QED BY <1>5, <1>6

(* It goes on until it closes. *)
LEMMA SequenceGoesOn ==
    ASSUME NEW text \in Seq(Characters), NEW i \in 1..Len(text), Begins(text[i]),
           NEW j \in i..(Len(text) - 1), \A m \in i..j : ~Closes(text, i, m),
           At(text, j) = Mode(text, i, j)
    PROVE  /\ At(text, j + 1) = "text" <=> Closes(text, i, j + 1)
           /\ At(text, j + 1) # "text" => At(text, j + 1) = Mode(text, i, j + 1)
<1> DEFINE n == Len(text)
           kind == KindAt(text, i)
           body == BodyAt(text, i)
<1>1. n \in Nat /\ i \in Nat /\ j \in Nat /\ j < n /\ j + 1 \in 1..n /\ j \in i..j /\ j >= i
  OBVIOUS
<1>2. PICK s \in Scans : s = Scanned(text)[j] /\ s.at = At(text, j)
  BY <1>1, ScansTyped DEF At
<1>3. PICK c \in Characters : c = text[j + 1]
  BY <1>1, ScansTyped
<1>4. PICK t : t = StripStep(s, c) /\ t.at = At(text, j + 1)
  BY <1>1, <1>2, <1>3, ScansTyped DEF At
<1>5. body = IF text[i] = "ESC" THEN i + 2 ELSE i + 1
  BY DEF BodyAt
<1>6. kind \in {"text", "csi", "osc", "str", "esc"}
  BY IntroducersAre DEF KindAt, AfterEsc, Begins
<1>7. kind = "esc" => FALSE
  <2>1. i < n
    BY <1>1
  <2> QED BY <2>1, IntroducersAre DEF KindAt, AfterEsc, Begins
<1>8. CASE j + 1 < body
  <2>1. j = i /\ text[i] = "ESC" /\ body = j + 2
    BY <1>1, <1>5, <1>8
  <2>2. kind = AfterEsc(c)
    BY <1>1, <1>3, <2>1 DEF KindAt
  <2>3. s.at = "esc"
    BY <1>2, <1>8 DEF Mode
  <2>4. t.at = kind
    BY <1>4, <2>2, <2>3, OneCharacter
  <2>5. Closes(text, i, j + 1) <=> kind = "text"
    BY <1>1, <1>6, <2>1 DEF Closes
  <2>6. Mode(text, i, j + 1) = kind
    BY <1>1, <2>1 DEF Mode
  <2> QED BY <1>4, <2>4, <2>5, <2>6
<1>9. CASE ~(j + 1 < body)
  <2>1. body \in Nat /\ j + 1 >= body /\ j + 1 > i
    BY <1>1, <1>5, <1>9
  <2>2. kind # "text"
    <3>1. SUFFICES ASSUME kind = "text" PROVE FALSE
      OBVIOUS
    <3>2. text[i] = "ESC"
      BY <3>1, IntroducersAre DEF KindAt, Begins
    <3>3. i + 1 \in i..j
      BY <1>1, <1>5, <1>9, <3>2
    <3>4. Closes(text, i, i + 1)
      BY <3>1 DEF Closes
    <3> QED BY <3>3, <3>4
  <2>3. ~(j + 1 + 1 < body)
    BY <1>1, <2>1
  <2>4. CASE kind = "csi"
    <3>1. s.at = "csi"
      BY <1>2, <1>9, <2>4 DEF Mode
    <3>2. t.at = IF c \in Finals THEN "text" ELSE "csi"
      BY <1>4, <3>1, OneCharacter
    <3>3. Closes(text, i, j + 1) <=> c \in Finals
      BY <1>3, <2>1, <2>4 DEF Closes
    <3>4. Mode(text, i, j + 1) = "csi"
      BY <2>3, <2>4 DEF Mode
    <3> QED BY <1>4, <3>2, <3>3, <3>4
  <2>5. CASE kind \in {"osc", "str"}
    <3>1. Closes(text, i, j + 1) <=>
             \/ j >= body /\ text[j] = "ESC" /\ c = "\\"
             \/ kind = "osc" /\ c = "BEL"
      <4>1. j + 1 > body <=> j >= body
        BY <1>1, <2>1
      <4>2. (j + 1) - 1 = j
        BY <1>1
      <4>3. Closes(text, i, j + 1) <=>
               \/ j + 1 > body /\ text[(j + 1) - 1] = "ESC" /\ text[j + 1] = "\\"
               \/ kind = "osc" /\ j + 1 >= body /\ text[j + 1] = "BEL"
        BY <2>5 DEF Closes
      <4> QED BY <1>3, <2>1, <4>1, <4>2, <4>3
    <3>2. Mode(text, i, j + 1) = IF c = "ESC" THEN Ending[kind] ELSE kind
      BY <1>3, <2>1, <2>3, <2>5 DEF Mode
    <3>3. CASE j >= body /\ text[j] = "ESC"
      <4>1. s.at = Ending[kind]
        BY <1>2, <1>9, <2>5, <3>3 DEF Mode
      <4>2. t.at = IF c = "\\" \/ (c = "BEL" /\ kind = "osc") THEN "text"
                   ELSE IF c = "ESC" THEN Ending[kind] ELSE kind
        <5>1. s.at \in {"osc esc", "str esc"}
          BY <2>5, <4>1, IntroducersAre
        <5>2. t.at = IF c = "\\" \/ (c = "BEL" /\ s.at = "osc esc") THEN "text"
                     ELSE IF c = "ESC" THEN s.at ELSE IF s.at = "osc esc" THEN "osc" ELSE "str"
          BY <1>4, <5>1, StringMayEnd
        <5> QED BY <2>5, <4>1, <5>2, IntroducersAre
      <4> QED BY <1>4, <2>5, <3>1, <3>2, <3>3, <4>2, IntroducersAre
    <3>4. CASE ~(j >= body /\ text[j] = "ESC")
      <4>1. s.at = kind
        BY <1>2, <1>9, <2>5, <3>4 DEF Mode
      <4>2. t.at = IF c = "ESC" THEN Ending[kind]
                   ELSE IF c = "BEL" /\ kind = "osc" THEN "text" ELSE kind
        <5>1. s.at \in {"osc", "str"}
          BY <2>5, <4>1
        <5>2. t.at = IF c = "ESC" THEN Ending[s.at]
                     ELSE IF c = "BEL" /\ s.at = "osc" THEN "text" ELSE s.at
          BY <1>4, <5>1, OneCharacter
        <5> QED BY <4>1, <5>2
      <4> QED BY <1>4, <2>5, <3>1, <3>2, <3>4, <4>2, IntroducersAre
    <3> QED BY <3>3, <3>4
  <2> QED BY <1>6, <1>7, <2>2, <2>4, <2>5
<1> QED BY <1>8, <1>9

-----------------------------------------------------------------------------
(* The control sequences of a text: its parts. *)

(* As long as it has not closed, the scan is inside the sequence. *)
LEMMA InsideSequence ==
    ASSUME NEW text \in Seq(Characters), NEW i \in 1..Len(text), Begins(text[i]),
           At(text, i - 1) = "text",
           NEW j \in i..Len(text), \A m \in i..(j - 1) : ~Closes(text, i, m)
    PROVE  At(text, j) = "text" <=> Closes(text, i, j)
<1> DEFINE n == j - i
           T == {k \in 0..n : \/ Closes(text, i, i + k)
                              \/ At(text, i + k) # "text" /\ At(text, i + k) = Mode(text, i, i + k)}
<1>0. n \in Nat /\ i \in Nat /\ j \in Nat /\ i + n = j
  OBVIOUS
<1>1. At(text, i) # "text" /\ ~Closes(text, i, i) /\ At(text, i) = Mode(text, i, i)
  BY SequenceBegins
<1>2. 0 \in T
  BY <1>0, <1>1
<1>3. ASSUME NEW k \in Nat, k < n, k \in T
      PROVE  /\ At(text, i + k + 1) = "text" <=> Closes(text, i, i + k + 1)
             /\ k + 1 \in T
  <2>1. i + k \in i..(Len(text) - 1) /\ i + k \in i..(j - 1) /\ i + (k + 1) = i + k + 1
    BY <1>0, <1>3
  <2>2. \A m \in i..(i + k) : ~Closes(text, i, m)
    BY <1>0, <2>1
  <2>3. At(text, i + k) = Mode(text, i, i + k)
    BY <1>3, <2>1
  <2>4. /\ At(text, i + k + 1) = "text" <=> Closes(text, i, i + k + 1)
        /\ At(text, i + k + 1) # "text" => At(text, i + k + 1) = Mode(text, i, i + k + 1)
    BY <2>1, <2>2, <2>3, SequenceGoesOn
  <2> QED BY <1>0, <1>3, <2>1, <2>4
<1>4. \A k \in 0..n : k \in T
  <2> HIDE DEF T, n
  <2> QED BY <1>0, <1>2, <1>3, GoesOn
<1>5. CASE n = 0
  BY <1>0, <1>1, <1>5
<1>6. CASE n # 0
  <2>1. n - 1 \in Nat /\ n - 1 < n /\ n - 1 \in 0..n /\ i + (n - 1) + 1 = j
    BY <1>0, <1>6
  <2>2. n - 1 \in T
    BY <1>4, <2>1
  <2> HIDE DEF T
  <2> QED BY <1>3, <2>1, <2>2
<1> QED BY <1>5, <1>6

(* And a character between sequences leaves it there. *)
LEMMA PlainStays ==
    ASSUME NEW text \in Seq(Characters), NEW i \in 1..Len(text), ~Begins(text[i]),
           At(text, i - 1) = "text"
    PROVE  At(text, i) = "text"
<1>1. PICK k \in Nat : k < Len(text) /\ i = k + 1 /\ i - 1 = k
  <2>1. i - 1 \in Nat /\ i - 1 < Len(text) /\ i = (i - 1) + 1
    OBVIOUS
  <2> QED BY <2>1
<1>2. PICK s \in Scans : s = Scanned(text)[k] /\ s.at = "text"
  BY <1>1, ScansTyped DEF At
<1>3. PICK c \in Characters : c = text[i]
  OBVIOUS
<1>4. Scanned(text)[i] = StripStep(s, c)
  BY <1>1, <1>2, <1>3, ScansTyped
<1> QED BY <1>2, <1>3, <1>4, OneCharacter DEF At

(* Where the scan is between sequences. *)
Starts(text) == {i \in DOMAIN text : At(text, i - 1) = "text"}

LEMMA AtFirst ==
    ASSUME NEW text \in Seq(Characters), text # <<>>
    PROVE  1 \in Starts(text)
<1>1. 1 \in DOMAIN text /\ 1 - 1 = 0
  OBVIOUS
<1>2. At(text, 0) = "text"
  BY ScansTyped DEF At, NothingScanned
<1> QED BY <1>1, <1>2 DEF Starts

(* The parts between them are characters and sequences. *)
LEMMA StartsFit ==
    ASSUME NEW text \in Seq(Characters)
    PROVE  FallsInto(text, Starts(text))
<1> DEFINE n == Len(text)
<1>0. n \in Nat
  OBVIOUS
<1>d. DOMAIN text = 1..n
  OBVIOUS
<1> HIDE DEF n
<1>1. ASSUME NEW i \in 1..n, NEW j \in 1..n, IsPart(text, Starts(text), i, j)
      PROVE  IF Begins(text[i])
             THEN /\ \A m \in i..(j - 1) : ~Closes(text, i, m)
                  /\ Closes(text, i, j) \/ j = n
             ELSE j = i
  <2>1. /\ i =< j /\ At(text, i - 1) = "text" /\ (j = n \/ j + 1 \in Starts(text))
        /\ \A m \in (i + 1)..j : m \notin Starts(text)
    BY <1>1 DEF IsPart, Starts, n
  <2>2. ASSUME NEW m \in i..(j - 1) PROVE At(text, m) # "text"
    <3>1. m + 1 \in (i + 1)..j /\ m + 1 \in 1..n /\ (m + 1) - 1 = m
      BY <1>0
    <3>2. m + 1 \notin Starts(text)
      BY <2>1, <3>1
    <3> QED BY <1>d, <3>1, <3>2 DEF Starts
  <2>3. j # n => At(text, j) = "text"
    <3>1. SUFFICES ASSUME j # n PROVE At(text, j) = "text"
      OBVIOUS
    <3>2. j + 1 \in Starts(text) /\ (j + 1) - 1 = j
      BY <1>0, <2>1, <3>1
    <3> QED BY <3>2 DEF Starts
  <2>4. CASE ~Begins(text[i])
    <3>1. At(text, i) = "text"
      BY <2>1, <2>4, PlainStays DEF n
    <3>2. i # j => i \in i..(j - 1)
      BY <1>0, <2>1
    <3> QED BY <2>2, <2>4, <3>1, <3>2
  <2>5. CASE Begins(text[i])
    <3>1. \A m \in i..(j - 1) : ~Closes(text, i, m)
      <4> DEFINE T == {m \in i..(j - 1) : Closes(text, i, m)}
      <4>1. SUFFICES ASSUME T # {} PROVE FALSE
        OBVIOUS
      <4>2. T \subseteq Nat
        BY <1>0
      <4>3. PICK r \in T : \A q \in T : r =< q
        <5> HIDE DEF T
        <5> QED BY <4>1, <4>2, LeastExists
      <4>4. r \in i..(j - 1) /\ r \in i..n /\ Closes(text, i, r)
        BY <1>0
      <4>5. ASSUME NEW m \in i..(r - 1) PROVE ~Closes(text, i, m)
        <5>1. m \in i..(j - 1) /\ ~(r =< m)
          BY <1>0, <4>4
        <5> QED BY <4>3, <5>1
      <4>6. At(text, r) = "text"
        BY <2>1, <2>5, <4>4, <4>5, InsideSequence DEF n
      <4> QED BY <2>2, <4>4, <4>6
    <3>2. j \in i..n
      BY <1>0, <2>1
    <3>3. At(text, j) = "text" <=> Closes(text, i, j)
      BY <2>1, <2>5, <3>1, <3>2, InsideSequence DEF n
    <3> QED BY <2>3, <2>5, <3>1, <3>3
  <2> QED BY <2>4, <2>5
<1>2. text # <<>> => 1 \in Starts(text)
  BY AtFirst
<1>3. \A i, j \in DOMAIN text : IsPart(text, Starts(text), i, j) =>
         IF Begins(text[i])
         THEN /\ \A m \in i..(j - 1) : ~Closes(text, i, m)
              /\ Closes(text, i, j) \/ j = n
         ELSE j = i
  BY <1>d, <1>1
<1> QED BY <1>2, <1>3 DEF FallsInto, n

(* The last of some places before one of them. *)
LEMMA LastBefore ==
    ASSUME NEW cuts \in SUBSET Nat, NEW k \in Nat, NEW first \in cuts, first < k
    PROVE  \E i \in cuts : i < k /\ \A m \in (i + 1)..(k - 1) : m \notin cuts
<1> DEFINE T == {k - i : i \in {c \in cuts : c < k}}
<1>1. T \subseteq Nat /\ T # {}
  <2>1. \A i \in cuts : i \in Nat
    OBVIOUS
  <2>2. \A i \in cuts : i < k => k - i \in Nat
    BY <2>1
  <2> QED BY <2>2
<1>2. PICK r \in T : \A q \in T : r =< q
  <2> HIDE DEF T
  <2> QED BY <1>1, LeastExists
<1>3. PICK i \in cuts : i < k /\ r = k - i
  BY <1>2
<1>4. ASSUME NEW m \in cuts, m \in (i + 1)..(k - 1) PROVE FALSE
  <2>1. m \in Nat /\ i \in Nat /\ m > i /\ m < k
    BY <1>4
  <2>2. k - m \in T
    BY <2>1
  <2>3. k - i =< k - m
    BY <1>2, <1>3, <2>2
  <2> QED BY <2>1, <2>3
<1> QED BY <1>3, <1>4

(* There is no other way to take the text apart. *)
LEMMA OnlyStartsFit ==
    ASSUME NEW text \in Seq(Characters), NEW cuts \in SUBSET DOMAIN text, FallsInto(text, cuts)
    PROVE  cuts = Starts(text)
<1> DEFINE n == Len(text)
           Wrong == {k \in 1..n : ~(k \in cuts <=> k \in Starts(text))}
<1>0. n \in Nat /\ cuts \in SUBSET Nat /\ cuts \subseteq 1..n
  OBVIOUS
<1>d. DOMAIN text = 1..n /\ (1..n # {} => text # <<>>)
  OBVIOUS
<1> HIDE DEF n
<1>1. SUFFICES ASSUME Wrong # {} PROVE FALSE
  <2>1. Starts(text) \subseteq 1..n
    BY <1>d DEF Starts
  <2> QED BY <1>0, <2>1
<1>2. Wrong \subseteq Nat
  BY <1>0
<1>3. PICK k \in Wrong : \A q \in Wrong : k =< q
  <2> HIDE DEF Wrong
  <2> QED BY <1>1, <1>2, LeastExists
<1>4. k \in 1..n /\ ~(k \in cuts <=> k \in Starts(text)) /\ text # <<>>
  BY <1>d, <1>3
<1>5. 1 \in cuts /\ 1 \in Starts(text)
  BY <1>4, AtFirst DEF FallsInto
<1>6. 1 < k
  BY <1>0, <1>4, <1>5
<1>7. PICK i \in cuts : i < k /\ \A m \in (i + 1)..(k - 1) : m \notin cuts
  <2>1. k \in Nat
    BY <1>0, <1>4
  <2> QED BY <1>0, <1>5, <1>6, <2>1, LastBefore
<1>8. i \in 1..n /\ At(text, i - 1) = "text"
  <2>1. i \in 1..n /\ ~(k =< i)
    BY <1>0, <1>4, <1>7
  <2>2. i \in Starts(text)
    BY <1>3, <1>7, <2>1
  <2> QED BY <2>1, <2>2 DEF Starts
<1>9. k \in Starts(text) <=> At(text, k - 1) = "text"
  BY <1>d, <1>4 DEF Starts
<1>10. k - 1 \in 1..n /\ k - 1 \in i..n /\ (k - 1) + 1 = k
  BY <1>0, <1>4, <1>6, <1>7, <1>8
<1>11. ASSUME NEW j \in 1..n, IsPart(text, cuts, i, j)
       PROVE  IF Begins(text[i])
              THEN /\ \A m \in i..(j - 1) : ~Closes(text, i, m)
                   /\ Closes(text, i, j) \/ j = n
              ELSE j = i
  BY <1>d, <1>8, <1>11 DEF FallsInto, n
<1>12. CASE k \in cuts
  <2>1. IsPart(text, cuts, i, k - 1) /\ k - 1 # n
    BY <1>0, <1>4, <1>7, <1>10, <1>12 DEF IsPart, n
  <2>2. CASE ~Begins(text[i])
    <3>1. k - 1 = i
      BY <1>10, <1>11, <2>1, <2>2
    <3>2. At(text, i) = "text"
      BY <1>8, <2>2, PlainStays DEF n
    <3> QED BY <1>4, <1>9, <1>12, <3>1, <3>2
  <2>3. CASE Begins(text[i])
    <3>1. Closes(text, i, k - 1) /\ \A m \in i..((k - 1) - 1) : ~Closes(text, i, m)
      BY <1>10, <1>11, <2>1, <2>3
    <3>2. At(text, k - 1) = "text"
      BY <1>8, <1>10, <2>3, <3>1, InsideSequence DEF n
    <3> QED BY <1>4, <1>9, <1>12, <3>2
  <2> QED BY <2>2, <2>3
<1>13. CASE k \notin cuts
  <2>1. PICK j \in k..n : IsPart(text, cuts, i, j)
    <3> DEFINE Ends == {j \in k..n : j = n \/ j + 1 \in cuts}
    <3>1. Ends \subseteq Nat /\ Ends # {}
      <4>1. n \in k..n
        BY <1>0, <1>4
      <4> QED BY <1>0, <1>4, <4>1
    <3>2. PICK j \in Ends : \A q \in Ends : j =< q
      <4> HIDE DEF Ends
      <4> QED BY <3>1, LeastExists
    <3>3. j \in k..n /\ (j = n \/ j + 1 \in cuts) /\ i =< j /\ j \in Nat
      BY <1>0, <1>4, <1>7, <1>8, <3>2
    <3>4. ASSUME NEW m \in cuts, m \in (i + 1)..j PROVE FALSE
      <4>1. m \in Nat /\ m # k /\ ~(m \in (i + 1)..(k - 1))
        BY <1>0, <1>7, <1>13, <3>4
      <4>2. m > k /\ m =< j
        BY <1>0, <1>4, <1>8, <3>4, <4>1
      <4>3. m - 1 \in k..n /\ (m - 1) + 1 \in cuts
        BY <1>0, <1>4, <3>3, <4>1, <4>2
      <4>4. j =< m - 1
        BY <3>2, <4>3
      <4> QED BY <3>3, <4>1, <4>2, <4>4
    <3> QED BY <1>7, <3>3, <3>4 DEF IsPart, n
  <2>2. j \in 1..n /\ j # i /\ k - 1 \in i..(j - 1) /\ \A m \in i..((k - 1) - 1) : m \in i..(j - 1)
    BY <1>0, <1>4, <1>7, <1>8, <2>1
  <2>3. Begins(text[i])
    BY <1>11, <2>1, <2>2
  <2>4. ~Closes(text, i, k - 1) /\ \A m \in i..((k - 1) - 1) : ~Closes(text, i, m)
    BY <1>11, <2>1, <2>2, <2>3
  <2>5. At(text, k - 1) # "text"
    BY <1>8, <1>10, <2>3, <2>4, InsideSequence DEF n
  <2> QED BY <1>4, <1>9, <1>13, <2>5
<1> QED BY <1>12, <1>13

(* What the scan has kept is what is outside of the sequences. *)
LEMMA KeepsOutside ==
    ASSUME NEW text \in Seq(Characters)
    PROVE  Strip(text) = Outside(text, Starts(text))
<1> DEFINE n == Len(text)
           S(k) == {i \in 1..k : At(text, i - 1) = "text" /\ ~Begins(text[i])}
           T == {k \in 0..n : Scanned(text)[k].kept = Picked(text, S(k))}
<1>0. n \in Nat
  OBVIOUS
<1>1. ASSUME NEW k \in Nat, k =< n
      PROVE  S(k) \in SUBSET Nat /\ S(k) \subseteq 1..k /\ IsFiniteSet(S(k))
  <2>1. IsFiniteSet(1..k)
    BY FS_Interval
  <2>2. S(k) \subseteq 1..k /\ S(k) \in SUBSET Nat
    OBVIOUS
  <2> QED BY <2>1, <2>2, FS_Subset
<1>2. 0 \in T
  <2>1. S(0) = {}
    OBVIOUS
  <2>2. Picked(text, {}) = <<>>
    <3>1. Cardinality({}) = 0
      BY FS_EmptySet
    <3> QED BY <3>1 DEF Picked
  <2>3. Scanned(text)[0].kept = <<>>
    BY ScansTyped DEF NothingScanned
  <2> QED BY <1>0, <2>1, <2>2, <2>3
<1>3. ASSUME NEW k \in Nat, k < n, k \in T PROVE k + 1 \in T
  <2>1. PICK s \in Scans : s = Scanned(text)[k] /\ s.kept = Picked(text, S(k))
    BY <1>0, <1>3, ScansTyped
  <2>2. PICK c \in Characters : c = text[k + 1]
    BY <1>3, ScansTyped
  <2>3. Scanned(text)[k + 1] = StripStep(s, c)
    BY <1>3, <2>1, <2>2, ScansTyped
  <2>4. s.at = At(text, k) /\ (k + 1) - 1 = k
    BY <2>1 DEF At
  <2>5. CASE s.at = "text" /\ ~Begins(c)
    <3>0. StripStep(s, c).kept = Append(s.kept, c)
      BY <2>5, OneCharacter
    <3>1. Scanned(text)[k + 1].kept = Append(Picked(text, S(k)), c)
      <4> HIDE DEF S
      <4> QED BY <2>1, <2>3, <3>0
    <3>2. S(k + 1) = S(k) \cup {k + 1}
      <4>1. \A i : i \in 1..(k + 1) <=> i \in 1..k \/ i = k + 1
        BY <1>3
      <4> QED BY <2>2, <2>4, <2>5, <4>1
    <3> DEFINE P == S(k)
               R == S(k + 1)
    <3>3. P \in SUBSET Nat /\ IsFiniteSet(P) /\ \A i \in P : i < k + 1
      BY <1>1, <1>3
    <3>4. R = P \cup {k + 1} /\ k + 1 \in Nat
      BY <3>2
    <3>5. Append(Picked(text, P), text[k + 1]) = Picked(text, R)
      <4> HIDE DEF P, R
      <4>1. PICK m : m = Cardinality(P)
        OBVIOUS
      <4>2. /\ m \in Nat /\ Cardinality(R) = m + 1
            /\ \A i \in 1..m : Ascending(R)[i] = Ascending(P)[i]
            /\ Ascending(R)[m + 1] = k + 1
        <5>1. PICK x \in Nat : x = k + 1
          BY <3>4
        <5>2. /\ m \in Nat /\ Cardinality(P \cup {x}) = m + 1
              /\ \A i \in 1..m : Ascending(P \cup {x})[i] = Ascending(P)[i]
              /\ Ascending(P \cup {x})[m + 1] = x
          BY <3>3, <4>1, <5>1, AscendingGrows
        <5> QED BY <3>4, <5>1, <5>2
      <4>3. Picked(text, P) = [i \in 1..m |-> text[Ascending(P)[i]]]
        BY <4>1 DEF Picked
      <4>4. Picked(text, R) = [i \in 1..(m + 1) |-> text[Ascending(R)[i]]]
        BY <4>2 DEF Picked
      <4>5. \A i \in 1..m : text[Ascending(R)[i]] = text[Ascending(P)[i]]
        BY <4>2
      <4>6. Append(Picked(text, P), text[k + 1]) =
               [i \in 1..(m + 1) |-> IF i = m + 1 THEN text[k + 1] ELSE text[Ascending(P)[i]]]
        BY <4>2, <4>3
      <4>7. \A i \in 1..(m + 1) : (IF i = m + 1 THEN text[k + 1] ELSE text[Ascending(P)[i]])
                                   = text[Ascending(R)[i]]
        BY <4>2, <4>5
      <4> QED BY <4>4, <4>6, <4>7
    <3> HIDE DEF S
    <3> QED BY <1>0, <1>3, <2>2, <3>1, <3>5
  <2>6. CASE ~(s.at = "text" /\ ~Begins(c))
    <3>1. Scanned(text)[k + 1].kept = s.kept
      BY <2>3, <2>6, OneCharacter
    <3>2. S(k + 1) = S(k)
      <4>1. \A i : i \in 1..(k + 1) <=> i \in 1..k \/ i = k + 1
        BY <1>3
      <4> QED BY <2>2, <2>4, <2>6, <4>1
    <3> HIDE DEF S
    <3> QED BY <1>0, <1>3, <2>1, <3>1, <3>2
  <2> QED BY <2>5, <2>6
<1>4. \A k \in 0..n : k \in T
  <2> HIDE DEF T
  <2> QED BY <1>0, <1>2, <1>3, GoesOn
<1>5. Scanned(text)[n].kept = Picked(text, S(n))
  BY <1>0, <1>4
<1>6. S(n) = {i \in Starts(text) : ~Begins(text[i])}
  BY DEF Starts
<1> QED BY <1>5, <1>6 DEF Strip, Outside

(***************************************************************************)
(* What is typed or queued of a message of any length is what stands       *)
(* outside of its control sequences, and there is one way to tell which    *)
(* those are (msg.rs, strip_escape_sequences).                             *)
(***************************************************************************)
THEOREM TextsArePlain == \A text \in Seq(Characters) : IsPlain(text)
<1> SUFFICES ASSUME NEW text \in Seq(Characters) PROVE IsPlain(text)
  OBVIOUS
<1>1. Starts(text) \in SUBSET DOMAIN text
  BY DEF Starts
<1>2. {c \in SUBSET DOMAIN text : FallsInto(text, c)} = {Starts(text)}
  BY <1>1, StartsFit, OnlyStartsFit
<1> QED BY <1>2, KeepsOutside DEF IsPlain

-----------------------------------------------------------------------------
(* The answers of Herdr. *)

LEMMA RequestSucceeds ==
    ASSUME NEW verb, NEW process, Request(verb, process).is = "ok"
    PROVE  /\ process.started /\ process.exit = 0
           /\ verb \notin Unread => process.out.form = "result"
<1>1. Invoke(process).is = "ok" =>
         process.started /\ process.exit = 0 /\ Invoke(process) = Ok(process.out)
  BY DEF Invoke, Ok, SpawnError, CommandError
<1>2. /\ Invoke(process).is = "ok"
      /\ verb \notin Unread => OfKind(Invoke(process).value, Kinds[verb])
  BY DEF Request, InvalidResponse
<1>3. Ok(process.out).value = process.out
  BY DEF Ok
<1> QED BY <1>1, <1>2, <1>3 DEF OfKind

(* A wait that has reached the status was told so of this pane, and one that was told so has. *)
LEMMA WaitIsTold ==
    ASSUME NEW process \in Processes
    PROVE  LET answer == AgentWait(Asked, "working", process) IN
           /\ answer.is = "ok" => TimedOut(answer) \/ SaysWorking(process)
           /\ SaysWorking(process) => answer.is = "ok" /\ ~TimedOut(answer)
<1> DEFINE answer == AgentWait(Asked, "working", process)
           out == process.out
<1>1. CASE ~process.started
  <2>1. Invoke(process) = SpawnError
    BY <1>1 DEF Invoke
  <2>2. answer = SpawnError
    BY <2>1 DEF AgentWait, SpawnError
  <2> QED BY <1>1, <2>2 DEF SpawnError, SaysWorking
<1>2. CASE process.started /\ process.exit # 0
  <2>1. Invoke(process) = CommandError(process.exit)
    BY <1>2 DEF Invoke
  <2>2. answer = Ok("timed out") \/ answer = CommandError(process.exit)
    BY <2>1 DEF AgentWait, CommandError
  <2>3. ~SaysWorking(process)
    BY <1>2 DEF SaysWorking
  <2>4. TimedOut(Ok("timed out")) /\ CommandError(process.exit).is # "ok"
    BY DEF Ok, CommandError, TimedOut
  <2> HIDE DEF answer
  <2>5. answer.is = "ok" => TimedOut(answer)
    BY <2>2, <2>4
  <2> QED BY <2>3, <2>5 DEF answer
<1>3. CASE process.started /\ process.exit = 0
  <2>1. Invoke(process) = Ok(out)
    BY <1>3 DEF Invoke
  <2>2. answer = IF out.form \in {"result", "event"} /\ Matches(out, Asked, "working")
                 THEN Ok("reached") ELSE InvalidResponse
    BY <2>1 DEF AgentWait, Ok
  <2>3. out.form \in {"result", "event"} /\ Matches(out, Asked, "working") <=> SaysWorking(process)
    <3>1. process \in {Ended(0, o) : o \in Outputs}
      BY <1>3, ClientAssumption DEF Processes, NotStarted, Ended
    <3>2. PICK o \in Outputs : o = out
      BY <3>1 DEF Ended
    <3>3. CASE o = NoJson
      BY <3>2, <3>3 DEF NoJson, SaysWorking
    <3>4. CASE o \in {Result(k, p, s) : k \in {"agent_info", "pane_info"}, p \in Objects, s \in Statuses}
      <4>1. PICK k \in {"agent_info", "pane_info"}, p \in Objects, s \in Statuses : o = Result(k, p, s)
        BY <3>4
      <4>2. out.form = "result" /\ out.kind = k /\ out.pane = p /\ out.status = s
        BY <3>2, <4>1 DEF Result
      <4> QED BY <1>3, <4>2 DEF SaysWorking, Matches, OfKind
    <3>5. CASE o \in {Event(e, k, p, s) : e \in {"pane.agent_status_changed", "pane.exited"},
                             k \in {Unset, "pane_agent_status_changed", "pane_exited"},
                             p \in Objects, s \in Statuses}
      <4>1. PICK e \in {"pane.agent_status_changed", "pane.exited"},
                 k \in {Unset, "pane_agent_status_changed", "pane_exited"},
                 p \in Objects, s \in Statuses : o = Event(e, k, p, s)
        BY <3>5
      <4>2. /\ out.form = "event" /\ out.event = e /\ out.kind = k /\ out.pane = p
            /\ out.status = s
        BY <3>2, <4>1 DEF Event
      <4>3. k # "pane_exited" <=> k \in {Unset, "pane_agent_status_changed"}
        BY ClientAssumption
      <4> QED BY <1>3, <4>2, <4>3 DEF SaysWorking, Matches, OfKind
    <3> QED BY <3>2, <3>3, <3>4, <3>5 DEF Outputs
  <2>4. Ok("reached").is = "ok" /\ ~TimedOut(Ok("reached")) /\ InvalidResponse.is # "ok"
    BY DEF Ok, TimedOut, InvalidResponse
  <2> QED BY <2>2, <2>3, <2>4
<1>4. process.started = TRUE \/ process.started = FALSE
  <2>1. NotStarted.started = FALSE /\ \A exit, o : Ended(exit, o).started = TRUE
    BY DEF NotStarted, Ended
  <2>2. process = NotStarted \/ \E exit, o : process = Ended(exit, o)
    BY DEF Processes
  <2> QED BY <2>1, <2>2
<1> HIDE DEF answer
<1> QED BY <1>1, <1>2, <1>3, <1>4 DEF answer

LEMMA DeliveriesAreForUs ==
    ASSUME NEW verify \in BOOLEAN, NEW t, NEW e, NEW g \in Processes, NEW w \in Processes
    PROVE  LET d == DeliverMessage(verify, <<t, g, e, w>>) IN
           /\ d.texts =< 1 /\ d.enters =< d.texts
           /\ d.told.is = "ok" => d.texts = 1 /\ (verify => SaysWorking(g) \/ SaysWorking(w))
           /\ d.enters = 1 => verify /\ ~SaysWorking(g)
           /\ verify /\ d.texts = 1 /\ SaysWorking(g) => d.told.is = "ok"
<1> DEFINE d == DeliverMessage(verify, <<t, g, e, w>>)
<1>1. PICK text : text = Request("pane_run", t)
  OBVIOUS
<1>2. PICK enter : enter = Request("pane_run", e)
  OBVIOUS
<1>3. PICK grace : /\ grace = AgentWait(Asked, "working", g)
                   /\ grace.is = "ok" => TimedOut(grace) \/ SaysWorking(g)
                   /\ SaysWorking(g) => grace.is = "ok" /\ ~TimedOut(grace)
  BY WaitIsTold
<1>4. PICK second : /\ second = AgentWait(Asked, "working", w)
                    /\ second.is = "ok" => TimedOut(second) \/ SaysWorking(w)
  BY WaitIsTold
<1>5. d = IF text.is # "ok" THEN Told(text, 0, 0)
          ELSE IF ~verify THEN Told(text, 1, 0)
          ELSE IF ~TimedOut(grace) THEN Told(grace, 1, 0)
          ELSE IF enter.is # "ok" THEN Told(enter, 1, 0)
          ELSE IF ~TimedOut(second) THEN Told(second, 1, 1)
          ELSE Told(SubmissionTimeout, 1, 1)
  BY <1>1, <1>2, <1>3, <1>4 DEF DeliverMessage
<1>6. \A told, texts, enters : /\ Told(told, texts, enters).told = told
                               /\ Told(told, texts, enters).texts = texts
                               /\ Told(told, texts, enters).enters = enters
  BY DEF Told
<1>7. SubmissionTimeout.is # "ok"
  BY DEF SubmissionTimeout
<1> HIDE DEF d
<1>8. CASE text.is # "ok"
  <2>1. d.told = text /\ d.texts = 0 /\ d.enters = 0
    BY <1>5, <1>6, <1>8
  <2> QED BY <1>8, <2>1 DEF d
<1>9. CASE text.is = "ok" /\ ~verify
  <2>1. d.told = text /\ d.texts = 1 /\ d.enters = 0
    BY <1>5, <1>6, <1>9
  <2> QED BY <1>9, <2>1 DEF d
<1>10. CASE text.is = "ok" /\ verify /\ ~TimedOut(grace)
  <2>1. d.told = grace /\ d.texts = 1 /\ d.enters = 0
    BY <1>5, <1>6, <1>10
  <2>2. d.texts =< 1 /\ d.enters =< d.texts /\ d.enters # 1
    BY <2>1
  <2>3. d.told.is = "ok" <=> SaysWorking(g)
    BY <1>3, <1>10, <2>1
  <2> QED BY <2>1, <2>2, <2>3, Zenon DEF d
<1>11. CASE text.is = "ok" /\ verify /\ TimedOut(grace)
  <2>1. ~SaysWorking(g)
    BY <1>3, <1>11
  <2>2. CASE enter.is # "ok"
    <3>1. d.told = enter /\ d.texts = 1 /\ d.enters = 0
      BY <1>5, <1>6, <1>11, <2>2
    <3>2. d.texts =< 1 /\ d.enters =< d.texts /\ d.enters # 1 /\ d.told.is # "ok"
      BY <2>2, <3>1
    <3> QED BY <2>1, <3>2, Zenon DEF d
  <2>3. CASE enter.is = "ok" /\ ~TimedOut(second)
    <3>1. d.told = second /\ d.texts = 1 /\ d.enters = 1
      BY <1>5, <1>6, <1>11, <2>3
    <3>2. d.texts =< 1 /\ d.enters =< d.texts
      BY <3>1
    <3>3. d.told.is = "ok" => SaysWorking(w)
      BY <1>4, <2>3, <3>1
    <3> QED BY <1>11, <2>1, <3>1, <3>2, <3>3, Zenon DEF d
  <2>4. CASE enter.is = "ok" /\ TimedOut(second)
    <3>1. d.told = SubmissionTimeout /\ d.texts = 1 /\ d.enters = 1
      BY <1>5, <1>6, <1>11, <2>4
    <3>2. d.texts =< 1 /\ d.enters =< d.texts /\ d.told.is # "ok"
      BY <1>7, <3>1
    <3> QED BY <1>11, <2>1, <3>2, Zenon DEF d
  <2> QED BY <2>2, <2>3, <2>4
<1> QED BY <1>8, <1>9, <1>10, <1>11

(* A tree is removed through the workspace that is listed for it. *)
LEMMA RemovesListed ==
    ASSUME NEW path \in Objects, NEW list \in Listings, NEW remove
    PROVE  LET r == WorktreeRemove(path, list, remove) IN
           /\ r.removes # Unset =>
                 \E i \in DOMAIN list.out.trees :
                     list.out.trees[i] = [path |-> path, workspace |-> r.removes]
           /\ r.removes = Unset => r.told.is # "ok"
<1> DEFINE r == WorktreeRemove(path, list, remove)
<1>1. PICK workspace : workspace = WorkspaceOf(Invoke(list), path)
  OBVIOUS
<1>2. CASE workspace.is # "ok"
  <2>1. r = [removes |-> Unset, told |-> workspace]
    BY <1>1, <1>2 DEF WorktreeRemove
  <2>2. r.removes = Unset /\ r.told.is # "ok"
    BY <1>2, <2>1
  <2> QED BY <2>2
<1>3. CASE workspace.is = "ok"
  <2>1. r.removes = workspace.value
    BY <1>1, <1>3 DEF WorktreeRemove
  <2>2. Invoke(list).is = "ok"
    BY <1>1, <1>3 DEF WorkspaceOf
  <2>3. list.started /\ list.exit = 0 /\ Invoke(list) = Ok(list.out)
    BY <2>2 DEF Invoke, Ok, SpawnError, CommandError
  <2>4. PICK trees : trees = list.out.trees
    OBVIOUS
  <2>5. PICK listed : listed = Listed(list.out, path)
    OBVIOUS
  <2>6. /\ list.out.form = "trees" /\ listed # <<>> /\ listed[1].workspace # Unset
        /\ workspace = Ok(listed[1].workspace)
    <3>1. Ok(list.out).value = list.out
      BY DEF Ok
    <3> QED BY <1>1, <1>3, <2>2, <2>3, <2>5, <3>1 DEF WorkspaceOf, InvalidResponse
  <2>7. trees \in Seq([path : Objects, workspace : {Asked, Other, Unset}])
    <3> DEFINE Tree == [path : Objects, workspace : {Asked, Other, Unset}]
    <3>1. NoJson.form # "trees" /\ list.exit = 0
      BY <2>3 DEF NoJson
    <3>2. PICK k \in {"worktree_list", "worktree_created"}, ts \in SeqOf(Tree, 2) :
             list = Ended(0, Trees(k, ts))
      <4>1. list # NotStarted
        BY <2>3 DEF NotStarted
      <4>2. list # Ended(1, NoJson)
        BY <2>3 DEF Ended
      <4>3. list # Ended(0, NoJson)
        BY <2>6, <3>1 DEF Ended
      <4>4. \E k \in {"worktree_list", "worktree_created"}, ts \in SeqOf(Tree, 2) :
               list = Ended(0, Trees(k, ts))
        <5> DEFINE Answers == {Ended(0, Trees(k, t)) : k \in {"worktree_list", "worktree_created"},
                                                       t \in SeqOf(Tree, 2)}
        <5>1. list \in {NotStarted, Ended(1, NoJson), Ended(0, NoJson)} \/ list \in Answers
          <6>1. Listings = {NotStarted, Ended(1, NoJson), Ended(0, NoJson)} \cup Answers
            BY DEF Listings
          <6> HIDE DEF Answers
          <6> QED BY <6>1
        <5> HIDE DEF Tree
        <5> QED BY <4>1, <4>2, <4>3, <5>1
      <4> HIDE DEF Tree
      <4> QED BY <4>4
    <3>3. list.out.trees = ts
      BY <3>2 DEF Ended, Trees
    <3>4. ts \in Seq(Tree)
      <4>1. PICK m \in 0..2 : ts \in [1..m -> Tree]
        BY <3>2 DEF SeqOf
      <4> HIDE DEF Tree
      <4> QED BY <4>1
    <3> QED BY <2>4, <3>3, <3>4
  <2> DEFINE S == {i \in DOMAIN trees : trees[i].path = path}
  <2>8. listed = Picked(trees, S)
    BY <2>4, <2>5 DEF Listed
  <2>9. S \in SUBSET Nat /\ S \subseteq DOMAIN trees /\ IsFiniteSet(S)
    <3>1. DOMAIN trees = 1..Len(trees) /\ Len(trees) \in Nat
      BY <2>7
    <3>2. IsFiniteSet(1..Len(trees))
      BY <3>1, FS_Interval
    <3>3. S \subseteq 1..Len(trees) /\ S \in SUBSET Nat
      BY <3>1
    <3> QED BY <3>1, <3>2, <3>3, FS_Subset
  <2>10. PICK i \in S : listed[1] = trees[i]
    <3> HIDE DEF S
    <3>1. Cardinality(S) \in Nat
      BY <2>9, FS_CardinalityType
    <3>2. Cardinality(S) # 0
      <4>1. Cardinality(S) = 0 => Picked(trees, S) = <<>>
        BY DEF Picked
      <4> QED BY <2>6, <2>8, <4>1
    <3>3. 1 \in 1..Cardinality(S)
      BY <3>1, <3>2
    <3>4. Ascending(S)[1] \in S
      BY <2>9, <3>3, AscendingOrders
    <3>5. listed[1] = trees[Ascending(S)[1]]
      BY <2>8, <3>3 DEF Picked
    <3> QED BY <3>4, <3>5
  <2>11. i \in DOMAIN trees /\ trees[i].path = path
    BY <2>10
  <2>12. trees[i] = [path |-> trees[i].path, workspace |-> trees[i].workspace]
    <3>1. PICK Tree : Tree = [path : Objects, workspace : {Asked, Other, Unset}]
      OBVIOUS
    <3>2. trees \in Seq(Tree)
      BY <2>7, <3>1
    <3>3. trees[i] \in Tree
      BY <2>11, <3>2
    <3> QED BY <3>1, <3>3
  <2>13. workspace.value = trees[i].workspace /\ workspace.value # Unset
    BY <2>6, <2>10 DEF Ok
  <2> QED BY <2>1, <2>4, <2>11, <2>12, <2>13
<1> QED BY <1>2, <1>3

(***************************************************************************)
(* Whatever Herdr's processes do, a message counts as delivered only when  *)
(* it was typed once and Herdr has said of this pane that its agent works, *)
(* enter is never pressed into an agent known to work, and a working tree  *)
(* is removed only through its own workspace (herdr.rs, msg.rs).           *)
(***************************************************************************)
LEMMA AnswersTaken == AnswersAreForUs
<1>1. \A text \in Texts : IsPlain(text)
  <2>1. SeqOf(Characters, 4) \subseteq Seq(Characters)
    <3> SUFFICES ASSUME NEW text \in SeqOf(Characters, 4) PROVE text \in Seq(Characters)
      OBVIOUS
    <3>1. PICK m \in 0..4 : text \in [1..m -> Characters]
      BY DEF SeqOf
    <3> QED BY <3>1
  <2>2. \A text \in Seq(Characters) : Append(text, "1") \in Seq(Characters)
    BY DEF Characters
  <2> QED BY <2>1, <2>2, TextsArePlain DEF Texts
<1>2. \A verb \in DOMAIN Kinds, process \in Processes :
          Request(verb, process).is = "ok" =>
              process.started /\ process.exit = 0 /\ process.out.form = "result"
  <2>1. \A verb \in DOMAIN Kinds : verb \notin Unread
    BY DEF Kinds, Unread
  <2> QED BY <2>1, RequestSucceeds
<1> QED BY <1>1, <1>2, DeliveriesAreForUs, RemovesListed DEF AnswersAreForUs

(* What the outbox takes for a delivery is one (msg.rs, deliver_message). *)
THEOREM DeliveriesAreFaithful == Spec => []DeliversFaithfully
<1>1. DeliversFaithfully
  BY AnswersTaken DEF DeliversFaithfully
<1> QED BY <1>1, PTL
=============================================================================
