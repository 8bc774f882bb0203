---- MODULE MCDesk ----
(***************************************************************************)
(* Instances for TLC of the components around the desk that share no       *)
(* state: conversations, deliveries, the mailbox, patrols, message lists,  *)
(* the schema, adoptions of an old queue and their backfills, and the      *)
(* memory of preferences.  A behaviour picks a scene and one component     *)
(* acts in it, so that one run explores the reachable states of each.      *)
(***************************************************************************)
EXTENDS Conversations, Deliveries, Mailbox, PatrolChecks, MessageLists, Schema,
        Adoption, Backfills, Preferences, TLC

CONSTANT Scenes   \* the scenes a run plays

VARIABLE scene

deskVars == <<talkVars, deliveryVars, mailVars, checkVars, listVars, schemaVars,
              adoptionVars, backfillVars, preferenceVars, scene>>

OneCompany == [c \in Convs |-> "acme"]
MCMessages == {[level |-> "l1", flag |-> "none"], [level |-> "l1", flag |-> "asks_resume"],
               [level |-> "l3", flag |-> "none"], [level |-> "l1", flag |-> "declined"],
               [level |-> "mismatch", flag |-> "none"]}
Ambiguous == [r \in Rows |-> {"c1", "c2"}]
OneOfEach == "old" :> "host" @@ "new" :> "pipeline"
OneFact == {<<"fact">>}
Decided == "e1" :> [job |-> "j1", action |-> "decline", explained |-> FALSE] @@
           "e2" :> [job |-> "j2", action |-> "revise", explained |-> TRUE]
Rule(category, where, job, from) ==
    [category |-> category, scope |-> where, job |-> job, sources |-> from]
MCProposals == {Rule("jobs", "job", "j1", {"e1"}),
                Rule("greetings", "general", NoLearning, {"e1"}),
                Rule("greetings", "job", "j2", {"e2"})}

\* Where a component starts makes a difference in its own scene only.
DeskInit ==
    /\ TalkInit /\ DeliveryInit /\ MailInit /\ CheckInit /\ ListInit /\ SchemaInit
    /\ AdoptionInit /\ BackfillInit /\ PreferenceInit
    /\ scene \in Scenes
    /\ scene # "deliveries" => disk = CHOOSE f \in Resumes : TRUE
    /\ scene # "lists" => snaps = <<>>
    /\ scene # "adoption" => ~db.there
    /\ scene # "backfills" => kind = "host"
    /\ scene # "learning" => ~memory.there

earlyVars == <<talkVars, deliveryVars, mailVars, checkVars, listVars, schemaVars>>
lateVars == <<adoptionVars, backfillVars, preferenceVars>>

OneText(command) == command.step = "ask" => command.reply.text = "t1"

\* One session carries conversations to their end, its replies told apart by kind; two draft at the
\* first points of a log.
Talking ==
    /\ scene \in {"talks", "drafts"} /\ TalkNext
    /\ IF scene = "drafts" THEN \A c \in Convs : Len(log'[c]) <= 2
       ELSE \A s \in Sessions : working'[s] # NoOne => s = "h1" /\ OneText(working'[s])
    /\ UNCHANGED <<scene, lateVars, deliveryVars, mailVars, checkVars, listVars, schemaVars>>
\* Once the last send has begun, only the file still makes a difference.
Delivering ==
    /\ scene = "deliveries" /\ DeliveryNext
    /\ begun = MaxAttempts => UNCHANGED <<pack, question, approval>>
    /\ UNCHANGED <<scene, lateVars, talkVars, mailVars, checkVars, listVars, schemaVars>>
\* Registrations have a file of their own, which nothing else reads: it moves apart from the rest.
Registered == peers.file # {} \/ \E q \in Roles : peers.read[q] # Nobody
Posted == inbox # <<>> \/ outbox # <<>> \/ minute # 0 \/ \E p \in Posters : counted[p] # Nobody
Mailing ==
    /\ scene = "mail" /\ MailNext
    /\ ~(Registered' /\ Posted')
    /\ UNCHANGED <<scene, lateVars, talkVars, deliveryVars, checkVars, listVars, schemaVars>>
\* A second scheduler starts at the beginning only.
Checking ==
    /\ scene = "checks" /\ CheckNext
    /\ \A w \in Wakers : w # "w" /\ waking'[w] # NoCheck => tick' < 2
    /\ UNCHANGED <<scene, lateVars, talkVars, deliveryVars, mailVars, listVars, schemaVars>>
\* Once the last list is kept, the board makes no difference.
Listing ==
    /\ scene = "lists" /\ ListNext
    /\ Len(snaps) = MaxSnaps => UNCHANGED board
    /\ UNCHANGED <<scene, lateVars, talkVars, deliveryVars, mailVars, checkVars, schemaVars>>
Migrating ==
    /\ scene = "schema" /\ SchemaNext
    /\ UNCHANGED <<scene, lateVars, talkVars, deliveryVars, mailVars, checkVars, listVars>>
Adopting == scene = "adoption" /\ AdoptionNext
            /\ UNCHANGED <<scene, earlyVars, backfillVars, preferenceVars>>
Backfilling == scene = "backfills" /\ BackfillNext
               /\ UNCHANGED <<scene, earlyVars, adoptionVars, preferenceVars>>
\* Learners race in one scene; in the other one learner, whose rules do not matter, moves the file
\* under who compiles and reads.
Learning == scene = "learning" /\ LearnNext
            /\ UNCHANGED <<scene, earlyVars, adoptionVars, backfillVars, watchVars, met>>
OneLearns == \E l \in Learners : \A k \in Learners :
                IF k = l THEN learning'[k] # NoLearning => RulesOf(learning'[k].next) = {}
                ELSE learning'[k] = NoLearning
Watching == scene = "contexts" /\ PreferenceNext /\ OneLearns /\ answered' \subseteq {"e2"}
            /\ UNCHANGED <<scene, earlyVars, adoptionVars, backfillVars, owned, requested, drafted>>

DeskNext == Talking \/ Delivering \/ Mailing \/ Checking \/ Listing \/ Migrating
            \/ Adopting \/ Backfilling \/ Learning \/ Watching
DeskSpec == DeskInit /\ [][DeskNext]_deskVars

\* What a step may never do around the desk: attribute a status two conversations fit, or change an
\* audit.
DeskHistory == NeverGuessed /\ AuditsStand
====
