---------------------------- MODULE SpecContent ----------------------------
(***************************************************************************)
(* The content of a program's specification and its update                 *)
(* (src/src/programs/spec/spec.service.ts, updateProgram).  A client sends *)
(* the whole content; one transaction makes the rows follow it, statement  *)
(* by statement, or changes nothing.  It holds the lock of the program's   *)
(* row from its first statement on, so that updates do not overlap.        *)
(* SpecPublish models what may happen between two of them.                 *)
(*                                                                         *)
(* Rows are found in two ways: by their place (a deployment's number, the  *)
(* position of a playlist or a message), which INSERT .. ON CONFLICT uses, *)
(* and by the key the client sends back, which the deletions use.  Titles  *)
(* are taken as sanitazeString leaves them.                                *)
(***************************************************************************)
EXTENDS Integers, Sequences

CONSTANTS
  Titles, Languages, RecipientIds,
  InitialContents,  \* contents a program may have at the start
  Updates,          \* contents that clients send
  MaxUpdates        \* bound: updates in a behaviour

\* Keys of what is sent that name no row: none, or one the client has made.
New == 0
Given == -1

NoLanguage == "none"

Ids == Nat \ {0}
Keys == Nat \cup {Given}

Deployment == [id : Ids, number : Nat]
Playlist == [id : Ids, deployment : Ids, position : Nat, title : Titles]
Message == [id : Ids, playlist : Ids, position : Nat, title : Titles,
            languages : SUBSET Languages]
Content == [deployments : SUBSET Deployment, playlists : SUBSET Playlist,
            messages : SUBSET Message, languages : SUBSET Languages,
            recipients : [RecipientIds -> Languages \cup {NoLanguage}],
            next : Ids]

SentMessage == [key : Keys, position : Nat, title : Titles,
                languages : SUBSET Languages]
SentPlaylist == [key : Keys, position : Nat, title : Titles,
                 messages : Seq(SentMessage)]
SentDeployment == [key : Nat, number : Nat, complete : BOOLEAN,
                   playlists : Seq(SentPlaylist)]
SentRecipient == [id : RecipientIds, language : Languages \cup {NoLanguage}]
SentContent == [languages : SUBSET Languages,
                deployments : Seq(SentDeployment),
                recipients : Seq(SentRecipient)]

\* Unique keys and references of the tables.
Consistent(c) ==
  /\ \A x, y \in c.deployments :
       x.id = y.id \/ x.number = y.number => x = y
  /\ \A x, y \in c.playlists :
       x.id = y.id \/ <<x.deployment, x.position>> = <<y.deployment, y.position>>
         => x = y
  /\ \A x, y \in c.messages :
       x.id = y.id \/ <<x.playlist, x.position>> = <<y.playlist, y.position>>
         \/ <<x.playlist, x.title>> = <<y.playlist, y.title>>
         => x = y
  /\ \A x \in c.playlists : \E y \in c.deployments : x.deployment = y.id
  /\ \A x \in c.messages : \E y \in c.playlists : x.playlist = y.id

\* Keys are drawn in order.
Drawn(c) ==
  \A x \in c.deployments \cup c.playlists \cup c.messages : x.id < c.next

ASSUME ContentsAssumption ==
  \A c \in InitialContents : c \in Content /\ Consistent(c) /\ Drawn(c)
ASSUME UpdatesAssumption == Updates \subseteq SentContent

VARIABLES
  content,    \* the rows of the program, as committed
  cascades,   \* whether the schema deletes the messages of a deleted playlist
  statement,  \* where the transaction is
  tx,         \* the rows as the transaction sees them
  given,      \* keys of the playlists it has inserted under a client's key
  sent,       \* the content sent with the last update
  nthDeployment, nthPlaylist, nthMessage, nthRecipient, \* its loops over sent
  row,        \* key of the playlist whose messages it saves
  accepted,   \* history: the last update has committed
  before,     \* history: the rows before it
  updates     \* updates begun (bound)

loops == <<nthDeployment, nthPlaylist, nthMessage, nthRecipient, row>>
updateVars ==
  <<content, cascades, statement, tx, given, sent, loops, accepted, before,
    updates>>

UpdateTypeOK ==
  /\ content \in Content /\ tx \in Content /\ before \in Content
  /\ cascades \in BOOLEAN /\ accepted \in BOOLEAN
  /\ statement \in {"idle", "deployments", "playlists", "messages", "missing",
                    "recipients"}
  /\ given \in SUBSET Ids
  /\ sent \in SentContent
  /\ nthDeployment \in Ids /\ nthPlaylist \in Ids /\ nthMessage \in Ids
  /\ nthRecipient \in Ids /\ row \in Nat
  /\ updates \in Nat

UpdateInit ==
  /\ content \in InitialContents
  /\ cascades \in BOOLEAN
  /\ statement = "idle" /\ tx = content /\ given = {}
  /\ sent = [languages |-> {}, deployments |-> <<>>, recipients |-> <<>>]
  /\ nthDeployment = 1 /\ nthPlaylist = 1 /\ nthMessage = 1
  /\ nthRecipient = 1 /\ row = 0
  /\ accepted = FALSE /\ before = content
  /\ updates = 0

-----------------------------------------------------------------------------
(* Beginning and ending.                                                   *)

Elements(s) == {s[i] : i \in DOMAIN s}

PlaylistKeys(c) ==
  UNION {{p.key : p \in Elements(d.playlists)} : d \in Elements(c.deployments)}
MessageKeys(messages) == {m.key : m \in Elements(messages)} \ {New}

\* The keys sent are of rows that the client may have read.
Read(c, next) ==
  \A d \in Elements(c.deployments) :
    /\ d.key < next
    /\ \A p \in Elements(d.playlists) :
         p.key < next /\ \A m \in Elements(p.messages) : m.key < next

Idle ==
  /\ statement' = "idle" /\ given' = {}
  /\ nthDeployment' = 1 /\ nthPlaylist' = 1 /\ nthMessage' = 1
  /\ nthRecipient' = 1 /\ row' = 0

\* The first statements overwrite the program's row and languages.
Begin(c) ==
  /\ statement = "idle" /\ updates < MaxUpdates /\ Read(c, content.next)
  /\ statement' = "deployments" /\ updates' = updates + 1
  /\ sent' = c /\ accepted' = FALSE
  /\ tx' = [content EXCEPT !.languages = c.languages]
  /\ UNCHANGED <<content, cascades, given, loops, before>>

\* A statement that throws undoes the others.
Throw == Idle /\ tx' = content

Commit ==
  /\ statement = "recipients" /\ nthRecipient > Len(sent.recipients)
  /\ Idle
  /\ content' = tx /\ before' = content /\ accepted' = TRUE
  /\ UNCHANGED <<tx, cascades, sent, updates>>

-----------------------------------------------------------------------------
(* Deleting.                                                               *)

Orphans(t, gone) == {m \in t.messages : \E p \in gone : m.playlist = p.id}

\* Mutant: the messages of a deleted playlist stay.
DeletePlaylistsOnly(t, gone) == [t EXCEPT !.playlists = @ \ gone]

DeletePlaylists(t, gone) ==
  [t EXCEPT !.playlists = @ \ gone, !.messages = @ \ Orphans(t, gone)]

\* Deployment.playlists is declared with onDelete CASCADE.
PlaylistsOf(t, gone) ==
  {p \in t.playlists : \E d \in gone : p.deployment = d.id}

DeleteDeployments(t, gone) ==
  DeletePlaylists([t EXCEPT !.deployments = @ \ gone], PlaylistsOf(t, gone))

\* Deleting playlists with messages throws if the schema does not cascade.
Deletable(t, gone) == cascades \/ Orphans(t, gone) = {}

-----------------------------------------------------------------------------
(* saveDeployments: rows follow the numbers sent.                          *)

Numbers(deployments) == {d.number : d \in deployments}

Complete == \A d \in Elements(sent.deployments) : d.complete

CheckDeployments ==
  /\ statement = "deployments" /\ ~ Complete
  /\ Throw

\* Looked up among the rows there were at the beginning.
SaveDeployment ==
  /\ statement = "deployments" /\ Complete
  /\ nthDeployment <= Len(sent.deployments)
  /\ LET number == sent.deployments[nthDeployment].number IN
     \/ /\ number \in Numbers(content.deployments)
        /\ nthDeployment' = nthDeployment + 1
        /\ UNCHANGED <<statement, tx, given, nthPlaylist, nthMessage,
                       nthRecipient, row>>
     \/ /\ number \notin Numbers(tx.deployments)
        /\ tx' = [tx EXCEPT !.deployments =
                              @ \cup {[id |-> tx.next, number |-> number]},
                            !.next = @ + 1]
        /\ nthDeployment' = nthDeployment + 1
        /\ UNCHANGED <<statement, given, nthPlaylist, nthMessage,
                       nthRecipient, row>>
     \/ /\ number \in Numbers(tx.deployments) \ Numbers(content.deployments)
        /\ Throw

\* Mutant: the deployments that are left out stay.
LeftOutKept == {}

LeftOut ==
  {x \in content.deployments :
     x.number \notin Numbers(Elements(sent.deployments))}

DeleteLeftOut ==
  /\ statement = "deployments" /\ Complete
  /\ nthDeployment > Len(sent.deployments)
  /\ \/ /\ Deletable(tx, PlaylistsOf(tx, LeftOut))
        /\ tx' = DeleteDeployments(tx, LeftOut)
        /\ statement' = "playlists" /\ nthDeployment' = 1
        /\ UNCHANGED <<given, nthPlaylist, nthMessage, nthRecipient, row>>
     \/ /\ ~ Deletable(tx, PlaylistsOf(tx, LeftOut))
        /\ Throw

-----------------------------------------------------------------------------
(* The playlists of each deployment, and their messages.                   *)

ThisDeployment == sent.deployments[nthDeployment]
ThisPlaylist == ThisDeployment.playlists[nthPlaylist]
ThisMessage == ThisPlaylist.messages[nthMessage]

\* The row of a playlist's deployment: by the key it names, else by number.
\* The code reads both from the playlist's own entries, deployment_id and
\* deployment_number (lines 128-133); they are taken to be those of the
\* deployment it stands in, as clients send them.
DeploymentOf(deployments, d) ==
  {x \in deployments : x.id = d.key \/ (d.key = New /\ x.number = d.number)}

\* Row x has the place of playlist p of deployment d, both as sent.
Placed(deployments, x, d, p) ==
  \E y \in DeploymentOf(deployments, d) :
    x.deployment = y.id /\ x.position = p.position

\* Mutant: without keys, none of them goes.
RemovedMessagesIfNamed(t, id, messages) ==
  IF MessageKeys(messages) = {} THEN {}
  ELSE {m \in t.messages : m.playlist = id /\ m.id \notin MessageKeys(messages)}

\* removedMessages: without keys, all the messages of the playlist go.
RemovedMessages(t, id, messages) ==
  {m \in t.messages : m.playlist = id /\ m.id \notin MessageKeys(messages)}

\* With the row written, messages that are not named are deleted from it.
SaveMessagesOf(id, t) ==
  /\ tx' = [t EXCEPT !.messages =
                       @ \ RemovedMessages(t, id, ThisPlaylist.messages)]
  /\ row' = id /\ nthMessage' = 1 /\ statement' = "messages"
  /\ UNCHANGED <<nthDeployment, nthPlaylist, nthRecipient>>

\* INSERT .. ON CONFLICT playlist_uniqueness_key DO UPDATE.  The row found
\* keeps its own key.
SavePlaylist ==
  /\ statement = "playlists" /\ nthDeployment <= Len(sent.deployments)
  /\ nthPlaylist <= Len(ThisDeployment.playlists)
  /\ LET p == ThisPlaylist
         home == DeploymentOf(tx.deployments, ThisDeployment)
         here == {x \in tx.playlists :
                    Placed(tx.deployments, x, ThisDeployment, p)}
         id == IF p.key \in {New, Given} THEN tx.next ELSE p.key
         taken == \E x \in tx.playlists : x.id = p.key
     IN \/ \E x \in here :
             /\ SaveMessagesOf(x.id,
                  [tx EXCEPT !.playlists =
                               (@ \ {x}) \cup {[x EXCEPT !.title = p.title]}])
             /\ UNCHANGED given
        \/ /\ here = {} /\ ~ taken
           /\ \E y \in home :
                SaveMessagesOf(id,
                  [tx EXCEPT !.playlists =
                               @ \cup {[id |-> id, deployment |-> y.id,
                                        position |-> p.position,
                                        title |-> p.title]},
                             !.next = @ + 1])
           /\ given' = IF p.key = Given THEN given \cup {id} ELSE given
        \/ (home = {} \/ (here = {} /\ taken)) /\ Throw

\* INSERT .. ON CONFLICT (program_id, playlist_id, position) DO UPDATE, then
\* the languages, of which only those sent are cleared first.
SaveMessage ==
  /\ statement = "messages" /\ nthMessage <= Len(ThisPlaylist.messages)
  /\ LET m == ThisMessage
         here == {x \in tx.messages :
                    x.playlist = row /\ x.position = m.position}
         same == {x \in tx.messages \ here :
                    x.playlist = row /\ x.title = m.title}
         id == IF m.key \in {New, Given} THEN tx.next ELSE m.key
         taken == \E x \in tx.messages : x.id = m.key
     IN \/ /\ same = {}
           /\ \/ \E x \in here :
                   tx' = [tx EXCEPT !.messages =
                            (@ \ {x}) \cup
                              {[x EXCEPT !.title = m.title,
                                         !.languages = @ \cup m.languages]}]
              \/ /\ here = {} /\ ~ taken
                 /\ tx' = [tx EXCEPT !.messages =
                             @ \cup {[id |-> id, playlist |-> row,
                                      position |-> m.position,
                                      title |-> m.title,
                                      languages |-> m.languages]},
                             !.next = @ + 1]
           /\ nthMessage' = nthMessage + 1
           /\ UNCHANGED <<statement, given, nthDeployment, nthPlaylist,
                          nthRecipient, row>>
        \/ (same # {} \/ (here = {} /\ taken)) /\ Throw

\* The loops go on.
NextPlaylist ==
  /\ statement = "messages" /\ nthMessage > Len(ThisPlaylist.messages)
  /\ statement' = "playlists" /\ nthPlaylist' = nthPlaylist + 1
  /\ UNCHANGED <<tx, given, nthDeployment, nthMessage, nthRecipient, row>>

NextDeployment ==
  /\ statement = "playlists" /\ nthDeployment <= Len(sent.deployments)
  /\ nthPlaylist > Len(ThisDeployment.playlists)
  /\ nthDeployment' = nthDeployment + 1 /\ nthPlaylist' = 1
  /\ UNCHANGED <<statement, tx, given, nthMessage, nthRecipient, row>>

-----------------------------------------------------------------------------
(* What was not sent is deleted, and the recipients are saved.             *)

\* Mutant: rows inserted under a client's key are not among those sent.
MissingAll(rows, keys, also) ==
  IF New \in keys THEN {} ELSE {x \in rows : x.id \notin keys}

\* "_id NOT IN (..)" selects nothing if one of the keys is null.
Missing(rows, keys, also) ==
  IF New \in keys THEN {} ELSE {x \in rows : x.id \notin keys \cup also}

MissingPlaylists == Missing(tx.playlists, PlaylistKeys(sent), given)

\* "Delete playlists not in request data from db".
DeleteMissingPlaylists ==
  /\ statement = "playlists" /\ nthDeployment > Len(sent.deployments)
  /\ \/ /\ Deletable(tx, MissingPlaylists)
        /\ tx' = DeletePlaylists(tx, MissingPlaylists)
        /\ statement' = "missing"
        /\ UNCHANGED <<given, loops>>
     \/ ~ Deletable(tx, MissingPlaylists) /\ Throw

MissingDeployments ==
  Missing(tx.deployments, {d.key : d \in Elements(sent.deployments)}, {})

\* "Delete deployments not in request data from db".
DeleteMissingDeployments ==
  /\ statement = "missing"
  /\ \/ /\ Deletable(tx, PlaylistsOf(tx, MissingDeployments))
        /\ tx' = DeleteDeployments(tx, MissingDeployments)
        /\ statement' = "recipients"
        /\ UNCHANGED <<given, loops>>
     \/ ~ Deletable(tx, PlaylistsOf(tx, MissingDeployments)) /\ Throw

\* Mutant: languages are not looked up.
AnyLanguage(language) == TRUE

Listed(language) == language \in sent.languages

\* Recipients are never deleted; their language has to be among those sent.
SaveRecipient ==
  /\ statement = "recipients" /\ nthRecipient <= Len(sent.recipients)
  /\ LET r == sent.recipients[nthRecipient] IN
     \/ /\ Listed(r.language)
        /\ tx' = [tx EXCEPT !.recipients[r.id] = r.language]
        /\ nthRecipient' = nthRecipient + 1
        /\ UNCHANGED <<statement, given, nthDeployment, nthPlaylist,
                       nthMessage, row>>
     \/ ~ Listed(r.language) /\ Throw

\* A call to the database that fails.
CallFails == statement # "idle" /\ Throw

Transaction ==
  /\ \/ CheckDeployments \/ SaveDeployment \/ DeleteLeftOut
     \/ SavePlaylist \/ SaveMessage \/ NextPlaylist \/ NextDeployment
     \/ DeleteMissingPlaylists \/ DeleteMissingDeployments \/ SaveRecipient
     \/ CallFails
  /\ UNCHANGED <<content, cascades, sent, accepted, before, updates>>

UpdateNext == (\E c \in Updates : Begin(c)) \/ Transaction \/ Commit

UpdateSpec == UpdateInit /\ [][UpdateNext]_updateVars

-----------------------------------------------------------------------------
(* Properties.                                                             *)

\* The rows of the program keep the unique keys and references that the rest
\* of the service relies on, whatever keys and places a client mixes up: rows
\* are inserted under keys it sends, and deleted without what refers to them
\* (spec.service.ts:124-259).
RowsConsistent == Consistent(content)

\* Row x was last written as the j-th playlist of the i-th deployment.
WrittenLast(x, i, j) ==
  /\ Placed(content.deployments, x, sent.deployments[i],
            sent.deployments[i].playlists[j])
  /\ \A k \in DOMAIN sent.deployments :
       \A l \in DOMAIN sent.deployments[k].playlists :
         k > i \/ (k = i /\ l > j) =>
           ~ Placed(content.deployments, x, sent.deployments[k],
                    sent.deployments[k].playlists[l])

\* The messages of a playlist row are the ones sent, with their titles and
\* at least their languages.
HasMessages(messages, id, list) ==
  LET kept == {m \in messages : m.playlist = id} IN
  /\ \A n \in Elements(list) : \E m \in kept : m.position = n.position
  /\ \A m \in kept :
       \E n \in Elements(list) :
         /\ m.position = n.position /\ m.title = n.title
         /\ n.languages \subseteq m.languages

\* No two of the messages are sent for one position.
Apart(list) ==
  \A i, j \in DOMAIN list : list[i].position = list[j].position => i = j

\* After an accepted update, a playlist has the title sent for its place, and
\* exactly the messages sent with it unless two of them have one position,
\* although messages are deleted by key and written by position
\* (removedMessages, spec.service.ts:167-243).
MessagesAsSent ==
  accepted =>
    \A x \in content.playlists, i \in DOMAIN sent.deployments :
      \A j \in DOMAIN sent.deployments[i].playlists :
        LET p == sent.deployments[i].playlists[j] IN
        WrittenLast(x, i, j) =>
          /\ x.title = p.title
          /\ Apart(p.messages) => HasMessages(content.messages, x.id, p.messages)

\* A playlist that an accepted update sends is stored, unless it was written
\* over one whose key was not sent, which is deleted later with what was
\* written; and one that is stored was sent or named, unless a new playlist
\* came without a key (spec.service.ts:147 and 248-253).
PlaylistsAsSent ==
  accepted =>
    /\ \A d \in Elements(sent.deployments) : \A p \in Elements(d.playlists) :
         \/ \E x \in content.playlists : Placed(content.deployments, x, d, p)
         \/ \E x \in before.playlists : /\ Placed(content.deployments, x, d, p)
                                        /\ x.id \notin PlaylistKeys(sent)
    /\ \A x \in content.playlists :
         \/ PlaylistKeys(sent) \cap {New, x.id} # {}
         \/ \E d \in Elements(sent.deployments) :
              \E p \in Elements(d.playlists) :
                Placed(content.deployments, x, d, p)

\* After an accepted update the program has the deployments that were sent
\* and no others, except that one whose number is that of no row, or of a row
\* whose key was not sent, is written by its number and deleted by its key
\* (spec.service.ts:640-697 and 256-259).
DeploymentsAsSent ==
  accepted =>
    /\ \A x \in content.deployments :
         x.number \in Numbers(Elements(sent.deployments))
    /\ \A d \in Elements(sent.deployments) :
         \/ d.number \in Numbers(content.deployments)
         \/ /\ d.key # New
            /\ \A x \in before.deployments :
                 x.number = d.number =>
                   \A e \in Elements(sent.deployments) : e.key # x.id

\* A recipient's language is among the program's, unless the last accepted
\* update did not send the recipient (spec.service.ts:99-103 and 271-276).
RecipientLanguageListed ==
  accepted =>
    \A r \in RecipientIds :
      content.recipients[r] \in content.languages
        \/ \A s \in Elements(sent.recipients) : s.id # r
=============================================================================
