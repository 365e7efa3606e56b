------------------------------ MODULE UfBundler ------------------------------
(***************************************************************************)
(* Bundling of user feedback (src/scripts/userfeedback_utility: the bundle *)
(* command of ufUtility.py, UfBundler.make_bundles and DbUtils).  A run    *)
(* reads the messages of a deployment, groups those that are in no bundle, *)
(* records the bundles in one transaction, and then publishes them one by  *)
(* one.                                                                    *)
(*                                                                         *)
(*   idle --Begin--> read --Record--> publish --ZipNext, Copy--> idle       *)
(*              +------(only_zip, unzipped)------^                         *)
(*                                                                         *)
(* It does not look whether the update succeeded, an object that is        *)
(* missing ends it, and nothing keeps two runs apart.                      *)
(***************************************************************************)
EXTENDS Naturals, SequencesExt

CONSTANTS
  Messages,     \* message uuids, in their order
  Languages,
  Language,     \* message -> its language
  Sizes,        \* functions: message -> its bytes
  InRange,      \* messages neither too short nor too long
  MaxBytes,
  Runs,         \* bundle commands that may be in progress at once
  MaxDrawn,     \* bound: uuids of bundles drawn
  MaxTroubles,  \* bound: failed calls, crashes, runs with unusual options or
                \* beside another run, repeated imports
  NoRow, Null, Empty    \* no row; two ways in which a row has no bundle

\* --dry-run, which writes nothing, is left out.
Options == {"no_zip", "only_zip", "unzipped", "rebundle"}
Right == "1"            \* the deployment that is bundled
Uuids == 1 .. MaxDrawn

ASSUME MessagesAssumption ==
  Messages \subseteq Nat /\ IsFiniteSet(Messages) /\ InRange \subseteq Messages
ASSUME DataAssumption ==
  Language \in [Messages -> Languages] /\ Sizes \subseteq [Messages -> Nat]
ASSUME BundlerBounds ==
  MaxBytes \in Nat /\ MaxDrawn \in Nat /\ MaxTroubles \in Nat

Row == [number : {Right, "None"}, bundle : Uuids \cup {Null, Empty}]

ASSUME RowAssumption ==
  NoRow \notin Row /\ Null # Empty /\ {Null, Empty} \cap Uuids = {}

VARIABLES
  size,      \* message -> its bytes; never changes
  rows,      \* uf_messages: message -> its deployment number and bundle
  stored,    \* messages whose mp3 is among the deployment's in amplio-uf
  zips,      \* bundles published as zips, whatever the run and its root
  copies,    \* messages published on their own
  run,       \* run -> its phase, options and bundles
  drawn,     \* uuids of bundles drawn
  troubles,  \* (bound)
  excused    \* history: messages that two bundles may publish

bundler == <<size, zips, copies, run, drawn, excused>>

Idle == [phase |-> "idle", options |-> {}, bundles |-> <<>>]

BundlerInit ==
  /\ size \in Sizes
  /\ zips = {} /\ copies = {} /\ drawn = 0 /\ excused = {}
  /\ run = [r \in Runs |-> Idle]

Trouble == troubles < MaxTroubles /\ troubles' = troubles + 1

\* get_uf_records.
Found == {m \in Messages : rows[m] # NoRow /\ rows[m].number = Right}

\* Messages in their order.
InOrder[messages \in SUBSET Messages] ==
  IF messages = {} THEN <<>>
  ELSE Append(InOrder[messages \ {Max(messages)}], Max(messages))

Bundle(uuid, language, messages) ==
  [uuid |-> uuid, language |-> language, messages |-> messages]

Bytes[messages \in SUBSET Messages] ==
  IF messages = {} THEN 0
  ELSE Bytes[messages \ {Max(messages)}] + size[Max(messages)]

-----------------------------------------------------------------------------
(* What a run reads.                                                       *)

\* Mutant: messages that have a bundle are kept.
KeptAll(o) == Found \cap InRange

\* _get_uf_records.
Kept(o) ==
  {m \in Found \cap InRange :
     rows[m].bundle \in {Null, Empty} \/ "rebundle" \in o}

\* Mutant: the open bundle is not looked at when it is nearly full.
PlaceLate(p, m) ==
  LET l == Language[m] IN
  IF p.open[l] # {} /\ Bytes[p.open[l]] > MaxBytes
  THEN [p EXCEPT !.full = Append(@, Bundle(Null, l, p.open[l])),
                 !.open[l] = {m}]
  ELSE [p EXCEPT !.open[l] = @ \cup {m},
                 !.seen = IF Contains(@, l) THEN @ ELSE Append(@, l)]

\* One message goes to the open bundle of its language; that is closed first
\* if it has messages and this one does not fit.
Place(p, m) ==
  LET l == Language[m] IN
  IF p.open[l] # {} /\ Bytes[p.open[l]] + size[m] > MaxBytes
  THEN [p EXCEPT !.full = Append(@, Bundle(Null, l, p.open[l])),
                 !.open[l] = {m}]
  ELSE [p EXCEPT !.open[l] = @ \cup {m},
                 !.seen = IF Contains(@, l) THEN @ ELSE Append(@, l)]

\* The full bundles, and the open one of each language seen so far.
NonePlaced == [full |-> <<>>, open |-> [l \in Languages |-> {}], seen |-> <<>>]

Placed[messages \in SUBSET Messages] ==
  IF messages = {} THEN NonePlaced
  ELSE Place(Placed[messages \ {Max(messages)}], Max(messages))

\* _partition.  max_files is never looked at.
Partition(messages) ==
  LET p == Placed[messages]
  IN p.full \o [i \in DOMAIN p.seen |->
                  Bundle(Null, p.seen[i], p.open[p.seen[i]])]

\* _get_partitioned_records: the rows that are not NULL, by their bundle, the
\* bundles in the order of their first messages, which give them a language.
\* Rows that extract_uf inserted have '' for a bundle.
Recorded(uuids) ==
  LET Of(m) == {n \in Found : rows[n].bundle = rows[m].bundle}
      first == {m \in Found : /\ rows[m].bundle \in uuids
                              /\ \A n \in Of(m) : m <= n}
      s == InOrder[first]
  IN [i \in DOMAIN s |-> Bundle(rows[s[i]].bundle, Language[s[i]], Of(s[i]))]

MessagesOf(bundles) == UNION {bundles[i].messages : i \in DOMAIN bundles}

\* Only runs that zip publish bundles.
WantsZips(o) == o \cap {"no_zip", "unzipped"} = {}

\* Messages which a run has read and not yet recorded.
BeingBundled ==
  UNION {MessagesOf(run[q].bundles) : q \in {q \in Runs : run[q].phase = "read"}}

\* make_bundles up to its first write.  "only_zip" takes all bundles, or
\* those that --bundle-uuid names.
Begin(r, o, uuids) ==
  LET bundles == IF "only_zip" \in o THEN Recorded(uuids) ELSE Partition(Kept(o))
      direct == o \cap {"only_zip", "unzipped"} # {}
      again == IF "rebundle" \in o THEN Kept(o)
               ELSE MessagesOf(bundles) \cap BeingBundled
  IN /\ run[r].phase = "idle"
     /\ bundles # <<>>
     /\ drawn + Len(bundles) <= MaxDrawn \/ direct
     /\ IF Empty \notin uuids /\ \A q \in Runs : run[q].phase = "idle"
        THEN UNCHANGED troubles ELSE Trouble
     /\ run' = [run EXCEPT ![r] =
                  [phase |-> IF direct THEN "publish" ELSE "read",
                   options |-> o, bundles |-> bundles]]
     /\ excused' = IF direct THEN excused ELSE excused \cup again
     /\ UNCHANGED <<size, rows, stored, zips, copies, drawn>>

Commands ==
  {o \in SUBSET Options :
     /\ "only_zip" \in o => o \cap {"no_zip", "unzipped"} = {}}

-----------------------------------------------------------------------------
(* What it writes.                                                         *)

\* Mutant: one uuid for all the bundles.
NumberedOnce(bundles) ==
  [i \in DOMAIN bundles |-> [bundles[i] EXCEPT !.uuid = drawn + 1]]

Numbered(bundles) ==
  [i \in DOMAIN bundles |-> [bundles[i] EXCEPT !.uuid = drawn + i]]

\* Where the bundles are published, if they are.
Publish(r, bundles) ==
  run' = [run EXCEPT ![r] = IF "no_zip" \in run[r].options THEN Idle
                            ELSE [@ EXCEPT !.phase = "publish",
                                           !.bundles = bundles]]

\* _update_with_bundle_uuid and update_uf_bundles: one transaction for all
\* the bundles.  It answers False if it fails, which nobody looks at.
Record(r) ==
  LET bundles == Numbered(run[r].bundles) IN
  /\ run[r].phase = "read"
  /\ drawn' = drawn + Len(bundles)
  /\ drawn' <= MaxDrawn
  /\ Publish(r, bundles)
  /\ \/ /\ rows' = [m \in Messages |->
                      IF m \in MessagesOf(bundles)
                      THEN [rows[m] EXCEPT !.bundle =
                              (CHOOSE b \in ToSet(bundles) : m \in b.messages).uuid]
                      ELSE rows[m]]
        /\ UNCHANGED <<troubles, excused>>
     \/ /\ Trouble
        /\ excused' = excused \cup MessagesOf(bundles)
        /\ UNCHANGED rows
  /\ UNCHANGED <<size, stored, zips, copies>>

Stop(r) == run' = [run EXCEPT ![r] = Idle]

\* The rest of the bundles, if any.
Continue(r) ==
  LET rest == Tail(run[r].bundles) IN
  run' = [run EXCEPT ![r] = IF rest = <<>> THEN Idle
                            ELSE [@ EXCEPT !.bundles = rest]]

\* _make_zipped_bundle(s): an mp3 that cannot be read ends the run.
ZipNext(r) ==
  LET b == Head(run[r].bundles) IN
  /\ run[r].phase = "publish" /\ WantsZips(run[r].options)
  /\ \/ /\ b.messages \subseteq stored
        /\ zips' = zips \cup {b}
        /\ Continue(r)
        /\ UNCHANGED troubles
     \/ /\ Stop(r)
        /\ UNCHANGED zips
        /\ IF b.messages \subseteq stored THEN Trouble ELSE UNCHANGED troubles
  /\ UNCHANGED <<size, rows, stored, copies, drawn, excused>>

\* _publish_unzipped, bundle by bundle in the order of the messages.  The
\* messages before the one that cannot be copied are published.
Copy(r) ==
  LET b == Head(run[r].bundles)
      missing == b.messages \ stored
      done == {m \in b.messages : \A n \in missing : m < n}
  IN /\ run[r].phase = "publish" /\ "unzipped" \in run[r].options
     /\ copies' = copies \cup done
     /\ IF missing = {} THEN Continue(r) ELSE Stop(r)
     /\ UNCHANGED <<size, rows, stored, zips, drawn, troubles, excused>>

\* The command is interrupted, or a statement or a call throws.
Crash(r) ==
  /\ run[r].phase # "idle"
  /\ Trouble
  /\ Stop(r)
  /\ UNCHANGED <<size, rows, stored, zips, copies, drawn, excused>>

BundlerNext ==
  \E r \in Runs :
    \/ Begin(r, {}, {})
    \/ \E o \in Commands \ {{}} : Begin(r, o, Uuids \cup {Empty})
    \/ \E u \in Uuids : Begin(r, {"only_zip"}, {u})
    \/ Record(r) \/ ZipNext(r) \/ Copy(r) \/ Crash(r)

-----------------------------------------------------------------------------
(* Properties.                                                             *)

\* "each bundle is messages of the same language and a total size less than
\* or equal to some maximum" (UfBundler.py:172-173), or a single message
\* that is larger; the zip of the messages that have no bundle, which
\* only_zip publishes, excepted.
ZipsKeepLimits ==
  \A z \in zips :
    z.uuid # Empty =>
       /\ \A m \in z.messages : Language[m] = z.language
       /\ Bytes[z.messages] <= MaxBytes \/ \E m \in z.messages : z.messages = {m}

\* Two bundles publish a message in no other way than by runs that overlap,
\* by one whose update failed, by --rebundle, or because the message was
\* imported again, which takes its bundle away; the zip of the messages that
\* have no bundle excepted.
PublishedOnce ==
  \A y, z \in zips :
    y.uuid # z.uuid /\ Empty \notin {y.uuid, z.uuid}
    => y.messages \cap z.messages \subseteq excused

\* A zip has all the messages that uf_messages says it has: an archive with
\* the name of a bundle may hold messages that have gone to another bundle
\* since, but lacks none, whichever run published it, and when.
ZipHasItsRows ==
  \A z \in zips : \A m \in Found :
    rows[m].bundle = z.uuid /\ z.uuid # Empty => m \in z.messages
=============================================================================
