--------------------------- MODULE MCSpecContent ---------------------------
(* Small instances of SpecContent.                                         *)
EXTENDS SpecContent, TLC

Pl(key, position, title, messages) ==
  [key |-> key, position |-> position, title |-> title, messages |-> messages]

Text(key, position, title, languages) ==
  [key |-> key, position |-> position, title |-> title,
   languages |-> languages]

\* Deployment 1 with two playlists, the first with two messages.
Start(second) ==
  [deployments |-> {[id |-> 1, number |-> 1]},
   playlists |-> {[id |-> 2, deployment |-> 1, position |-> 1, title |-> "a"],
                  [id |-> 3, deployment |-> 1, position |-> 2, title |-> "b"]},
   messages |-> {[id |-> 4, playlist |-> 2, position |-> 1, title |-> "a",
                  languages |-> {"en"}],
                 [id |-> 5, playlist |-> 2, position |-> 2, title |-> "b",
                  languages |-> {"en"}]} \cup second,
   languages |-> {"en", "fr"},
   recipients |-> [r \in RecipientIds |-> "en"],
   next |-> 7]

\* What the program may have come to since the client read it: its second
\* playlist has a message, is gone, or is alone and first; another deployment
\* holds a playlist; everything is gone.
MCContents ==
  LET text == [id |-> 6, playlist |-> 3, position |-> 1, title |-> "a",
               languages |-> {"fr"}]
      gone == [Start({}) EXCEPT !.playlists = {x \in @ : x.id = 2}]
      alone == [Start({text}) EXCEPT
                  !.playlists = {[x EXCEPT !.position = 1] :
                                   x \in {y \in @ : y.id = 3}},
                  !.messages = {text}]
      another == [Start({text}) EXCEPT
                    !.deployments = @ \cup {[id |-> 7, number |-> 2]},
                    !.playlists = {[x EXCEPT !.deployment =
                                      IF x.id = 3 THEN 7 ELSE 1] : x \in @},
                    !.next = 8]
      empty == [Start({}) EXCEPT !.deployments = {}, !.playlists = {},
                                 !.messages = {}]
  IN {Start({}), Start({text}), gone, alone, another, empty}

\* Lists of messages: as they were, retitled, moved, replaced, taken from
\* another playlist.
MessageLists ==
  {<<>>, <<Text(4, 1, "a", {"fr"}), Text(5, 2, "b", {"en"})>>,
   <<Text(4, 2, "a", {"en"}), Text(5, 1, "b", {"en"})>>,
   <<Text(4, 2, "a", {"en"}), Text(5, 1, "c", {"en"}), Text(New, 3, "b", {})>>,
   <<Text(5, 1, "c", {"en"})>>, <<Text(5, 2, "c", {"fr"})>>,
   <<Text(New, 1, "c", {"fr"}), Text(4, 2, "b", {"en"})>>,
   <<Text(6, 1, "b", {"en"})>>, <<Text(New, 1, "a", {"en"})>>}

\* Playlists of a deployment: each of the two places empty or taken by one
\* of the two, or by a new one with or without a key.
Places(position, titles) ==
  {<<>>} \cup {<<Pl(key, position, title, messages)>> :
                 key \in {2, 3, New, Given}, title \in titles,
                 messages \in MessageLists}

Named(s) == {s[i].key : i \in DOMAIN s} \ {New, Given}

PlaylistLists ==
  {x \in {s \o t : s \in Places(1, {"c"}), t \in Places(2, {"a", "c"})} :
     Len(x) = 2 => Named(<<x[1]>>) \cap Named(<<x[2]>>) = {}}

One(key, number, playlists) ==
  [key |-> key, number |-> number, complete |-> TRUE, playlists |-> playlists]

Plain(deployments) ==
  [languages |-> {"en", "fr"}, deployments |-> deployments,
   recipients |-> <<[id |-> "r1", language |-> "en"]>>]

\* A second deployment, a renumbered, an incomplete and a missing one, two
\* that exchange numbers, and one that another client has made anew.
OtherUpdates ==
  LET p == <<Pl(2, 1, "a", <<>>)>>
      q == <<Pl(New, 1, "b", <<>>)>>
  IN {Plain(<<One(1, 1, p), One(New, 2, q)>>), Plain(<<One(1, 2, p)>>),
      Plain(<<One(1, 2, <<>>)>>), Plain(<<>>), Plain(<<One(New, 1, q)>>),
      Plain(<<One(1, 2, <<>>), One(New, 1, q)>>),
      Plain(<<One(1, 2, p), One(7, 1, <<>>)>>),
      Plain(<<One(1, 1, q), One(5, 2, <<>>)>>),
      Plain(<<[One(1, 1, p) EXCEPT !.complete = FALSE]>>),
      [Plain(<<One(1, 1, p)>>) EXCEPT !.languages = {"fr"}],
      [Plain(<<One(1, 1, p)>>) EXCEPT !.languages = {"fr"},
                                      !.recipients = <<>>],
      [Plain(<<One(1, 1, p)>>) EXCEPT
         !.languages = {"fr"},
         !.recipients = <<[id |-> "r1", language |-> "fr"]>>]}

\* One number, one place and one position sent twice.
Twice ==
  LET p == Pl(2, 1, "a", <<Text(4, 1, "a", {"fr"})>>)
      q == Pl(New, 1, "c", <<Text(New, 1, "b", {"en"})>>)
      messages == <<Text(4, 2, "b", {"fr"}), Text(5, 2, "a", {"en"})>>
  IN {Plain(<<One(1, 1, <<p>>), One(New, 2, <<>>), One(New, 2, <<>>)>>),
      Plain(<<One(1, 1, <<p, q>>)>>),
      Plain(<<One(1, 1, <<p>>), One(New, 1, <<q>>)>>),
      Plain(<<One(1, 1, <<Pl(2, 1, "a", messages)>>)>>)}

MCUpdates ==
  {Plain(<<One(1, 1, x)>>) : x \in PlaylistLists} \cup OtherUpdates \cup Twice
=============================================================================
