--------------------------- MODULE MCCollectedFile ---------------------------
(* Files of three kinds: all kinds of one recording, in files that tell more *)
(* or less of it; files with parts that cannot be read, with one recording;  *)
(* and files in order with two recordings.  What an answer names is r1.      *)
EXTENDS CollectedFile

CONSTANTS r1, r2

For(f1, f2) == [r \in Recordings |-> IF r = r1 THEN f1 ELSE f2]

WithRecordings(z, files, keys, sounds, descriptions, names) ==
  [garbled |-> z.garbled, csv |-> z.csv, inner |-> z.inner,
   image |-> z.image, props |-> z.props, inside |-> z.inside,
   tbdata |-> z.flags, deployed |-> z.flags, statsOnly |-> ~ z.flags,
   played |-> z.played, number |-> z.number, keyRow |-> z.keyRow,
   files |-> files, key |-> keys, sound |-> sounds,
   describe |-> descriptions, name |-> names,
   survey |-> z.survey, answers |-> {r1}]

Files(garbled, images, properties, surveys, numbers, keyRows) ==
  [garbled : garbled, csv : {{}, {"tbsdeployed"}}, inner : BOOLEAN,
   image : images, props : properties, inside : BOOLEAN, flags : BOOLEAN,
   played : BOOLEAN, number : numbers, keyRow : keyRows, survey : surveys]

AllFiles == {{".wav"}, {".enc"}, {".enc", ".key"}, {".wav", ".enc", ".key"}}
Keys == {"good", "short", "garbled"}
Sounds == {"good", "short", "rateless"}
Descriptions == {"properties", "blank", "none"}
Names == {"listed", "unlisted", "other"}

\* All kinds of a recording.
Alone ==
  {WithRecordings(z, For(f, {}), For(k, "good"), For(s, "good"),
                  For(d, "none"), For(n, "other")) :
     z \in {y \in Files({{}}, BOOLEAN, {"missing", "undeployed", "complete"},
                        {"answered", "none"}, {"props", "database", "unknown"},
                        BOOLEAN) :
              /\ y.inner /\ ~ y.played /\ ~ y.flags /\ y.csv = {}
              /\ y.inside = (y.number = "props")},
     f \in AllFiles, k \in Keys, s \in Sounds, d \in Descriptions, n \in Names}

\* All parts of a file but its recordings.
Parts ==
  {WithRecordings(z, For(f, {}), For("good", "good"), For("good", "good"),
                  For("properties", "none"), For("listed", "other")) :
     z \in {y \in Files({{}, {"outer"}, {"inner"}}, BOOLEAN,
                        {"missing", "garbled", "undeployed", "complete"},
                        {"none", "empty", "answered", "garbled"}, {"props"},
                        {TRUE}) : y.csv = {} \/ y.flags},
     f \in {{}, {".wav"}}}

\* Two recordings.
Together ==
  {WithRecordings(z, [r \in Recordings |-> f[r]], For("good", "good"), s,
                  d, For("listed", n)) :
     z \in {y \in Files({{}}, {TRUE}, {"complete"}, {"answered"},
                        {"props", "unknown"}, BOOLEAN) :
              y.inner /\ y.inside /\ y.played /\ y.flags /\ y.csv = {}},
     f \in [Recordings -> {{".wav"}, {".enc", ".key"}}],
     s \in [Recordings -> {"good", "short"}],
     d \in [Recordings -> {"properties", "none"}], n \in Names}

MCZips == Alone \cup Parts \cup Together

=============================================================================
