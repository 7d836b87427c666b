----------------------------- MODULE SaveBundles -----------------------------
(***************************************************************************)
(* save_bundles (wa-fetch/src/download.rs), after Download: the bundles of *)
(* a complete outcome are written to a directory one by one, each under a  *)
(* name of its own, for `update --bundles` to read again                   *)
(* (read_local_bundles in whatspec/src/main.rs).                           *)
(*                                                                         *)
(* A file name is a stem and an extension. The stem of a URL's last        *)
(* segment is any; that of a fallback name is <<url, n>>, n being its      *)
(* numeric suffix and 0 for none, as the hash of the URL is injective.     *)
(***************************************************************************)
EXTENDS Download

CONSTANTS
  Segment,    \* stems of last segments
  TooLong,    \* those that make the name longer than MAX_BUNDLE_FILE_NAME
  Extension,
  Carried     \* extensions short and plain enough for a fallback name

ASSUME NameAssumption ==
  /\ TooLong \subseteq Segment /\ TooLong \cap (Int \X Nat) = {}
  /\ Carried \subseteq Extension /\ "js" \in Carried

Name(stem, ext) == [stem |-> stem, ext |-> ext]

VARIABLES
  file_name,  \* the last segment of each URL, as a name; None until it is looked at
  used,       \* the names given
  disk,       \* the directory: name -> content
  saved       \* history: the name each bundle got, in their order

saving == <<file_name, used, disk, saved>>

UrlSet == {Urls[i] : i \in 1..N}

SaveInit ==
  /\ Init
  /\ file_name = None /\ used = {} /\ disk = [name \in {} |-> None] /\ saved = <<>>

\* `<sha256(url)>.<ext>`, or with the first suffix that makes it a new name.
Fallback(url, name, taken) ==
  LET ext == IF name.ext \in Carried THEN name.ext ELSE "bin"
      free == {n \in 0..Cardinality(taken) : Name(<<url, n>>, ext) \notin taken}
  IN  Name(<<url, CHOOSE n \in free : \A m \in free : n <= m>>, ext)

disk_file_name_unchecked(name, url, taken) ==  \* mutant: the fallback is not looked up
  IF name.stem \notin TooLong /\ name \notin taken THEN name ELSE Name(<<url, 0>>, name.ext)

disk_file_name(name, url, taken) ==
  IF name.stem \notin TooLong /\ name \notin taken THEN name ELSE Fallback(url, name, taken)

Complete == outcome # None /\ outcome.failures = <<>> /\ Len(outcome.bundles) = N

\* fetch_source refuses a partial outcome. (What the segments are is settled
\* here, where it first matters. They are names of JavaScript bundles, which is
\* what discovery collects.)
StartSaving ==
  /\ Complete /\ file_name = None
  /\ file_name' \in [UrlSet -> [stem : Segment, ext : {"js"}]]
  /\ UNCHANGED <<used, disk, saved>>

\* One turn of the loop of save_bundles.
Save ==
  /\ file_name # None /\ Len(saved) < Len(outcome.bundles)
  /\ LET bundle == outcome.bundles[Len(saved) + 1]
         name == disk_file_name(file_name[bundle.url], bundle.url, used)
     IN  /\ used' = used \cup {name}
         /\ disk' = [n \in DOMAIN disk \cup {name} |-> IF n = name THEN bundle.got ELSE disk[n]]
         /\ saved' = Append(saved, name)
  /\ UNCHANGED file_name

SaveNext == (Next /\ UNCHANGED saving) \/ ((StartSaving \/ Save) /\ UNCHANGED vars)

SaveSpec == SaveInit /\ [][SaveNext]_<<vars, saving>>

-----------------------------------------------------------------------------
(* "The dump must round-trip through --bundles" (download.rs:189-192): each   *)
(* bundle saved so far has a file of its own, with its content, a name that   *)
(* is not too long and the extension read_local_bundles looks for, and there  *)
(* is no other file; whichever segments are equal, too long, or look like the *)
(* fallback name of another URL.                                              *)
EveryBundleHasItsFile ==
  /\ \A i, j \in 1..Len(saved) : saved[i] = saved[j] => i = j
  /\ \A i \in 1..Len(saved) : /\ saved[i].ext = "js" /\ saved[i].stem \notin TooLong
                              /\ disk[saved[i]] = outcome.bundles[i].got
  /\ DOMAIN disk = {saved[i] : i \in 1..Len(saved)}
=============================================================================
