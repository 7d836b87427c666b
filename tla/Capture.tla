------------------------------- MODULE Capture -------------------------------
(***************************************************************************)
(* restore_captures_with (wa-store/src/capture.rs): historical wasm        *)
(* payloads, each pinned by name and hash, are put into a directory. What  *)
(* is there already stays; what is missing is asked for at its CDN URL and *)
(* then looked for in the wasm archives of the configured releases.        *)
(*                                                                         *)
(* Whatever a server answers, a payload counts only if it has the pinned   *)
(* hash; so the answers are any, and the order of releases and assets,     *)
(* which is the order of asking, is left open. Contents with equal hashes  *)
(* are equal. Sizes, and what makes a single pin valid, are left out.      *)
(*                                                                         *)
(* Names, contents and the helpers on them are those of Restore; the state *)
(* is this command's own.                                                  *)
(***************************************************************************)
EXTENDS Restore

CONSTANTS  \* bounds
  MaxPins,    \* on the pins of a call
  MaxFiles,   \* on the files of an archive
  MaxAssets,  \* on the archives looked at in a call
  MaxCalls
Capture == [name : Name, content : Content, url : BOOLEAN]
File == [name : Name, content : Content]

\* An asset: the files of the archive in its order; whether it can be read to its end.
Downloaded == [files : Upto(File, MaxFiles), whole : BOOLEAN]

VARIABLES
  at,
  captures,  \* the pins of the call
  missing,   \* those not in place yet
  ask,       \* those whose URL was not asked yet
  taken,     \* what was taken from an asset and is not persisted yet
  assets,    \* archives looked at
  captured,  \* the directory: name -> content
  seen,      \* history: the files the call was offered, whole
  calls

captureVars == <<at, captures, missing, ask, taken, assets, captured, seen, calls>>

\* The directory may hold anything, of the pinned names too.
CaptureInit ==
  /\ at = "idle" /\ captures = <<>> /\ missing = {} /\ ask = {} /\ taken = {}
  /\ assets = 0 /\ seen = {} /\ calls = 0
  /\ captured \in UNION {[D -> Content] : D \in SUBSET Name}

Pins == {captures[i] : i \in DOMAIN captures}
FileOf(pin) == [name |-> pin.name, content |-> pin.content]

InPlace(pin) == pin.name \in DOMAIN captured /\ captured[pin.name] = pin.content

\* All pins are validated first; two of one name end the call.
Call ==
  /\ at = "idle" /\ calls < MaxCalls
  /\ calls' = calls + 1
  /\ \E pins \in Upto(Capture, MaxPins) :
       IF \A i, j \in DOMAIN pins : pins[i].name = pins[j].name => i = j
       THEN at' = "check" /\ captures' = pins
       ELSE UNCHANGED <<at, captures>>
  /\ UNCHANGED <<missing, ask, taken, assets, captured, seen>>

\* missing.retain: what matches stays as it is.
Check ==
  /\ at = "check"
  /\ missing' = {pin \in Pins : ~InPlace(pin)}
  /\ ask' = {pin \in missing' : pin.url}
  /\ at' = "ask"
  /\ UNCHANGED <<captures, taken, assets, captured, seen, calls>>

\* persist: a temporary file, renamed; the name has the old content or the new.
Persist(file) ==
  captured' = [n \in DOMAIN captured \cup {file.name} |->
                 IF n = file.name THEN file.content ELSE captured[n]]

Ask_unchecked(pin, answer) ==  \* mutant: what the CDN answers is not compared
  /\ at = "ask" /\ pin \in ask
  /\ ask' = ask \ {pin}
  /\ IF answer # Absent
     THEN Persist([FileOf(pin) EXCEPT !.content = answer]) /\ missing' = missing \ {pin}
     ELSE UNCHANGED <<missing, captured>>
  /\ seen' = seen \cup (IF answer # Absent THEN {[name |-> pin.name, content |-> answer]} ELSE {})
  /\ UNCHANGED <<at, captures, taken, assets, calls>>

\* The CDN answers with some bytes, or not.
Ask(pin, answer) ==
  /\ at = "ask" /\ pin \in ask
  /\ ask' = ask \ {pin}
  /\ IF answer = pin.content
     THEN Persist(FileOf(pin)) /\ missing' = missing \ {pin}
     ELSE UNCHANGED <<missing, captured>>
  /\ seen' = seen \cup (IF answer # Absent THEN {[name |-> pin.name, content |-> answer]} ELSE {})
  /\ UNCHANGED <<at, captures, taken, assets, calls>>

Asked == at = "ask" /\ ask = {} /\ at' = "assets"
         /\ UNCHANGED <<captures, missing, ask, taken, assets, captured, seen, calls>>

FilesOf(asset) == {asset.files[i] : i \in DOMAIN asset.files}

take_archive_firstOfName(asset) ==  \* mutant: a name is looked at once
  {pin \in missing : \E i \in DOMAIN asset.files :
     /\ asset.files[i] = FileOf(pin)
     /\ \A j \in 1..i - 1 : asset.files[j].name # pin.name}

\* The pins an asset has the payload of. A file of the name that does not
\* match is passed over.
take_archive(asset) == {pin \in missing : FileOf(pin) \in FilesOf(asset)}

Select_inPlace ==  \* mutant: what a broken asset had is crossed off
  /\ at = "assets" /\ missing # {} /\ assets < MaxAssets
  /\ assets' = assets + 1
  /\ \E asset \in Downloaded :
       /\ missing' = missing \ take_archive(asset)
       /\ IF asset.whole
          THEN /\ taken' = take_archive(asset)
               /\ at' = "persist"
               /\ seen' = seen \cup FilesOf(asset)
          ELSE UNCHANGED <<at, taken, seen>>
  /\ UNCHANGED <<captures, ask, captured, calls>>

\* An asset is downloaded and looked through, to its end or not at all.
\* (missing = selection.remaining is assigned after the files are persisted; in
\* between it is not read.)
Select ==
  /\ at = "assets" /\ missing # {} /\ assets < MaxAssets
  /\ assets' = assets + 1
  /\ \E asset \in Downloaded :
       IF asset.whole
       THEN /\ taken' = take_archive(asset)
            /\ missing' = missing \ take_archive(asset)
            /\ at' = "persist"
            /\ seen' = seen \cup FilesOf(asset)
       ELSE UNCHANGED <<at, taken, missing, seen>>
  /\ UNCHANGED <<captures, ask, captured, calls>>

PersistNext(pin) ==
  /\ at = "persist" /\ pin \in taken
  /\ Persist(FileOf(pin))
  /\ taken' = taken \ {pin}
  /\ UNCHANGED <<at, captures, missing, ask, assets, seen, calls>>

Persisted ==
  /\ at = "persist" /\ taken = {} /\ at' = "assets"
  /\ UNCHANGED <<captures, missing, ask, taken, assets, captured, seen, calls>>

\* The call ends: all is in place, no asset is left, or it is cut short.
EndCapture ==
  /\ at # "idle"
  /\ at' = "idle" /\ captures' = <<>> /\ missing' = {} /\ ask' = {} /\ taken' = {}
  /\ assets' = 0 /\ seen' = {}
  /\ UNCHANGED <<captured, calls>>

CaptureNext ==
  \/ Call \/ Check \/ Asked \/ Select \/ Persisted \/ EndCapture
  \/ \E pin \in ask, answer \in Content \cup {Absent} : Ask(pin, answer)
  \/ \E pin \in taken : PersistNext(pin)

CaptureSpec == CaptureInit /\ [][CaptureNext]_captureVars
-----------------------------------------------------------------------------
\* Where the loop over releases and assets may stop.
Deciding == at = "assets"

(* "Restore every requested payload" (capture.rs:354): a call that reports    *)
(* success, having nothing left that is missing, has each pinned payload      *)
(* under its name, whatever archives it met that could not be read.           *)
CapturesAreInPlace ==
  Deciding /\ missing = {} =>
    \A pin \in Pins : pin.name \in DOMAIN captured /\ captured[pin.name] = pin.content

(* "Pinned captures unavailable" (capture.rs:446-451) is reported only of     *)
(* payloads that nothing read so far offered, however an archive repeats       *)
(* their names.                                                               *)
NothingOfferedIsMissed == Deciding => \A pin \in missing : FileOf(pin) \notin seen

(* "Only matching locked basenames are materialized" (capture.rs:356-357): a  *)
(* step changes a file only to the bytes the call pins it to, so that a call  *)
(* cut short at any point leaves each name with its old content or that one.  *)
OnlyPinnedBytesAreWritten ==
  [][\A n \in DOMAIN captured' : n \notin DOMAIN captured \/ captured'[n] # captured[n] =>
       \E pin \in Pins : pin.name = n /\ captured'[n] = pin.content]_captureVars
=============================================================================
