------------------------------ MODULE MediaInfo ------------------------------
(***************************************************************************)
(* nMediaInfo's updater (Update in src/nMediaInfo/nMediaInfo.cpp, _Update  *)
(* in src/nMediaInfo/TextFunctions.cpp, CoverArt::Update).                 *)
(*                                                                         *)
(* Winamp broadcasts WinampSongChange when another song is played.  The    *)
(* module then starts a detached thread that asks Winamp what it is        *)
(* playing, writes title and artist into buffers, tells the labels and     *)
(* looks for the cover.  A flag keeps a second updater from being started  *)
(* while one runs.  The user interface thread reads the buffers whenever   *)
(* it evaluates a text, also in the middle of an update.                   *)
(*                                                                         *)
(* What is known of a song is identified with its file; NoFile is the      *)
(* empty string, and Winamp playing NoFile is not running.                 *)
(***************************************************************************)
EXTENDS Naturals

CONSTANTS
  Files,         \* the files Winamp can play
  NoFile,        \* the empty path, title or artist
  MaxAnnounced  \* bound: the changes announced and not yet handled

ASSUME MediaAssumption == NoFile \notin Files /\ MaxAnnounced \in Nat

VARIABLES
  winamp,        \* external: what Winamp plays
  announced,     \* WinampSongChange messages in the queue
  closed,        \* the flag of Update
  updater,       \* where the updater thread is
  newFilePath,   \* its local: the path Winamp told
  filePath, trackTitle, trackArtist,   \* the buffers
  labels,        \* what the labels show
  cover,         \* what the cover art shows
  missed         \* history: the last change was dropped, for an updater ran

mediaVars == <<winamp, announced, closed, updater, newFilePath, filePath, trackTitle,
               trackArtist, labels, cover, missed>>

Paths == Files \cup {NoFile}

\* initModule calls Update.
MediaInit ==
  /\ winamp \in Paths
  /\ announced = 0
  /\ closed = TRUE
  /\ updater = "find"
  /\ newFilePath = NoFile
  /\ filePath = NoFile /\ trackTitle = NoFile /\ trackArtist = NoFile
  /\ labels = [title |-> NoFile, artist |-> NoFile]
  /\ cover = NoFile
  /\ missed = FALSE

WinampRuns == winamp # NoFile

----------------------------------------------------------------------------
(* Winamp.                                                                 *)

PlaySong(file) ==
  /\ announced < MaxAnnounced
  /\ winamp' = file
  /\ announced' = announced + 1
  /\ UNCHANGED <<closed, updater, newFilePath, filePath, trackTitle, trackArtist,
                 labels, cover, missed>>

QuitWinamp ==
  /\ WinampRuns
  /\ winamp' = NoFile
  /\ UNCHANGED <<announced, closed, updater, newFilePath, filePath, trackTitle,
                 trackArtist, labels, cover, missed>>

----------------------------------------------------------------------------
(* The user interface thread.                                              *)

\* Update, for a WinampSongChange: a change that arrives while an updater runs
\* is dropped.
SongChanged ==
  /\ announced > 0
  /\ announced' = announced - 1
  /\ closed' = TRUE
  /\ updater' = IF closed THEN updater ELSE "find"
  /\ missed' = closed
  /\ UNCHANGED <<winamp, newFilePath, filePath, trackTitle, trackArtist, labels, cover>>

Buffers == [title |-> trackTitle, artist |-> trackArtist]

\* A label is evaluated for a reason of its own: its text is set, or it also
\* shows the time.
Reevaluate ==
  /\ labels' = Buffers
  /\ UNCHANGED <<winamp, announced, closed, updater, newFilePath, filePath, trackTitle,
                 trackArtist, cover, missed>>

----------------------------------------------------------------------------
(* The updater thread.                                                     *)

\* Without a Winamp, or if its process cannot be opened, the title is cleared,
\* though neither the artist nor filePath is.  Otherwise the thread asks which
\* track it is.
FindWinamp ==
  /\ updater = "find"
  /\ \/ /\ trackTitle' = NoFile
        /\ updater' = "notify"
        /\ UNCHANGED newFilePath
     \/ /\ WinampRuns
        /\ newFilePath' = winamp
        /\ updater' = "read"
        /\ UNCHANGED trackTitle
  /\ UNCHANGED <<winamp, announced, closed, filePath, trackArtist, labels, cover, missed>>

\* The path of the track is read out of Winamp.  newFilePath is not initialized:
\* if Winamp is gone by now it can be anything.  For the path read last time
\* there is nothing to do.
ReadFilePath ==
  /\ updater = "read"
  /\ newFilePath' \in IF WinampRuns THEN {newFilePath} ELSE Paths
  /\ filePath' = newFilePath'
  /\ updater' = IF newFilePath' = filePath THEN "notify" ELSE "title"
  /\ UNCHANGED <<winamp, announced, closed, trackTitle, trackArtist, labels, cover, missed>>

\* What Winamp answers about the file: nothing if it is gone, and perhaps
\* nothing if it is not.
TellPath == {NoFile} \cup (IF WinampRuns THEN {newFilePath} ELSE {})

ReadTitle ==
  /\ updater = "title"
  /\ trackTitle' \in TellPath
  /\ updater' = "artist"
  /\ UNCHANGED <<winamp, announced, closed, newFilePath, filePath, trackArtist, labels,
                 cover, missed>>

\* Artist and album.
ReadArtist ==
  /\ updater = "artist"
  /\ trackArtist' \in TellPath
  /\ updater' = "notify"
  /\ UNCHANGED <<winamp, announced, closed, newFilePath, filePath, trackTitle, labels,
                 cover, missed>>

\* (mutant) The labels are not told.
NotifyLabels_Forgotten ==
  /\ updater = "notify"
  /\ updater' = "cover"
  /\ UNCHANGED <<winamp, announced, closed, newFilePath, filePath, trackTitle, trackArtist,
                 labels, cover, missed>>

\* WM_TEXTUPDATENOTIFY, sent: the labels are evaluated before the thread goes on.
NotifyLabels ==
  /\ updater = "notify"
  /\ labels' = Buffers
  /\ updater' = "cover"
  /\ UNCHANGED <<winamp, announced, closed, newFilePath, filePath, trackTitle, trackArtist,
                 cover, missed>>

\* CoverArt::Update asks for the track once more, if Winamp can be opened.
FindCover ==
  /\ updater = "cover"
  /\ \/ updater' = "end" /\ UNCHANGED newFilePath
     \/ /\ WinampRuns
        /\ newFilePath' = winamp
        /\ updater' = "source"
  /\ UNCHANGED <<winamp, announced, closed, filePath, trackTitle, trackArtist, labels,
                 cover, missed>>

\* The path is read, again into a variable that is not initialized, and the
\* image found for it or the default one is sent with WM_COVERARTUPDATE.
SetCover ==
  /\ updater = "source"
  /\ cover' \in IF WinampRuns THEN {newFilePath, NoFile} ELSE Paths
  /\ updater' = "end"
  /\ UNCHANGED <<winamp, announced, closed, newFilePath, filePath, trackTitle, trackArtist,
                 labels, missed>>

EndUpdate ==
  /\ updater = "end"
  /\ closed' = FALSE
  /\ updater' = "none"
  /\ newFilePath' = NoFile
  /\ UNCHANGED <<winamp, announced, filePath, trackTitle, trackArtist, labels, cover, missed>>

Updater == \/ FindWinamp \/ ReadFilePath \/ ReadTitle \/ ReadArtist
           \/ NotifyLabels \/ FindCover \/ SetCover \/ EndUpdate

MediaNext ==
  \/ \E file \in Files : PlaySong(file)
  \/ QuitWinamp
  \/ SongChanged \/ Reevaluate
  \/ Updater

MediaSpec == MediaInit /\ [][MediaNext]_mediaVars

----------------------------------------------------------------------------
(* Properties.                                                             *)

MediaTypeOK ==
  /\ {winamp, newFilePath, filePath, trackTitle, trackArtist, cover} \subseteq Paths
  /\ announced \in 0..MaxAnnounced
  /\ closed \in BOOLEAN
  /\ updater \in {"none", "find", "read", "title", "artist", "notify", "cover",
                  "source", "end"}
  /\ labels \in [title : Paths, artist : Paths]
  /\ missed \in BOOLEAN

AtRest == ~closed /\ announced = 0

OneSong ==
  /\ labels = Buffers
  /\ labels.title # NoFile => labels.title = filePath
  /\ labels.artist # NoFile => labels.artist = filePath

\* Once an update is over the labels show what the buffers hold, and that is of
\* one song, though they may have shown the title of one with the artist of
\* another while the buffers were written.  The title, if one is shown, is that
\* of the song being played, unless its change was dropped because an updater
\* was running (Update, _Update).
LabelsFollow ==
  AtRest => /\ OneSong
            /\ (~missed /\ WinampRuns) => labels.title \in {winamp, NoFile}
=============================================================================
