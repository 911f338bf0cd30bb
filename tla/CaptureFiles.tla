---------------------------- MODULE CaptureFiles ----------------------------
(***************************************************************************)
(* The capture method that plays the images of a directory                 *)
(* (dep/ssl-vision/src/shared/capture/capturefromfile.cpp).  The first     *)
(* start reads the whole directory into memory; the later ones go on with  *)
(* what was read then.  A name is a number, so that its order is that of   *)
(* the sorted list; which files are images and which of those can be       *)
(* decoded is up to the constants.                                         *)
(***************************************************************************)
EXTENDS Integers, Sequences, FiniteSets, SequencesExt

CONSTANTS Directories,   (* a set of sets of file names the user may choose *)
          ImageNames,    (* the names with a known ending *)
          Broken         (* the images ImageIO cannot read *)

ASSUME FilesAssumption ==
  \A names \in Directories : names \subseteq Nat \ {0} /\ IsFiniteSet(names)

VARIABLES
  directory,      (* the setting; {} is a directory that cannot be opened *)
  loading,        (* imgs_to_load *)
  images,         (* the images in memory, in the order they are shown *)
  imageIndex,     (* currentImageIndex *)
  playing,        (* is_capturing *)
  lastImage       (* what getFrame() gave last, 0 when it failed *)

fileVars == <<directory, loading, images, imageIndex, playing, lastImage>>

Names == UNION Directories

FilesTypeOK ==
    /\ directory \in Directories
    /\ loading \in Seq(ImageNames)
    /\ images \in Seq(ImageNames)
    /\ imageIndex \in 0 .. Cardinality(Names)
    /\ playing \in BOOLEAN
    /\ lastImage \in Names \cup {0}

FilesInit ==
    /\ directory \in Directories
    /\ loading = <<>> /\ images = <<>> /\ imageIndex = 0
    /\ playing = FALSE /\ lastImage = 0

(* isImageFileName().                                                      *)
ImageFiles(names) == names \cap ImageNames

(* imgs_to_load.sort(): no directory has two files of one name.            *)
Ascending(list) == \A i, j \in DOMAIN list : i < j => list[i] < list[j]

ChangeDirectory ==
    /\ directory' \in Directories \ {directory}
    /\ UNCHANGED <<loading, images, imageIndex, playing, lastImage>>

(* A mistake: the files come in the order of the directory.                *)
StartUnsorted ==
    /\ ~playing
    /\ IF images # <<>>
       THEN playing' = TRUE /\ UNCHANGED <<loading, images, imageIndex>>
       ELSE \E list \in SetToSeqs(ToSet(loading) \cup ImageFiles(directory)) :
            /\ loading' = list /\ images' = list
            /\ imageIndex' = IF list = <<>> THEN imageIndex ELSE 0
            /\ playing' = (list # <<>>)
    /\ UNCHANGED <<directory, lastImage>>

StartFiles ==
    /\ ~playing
    /\ IF images # <<>>
       THEN playing' = TRUE /\ UNCHANGED <<loading, images, imageIndex>>
       ELSE \E list \in SetToSeqs(ToSet(loading) \cup ImageFiles(directory)) :
            /\ Ascending(list)
            /\ loading' = list /\ images' = list
            /\ imageIndex' = IF list = <<>> THEN imageIndex ELSE 0
            /\ playing' = (list # <<>>)
    /\ UNCHANGED <<directory, lastImage>>

StopFiles ==
    /\ playing /\ playing' = FALSE
    /\ UNCHANGED <<directory, loading, images, imageIndex, lastImage>>

(* A mistake: the index moves on only after an image that could be read.   *)
NextFileSticks ==
    /\ playing
    /\ LET image == images[imageIndex + 1]
       IN  IF image \in Broken
           THEN playing' = FALSE /\ lastImage' = 0 /\ UNCHANGED imageIndex
           ELSE /\ lastImage' = image /\ UNCHANGED playing
                /\ imageIndex' = (imageIndex + 1) % Len(images)
    /\ UNCHANGED <<directory, loading, images>>

(* getFrame(): an image that could not be read ends the capturing.         *)
NextFile ==
    /\ playing
    /\ LET image == images[imageIndex + 1]
       IN  /\ lastImage' = IF image \in Broken THEN 0 ELSE image
           /\ playing' = (image \notin Broken)
    /\ imageIndex' = (imageIndex + 1) % Len(images)
    /\ UNCHANGED <<directory, loading, images>>

FilesNext == ChangeDirectory \/ StartFiles \/ StopFiles \/ NextFile

FilesSpec == FilesInit /\ [][FilesNext]_fileVars

(* While the user goes on pressing start after each failure.               *)
FilesFairSpec == /\ FilesSpec /\ WF_fileVars(StartFiles)
                 /\ SF_fileVars(NextFile)

----------------------------------------------------------------------------
(* The images are shown in the order of their names, each in its turn,     *)
(* through stops, failures and new starts.                                 *)
ImagesInOrder ==
    [][lastImage # 0 /\ lastImage' \notin {0, lastImage} =>
          \/ /\ lastImage' > lastImage
             /\ \A n \in ToSet(images) \ Broken :
                   ~(lastImage < n /\ n < lastImage')
          \/ \A n \in ToSet(images) \ Broken :
                   lastImage' <= n /\ n <= lastImage]_fileVars

(* An image that cannot be read does not keep those after it from being    *)
(* shown, however often it ends the capturing.                             *)
EveryImageShown ==
    \A n \in ImageNames \ Broken :
        [](n \in ToSet(images) => <>(lastImage = n))
=============================================================================
