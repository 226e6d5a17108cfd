------------------------------ MODULE MCFiles -------------------------------
(***************************************************************************)
(* Instances for TLC of the inodes and names of files (Fs) and of their    *)
(* blocks and contents (FileData).  A behaviour runs one of the two        *)
(* models, the one that the variable part names.                           *)
(***************************************************************************)
EXTENDS MCFs

CONSTANTS Writers, OpenFiles, Inodes,
          NBlocks, NDIRECT, NINDIRECT, BSIZE, MAXOPBLOCKS, BPB, Lengths

(* The struct files: two of the first inode, one of the second. *)
InodeOf == (1 :> 1) @@ (2 :> 2) @@ (3 :> 1)

VARIABLES part, fs, logged, off, job, content

dataVars == <<fs, logged, off, job, content>>

D == INSTANCE FileData WITH Procs <- Writers, Files <- OpenFiles

DataOff == fs = 0 /\ logged = 0 /\ off = 0 /\ job = 0 /\ content = 0

FilesInit ==
  \/ part = "names" /\ Init /\ DataOff
  \/ part = "data" /\ Init /\ D!Init

FilesNext ==
  \/ part = "names" /\ Next /\ UNCHANGED <<part, dataVars>>
  \/ part = "data" /\ D!Next /\ UNCHANGED <<part, vars>>

FilesSpec == FilesInit /\ [][FilesNext]_<<part, vars, dataVars>>

Symmetry == Permutations(Writers)

-----------------------------------------------------------------------------
(* Every block is free or owned by one inode, after failed writes too, and *)
(* no round of filewrite() logs more blocks than its transaction may.      *)
BlocksAccounted == part = "data" => D!BlocksAccounted /\ D!OpFitsLog

=============================================================================
