------------------------------- MODULE JsonFile -------------------------------
(***************************************************************************)
(* How the laboratory writes its evidence: save_json() of lab/runner.py is *)
(* Path.write_text(), which empties the file, writes it and closes it, with *)
(* no temporary file and no rename.  A save that does not succeed leaves    *)
(* either the old content, when the file could not be opened, or a file     *)
(* that is cut off, which json.loads() refuses.                             *)
(***************************************************************************)

CONSTANTS Absent,   \* a file that does not exist
          Torn      \* a file whose text is cut off

\* The ways a save of new over old can end.
SaveJson(old, new) ==
  {[content |-> new, ok |-> TRUE], [content |-> old, ok |-> FALSE],
   [content |-> Torn, ok |-> FALSE]}

Exists(file) == file # Absent

\* json.loads(path.read_text()) returns.
Readable(file) == file \notin {Absent, Torn}
=============================================================================
