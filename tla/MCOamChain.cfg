\* Two threads, so that the note of one could be taken by the other, and two
\* users, so that it could be that of an earlier operation; a name that is
\* permitted and one that is not.
SPECIFICATION Spec
CONSTANTS
  Threads = {t1, t2}
  Users = {u1, u2}
  Names = {allowed, notallowed}
  NotAllowed = {notallowed}
  Model = model
  Others = {"GetExplicitAuth", "SetAuth"}
  Null = Null
  NoWork = NoWork
SYMMETRY Symmetry
INVARIANTS IInv NotAllowedNeverCreated NoteIsOfThisOpen CopiesAreNotes
INVARIANTS OnlyOamGrants LoggedFirst
\* A process whose services have ended stops.
CHECK_DEADLOCK FALSE
