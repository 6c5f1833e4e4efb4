------------------------------- MODULE Config -------------------------------
(* internal/config/config.go: every field is resolved from a default, the    *)
(* file, the environment and the options, the later ones winning.  Daemon    *)
(* and clients resolve their own and must end at the same socket.            *)
(*                                                                           *)
(* A list in the environment is given by its pieces between commas, so the   *)
(* empty variable is one empty piece.                                        *)
EXTENDS Integers, Sequences

CONSTANTS
    Texts, NoText,  \* what a text may be; the empty text
    DefaultText,    \* the default of a text field
    Numbers,        \* what a number in the file may be
    NaN             \* a variable that is no number, or not set

ASSUME ConfigAssumption ==
    /\ DefaultText \in Texts /\ NoText \notin Texts
    /\ Numbers \subseteq Int /\ NaN \notin Int

NumberFields == {"EventLogSize", "SyncQueueSize",
                 "LogFileMaxMB", "LogFileMaxBackups", "LogFileMaxAgeDays"}
ListFields == {"IgnorePatterns"}
FileOnlyFields == {"AppName", "ConfigDir", "DataDir", "RuntimeDir", "DatabasePath"}
NoDefaultFields == {"OAuthClientID", "OAuthClientSecret"}
OptionFields == {"LogLevel", "SocketPath"}
TextFields == {"SyncRoot", "LogFilePath", "OAuthRedirectHost"}
              \cup FileOnlyFields \cup NoDefaultFields \cup OptionFields

DefaultNumber ==
    [EventLogSize |-> 20, SyncQueueSize |-> 1024,
     LogFileMaxMB |-> 10, LogFileMaxBackups |-> 5, LogFileMaxAgeDays |-> 7]
DefaultList == <<"*.swp", "*.tmp", "*~", ".DS_Store">>

NewConfig(f) ==
    IF f \in NumberFields THEN DefaultNumber[f]
    ELSE IF f \in ListFields THEN DefaultList
    ELSE IF f \in NoDefaultFields THEN NoText
    ELSE DefaultText

applyConfigFile(f, old, given) ==
    IF \/ f \in NumberFields /\ given > 0
       \/ f \in ListFields /\ given # <<>>
       \/ f \in TextFields /\ given # NoText
    THEN given ELSE old

splitList(pieces) == SelectSeq(pieces, LAMBDA piece : piece # NoText)

\* Pieces that are all empty leave an empty list.
applyEnv(f, old, given) ==
    IF f \in FileOnlyFields THEN old
    ELSE IF f \in NumberFields THEN IF given # NaN /\ given > 0 THEN given ELSE old
    ELSE IF f \in ListFields THEN IF given # <<NoText>> THEN splitList(given) ELSE old
    ELSE IF given # NoText THEN given ELSE old

applyOptions(f, old, given) ==
    IF f \in OptionFields /\ given # NoText THEN given ELSE old

NewConfigWithOptions(f, file, env, option) ==
    applyOptions(f, applyEnv(f, applyConfigFile(f, NewConfig(f), file), env), option)

\* Mutant: the poll does not hand on the socket path.
PollSocketUnset(env, socket) == NewConfigWithOptions("SocketPath", NoText, env, NoText)

\* pollStatusCmd resolves again at every poll: from the socket path that the
\* status program resolved before, without its file.
PollSocket(env, socket) == NewConfigWithOptions("SocketPath", NoText, env, socket)

Optional(set) == set \cup {NoText}

-----------------------------------------------------------------------------
\* No file and no environment makes a size, or a limit of the log, zero or less.
SizesArePositive ==
    \A f \in NumberFields, file \in Numbers, env \in Numbers \cup {NaN} :
        NewConfigWithOptions(f, file, env, NoText) > 0
=============================================================================
