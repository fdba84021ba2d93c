----------------------------- MODULE HttpRequest -----------------------------
(***************************************************************************)
(* One call of handle_files_request (HTTP_Server/server.c, libhttp.c): one *)
(* read of the request, the decision, and the response, which is written   *)
(* in many steps.  The client may send its request in pieces, or leave,    *)
(* and the file system may change, at any moment.                          *)
(***************************************************************************)
EXTENDS Integers, Sequences, SequencesExt

CONSTANTS Texts,        \* what clients may send, as sequences of characters
          LIBHTTP_REQUEST_MAX_SIZE,
          MaxSize,      \* (bound) the longest file, in bytes
          Stack,        \* the longest one whose buffer fits on the stack
          MaxChanges    \* (bound) how often the file system changes

ASSUME RequestAssumption ==
  /\ Texts \subseteq Seq(STRING)
  /\ {MaxSize, Stack, MaxChanges, LIBHTTP_REQUEST_MAX_SIZE} \subseteq Nat

Objects ==
  {o \in [kind : {"none", "file", "dir", "other"}, readable : BOOLEAN, size : 0 .. MaxSize] :
     /\ o.kind # "file" => o.size = 0
     /\ o.kind \in {"none", "other"} => ~o.readable}

(* What is written: the lines of the head and the parts of the body, each  *)
(* with its number: the status, the length, the position in the file.      *)
Item == {"HTTP/1.0", "Content-Type", "Content-Length", "", "byte", "junk", "page", "list"}
               \X Int

Line(status) == <<"HTTP/1.0", status>>
Type == <<"Content-Type", 0>>
Length(n) == <<"Content-Length", n>>
Blank == <<"", 0>>
Page(status) == <<"page", status>>
List == <<"list", 0>>

VARIABLES
  text, arrived,  \* what the client says, how much of it has arrived
  peer,           \* the client: open, closed, reset; broken once a write failed
  fs,             \* what the path names, and index.html in it
  changes,        \* how often that has changed
  got,            \* what read returned
  pc,
  todo, then,     \* the items to be written with dprintf, and what follows
  name, inode,    \* the path that is served, and the file that was opened
  len, data,      \* its length, and what is left to send of the body
  out             \* what was written to the socket

client == <<text, arrived, peer>>
file == <<name, inode, len>>
vars == <<client, fs, changes, got, pc, todo, then, file, data, out>>

Init ==
  /\ text \in Texts /\ arrived = 0 /\ peer = "open"
  /\ fs \in [path : Objects, index : {o \in Objects : o.kind # "other"}]
  /\ changes = 0
  /\ got = <<>> /\ pc = "read"
  /\ todo = <<>> /\ then = "done"
  /\ name = "path" /\ inode = fs.path /\ len = 0
  /\ data = <<>> /\ out = <<>>
-----------------------------------------------------------------------------
(* The client, and the other users of the file system.  (bound) Nothing    *)
(* arrives behind the only read, and no file changes its meaning before it *)
(* is looked up or after it was opened: none of this would be noticed.     *)
Arrive ==
  /\ peer = "open" /\ pc = "read"
  /\ arrived' \in arrived + 1 .. Len(text)
  /\ UNCHANGED <<text, peer, fs, changes, got, pc, todo, then, file, data, out>>

Leave ==
  /\ peer = "open"
  /\ peer' \in {"closed", "reset"}
  /\ UNCHANGED <<text, arrived, fs, changes, got, pc, todo, then, file, data, out>>

(* A name gets a new meaning; a file that is open does not notice.         *)
Replace ==
  /\ changes < MaxChanges /\ changes' = changes + 1
  /\ pc \in {"directory", "fopen", "opendir"} \/ (pc = "headers" /\ then \in {"fopen", "opendir"})
  /\ \/ \E o \in Objects : fs' = [fs EXCEPT !.path = o]
     \/ \E o \in Objects : o.kind # "other" /\ fs' = [fs EXCEPT !.index = o]
  /\ UNCHANGED <<client, got, pc, todo, then, file, data, out>>

(* The open file gets longer or shorter.                                   *)
Resize ==
  /\ changes < MaxChanges /\ changes' = changes + 1
  /\ pc \in {"headers", "fread"} /\ then = "fread" /\ inode.kind = "file"
  /\ \E s \in 0 .. MaxSize : inode' = [inode EXCEPT !.size = s]
  /\ UNCHANGED <<client, fs, got, pc, todo, then, name, len, data, out>>
-----------------------------------------------------------------------------
(* libhttp.c: http_request_parse on what one read returned, with the 0     *)
(* behind it.                                                              *)
NUL == "0"
SP == " "
NL == "\n"
char(t, i) == IF i <= Len(t) THEN t[i] ELSE NUL
past(t, i, Class) ==
  CHOOSE j \in i .. Len(t) + 1 :
    char(t, j) \notin Class /\ \A k \in i .. j - 1 : char(t, k) \in Class

Capital == {"A"}
InPath == STRING \ {NUL, SP, NL}
InLine == STRING \ {NUL, NL}

(* Slip: the line need not be complete.                                    *)
parsed_early(t) ==
  LET method_end == past(t, 1, Capital)
      path_end == past(t, method_end + 1, InPath)
  IN IF method_end > 1 /\ char(t, method_end) = SP /\ path_end > method_end + 1
     THEN SubSeq(t, method_end + 1, path_end - 1) ELSE <<>>

(* The path of a request, or nothing.                                      *)
parsed(t) ==
  LET method_end == past(t, 1, Capital)
      path_end == past(t, method_end + 1, InPath)
  IN IF /\ method_end > 1 /\ char(t, method_end) = SP
        /\ path_end > method_end + 1
        /\ char(t, past(t, path_end, InLine)) = NL
     THEN SubSeq(t, method_end + 1, path_end - 1) ELSE <<>>

(* read waits for the first bytes, or for the client to leave.  When it    *)
(* fails, the buffer holds what some earlier request left there.           *)
http_request_parse ==
  /\ pc = "read"
  /\ \/ /\ peer # "reset" /\ (arrived > 0 \/ peer = "closed")
        /\ got' = SubSeq(text, 1, Min({arrived, LIBHTTP_REQUEST_MAX_SIZE}))
     \/ /\ peer = "reset"
        /\ got' \in Texts \cup {<<>>}
  /\ pc' = "decide"
  /\ UNCHANGED <<client, fs, changes, todo, then, file, data, out>>
-----------------------------------------------------------------------------
(* http_start_response, http_send_header and http_end_headers write one    *)
(* item each and do not look at the result.  To a client that has left the *)
(* first write may fail; after that, SIGPIPE kills.                        *)
Written(items, to) ==
  \/ peer \in {"open", "closed"} /\ UNCHANGED peer /\ out' = out \o items /\ pc' = to
  \/ peer \in {"closed", "reset"} /\ peer' = "broken" /\ pc' = to /\ UNCHANGED out

Killed == peer # "open" /\ pc' = "dead" /\ UNCHANGED <<peer, out>>

http_send_header ==
  /\ pc = "headers"
  /\ todo' = Tail(todo)
  /\ \/ Written(<<Head(todo)>>, IF Len(todo) = 1 THEN then ELSE "headers")
     \/ Killed
  /\ UNCHANGED <<text, arrived, fs, changes, got, then, file, data>>

Respond(items, next) == pc' = "headers" /\ todo' = items /\ then' = next

(* Slip: `data' does not move on.                                          *)
http_send_data_stuck ==
  /\ pc = "send"
  /\ \E k \in 1 .. Len(data) :
       /\ data' = SubSeq(data, 1, Len(data) - k)
       /\ \/ Written(SubSeq(data, 1, k),
                     IF k = Len(data) \/ peer' = "broken" THEN "done" ELSE "send")
          \/ Killed
  /\ UNCHANGED <<text, arrived, fs, changes, got, todo, then, file>>

(* Slip: the loop of http_send_data tests size >= 0.                       *)
http_send_data_again ==
  /\ pc = "send"
  /\ \E k \in 0 .. Len(data) :
       /\ k = 0 <=> data = <<>>
       /\ data' = SubSeq(data, k + 1, Len(data))
       /\ Written(SubSeq(data, 1, k), IF peer' = "broken" THEN "done" ELSE "send") \/ Killed
  /\ UNCHANGED <<text, arrived, fs, changes, got, todo, then, file>>

(* write takes some of the data, or fails, which ends the loop.            *)
http_send_data ==
  /\ pc = "send"
  /\ \E k \in 1 .. Len(data) :
       /\ data' = SubSeq(data, k + 1, Len(data))
       /\ \/ Written(SubSeq(data, 1, k),
                     IF k = Len(data) \/ peer' = "broken" THEN "done" ELSE "send")
          \/ Killed
  /\ UNCHANGED <<text, arrived, fs, changes, got, todo, then, file>>
-----------------------------------------------------------------------------
(* server.c: serve_file(name), up to the call of fopen.                    *)
serve_file(n) == name' = n /\ Respond(<<Line(200), Type>>, "fopen") /\ UNCHANGED data

(* Without a file fseek crashes.  The length of a directory may be         *)
(* anything.                                                               *)
fopen ==
  /\ pc = "fopen"
  /\ LET f == fs[name]
     IN IF f.kind \in {"file", "dir"} /\ f.readable
        THEN /\ inode' = f
             /\ len' \in IF f.kind = "file" THEN {f.size} ELSE -1 .. MaxSize
             /\ Respond(<<Length(len'), Blank>>, "fread")
        ELSE pc' = "dead" /\ UNCHANGED <<inode, len, todo, then>>
  /\ UNCHANGED <<client, fs, changes, got, name, data, out>>

(* Slip: the 0 that the buffer has room for is sent too.                   *)
fread_terminated ==
  /\ pc = "fread"
  /\ IF len > Stack THEN pc' = "dead" /\ UNCHANGED data
     ELSE /\ data' = [i \in 1 .. len + 1 |-> <<IF i <= inode.size THEN "byte" ELSE "junk", i>>]
          /\ pc' = "send"
  /\ UNCHANGED <<client, fs, changes, got, todo, then, file, out>>

(* The buffer is as long as the file was; its end keeps what the stack     *)
(* held if the file is shorter now.  Of -1 bytes write makes an error.     *)
fread ==
  /\ pc = "fread"
  /\ IF len > Stack THEN pc' = "dead" /\ UNCHANGED data
     ELSE /\ data' = [i \in 1 .. len |-> <<IF i <= inode.size THEN "byte" ELSE "junk", i>>]
          /\ pc' = IF len > 0 THEN "send" ELSE "done"
  /\ UNCHANGED <<client, fs, changes, got, todo, then, file, out>>

serve_directory ==
  /\ pc = "directory"
  /\ IF fs.index.kind # "none"
     THEN serve_file("index")
     ELSE Respond(<<Line(200), Type, Blank>>, "opendir") /\ UNCHANGED <<name, data>>
  /\ UNCHANGED <<client, fs, changes, got, inode, len, out>>

(* If the directory cannot be listed, that was all.                        *)
opendir ==
  /\ pc = "opendir"
  /\ IF fs.path.kind = "dir" /\ fs.path.readable
     THEN data' = <<List>> /\ pc' = "send"
     ELSE pc' = "done" /\ UNCHANGED data
  /\ UNCHANGED <<client, fs, changes, got, todo, then, file, out>>

Refuse(status) ==
  /\ Respond(<<Line(status), Type, Blank>>, "send")
  /\ data' = <<Page(status)>>
  /\ UNCHANGED name

strstr(p) == \E i \in 1 .. Len(p) - 1 : p[i] = "." /\ p[i + 1] = "."

handle_files_request ==
  /\ pc = "decide"
  /\ LET path == parsed(got)
     IN CASE path = <<>> \/ path[1] # "/" -> Refuse(400)
          [] path # <<>> /\ path[1] = "/" /\ strstr(path) -> Refuse(403)
          [] path # <<>> /\ path[1] = "/" /\ ~strstr(path) ->
               CASE fs.path.kind = "dir" ->
                      pc' = "directory" /\ UNCHANGED <<todo, then, name, data>>
                 [] fs.path.kind = "file" -> serve_file("path")
                 [] OTHER -> Refuse(404)
  /\ UNCHANGED <<client, fs, changes, got, inode, len, out>>

Handler ==
  \/ http_request_parse \/ handle_files_request
  \/ serve_directory \/ opendir \/ fopen \/ fread
  \/ http_send_header \/ http_send_data

Next == Arrive \/ Leave \/ Replace \/ Resize \/ Handler

Spec == Init /\ [][Next]_vars

(* The server runs on, and a client that stays takes what it is sent.      *)
FairSpec == Spec /\ WF_vars(Handler)
-----------------------------------------------------------------------------
TypeOK ==
  /\ text \in Texts /\ arrived \in 0 .. Len(text)
  /\ peer \in {"open", "closed", "reset", "broken"}
  /\ fs \in [path : Objects, index : Objects]
  /\ changes \in 0 .. MaxChanges
  /\ got \in Seq(STRING)
  /\ pc \in {"read", "decide", "headers", "directory", "opendir", "fopen", "fread",
             "send", "done", "dead"}
  /\ todo \in Seq(Item)
  /\ then \in {"send", "fopen", "fread", "opendir", "done"}
  /\ name \in {"path", "index"} /\ inode \in Objects /\ len \in -1 .. MaxSize
  /\ data \in Seq(Item) /\ Len(data) <= IF len > 1 THEN len ELSE 1
  /\ out \in Seq(Item)

Refusal(status) == <<Line(status), Type, Blank, Page(status)>>
Listing == <<Line(200), Type, Blank, List>>
Empty == <<Line(200), Type, Blank>>
Whole(n, part) == <<Line(200), Type, Length(n), Blank>> \o [i \in 1 .. n |-> <<part[i], i>>]

Responses ==
  {Refusal(400), Refusal(403), Refusal(404), Listing}
    \cup {Whole(n, part) : n \in {len}, part \in [1 .. len -> {"byte", "junk"}]}

(* What was written is at every moment the beginning of one response, and  *)
(* when nothing failed it is all of it in the end (a directory that cannot *)
(* be listed has no body).  In particular the body is as long as announced *)
(* although the file changes and write takes as much as it likes.          *)
OneResponse ==
  \E r \in Responses :
    /\ IsPrefix(out, r)
    /\ pc = "done" /\ peer = "open" => out \in {r, Empty}

(* A request line, said with positions: capitals up to i, the path from    *)
(* there to j, the end of the line at k.                                   *)
Asks(t, p) ==
  \E i, j, k \in 1 .. Len(t) :
    /\ 1 < i /\ i + 1 < j /\ j <= k
    /\ \A h \in 1 .. i - 1 : t[h] = "A"
    /\ t[i] = SP /\ p = SubSeq(t, i + 1, j - 1) /\ ToSet(p) \cap {SP, NL} = {}
    /\ t[j] \in {SP, NL}
    /\ t[k] = NL /\ \A h \in j .. k - 1 : t[h] # NL
    /\ \A h \in 1 .. k : t[h] # NUL

Paths(t) == {p \in {SubSeq(t, i, j) : i, j \in 1 .. Len(t)} : Asks(t, p) /\ p[1] = "/"}

Expected(t) ==
  LET content(f) == Whole(f.size, [i \in 1 .. f.size |-> "byte"])
  IN CASE Paths(t) = {} -> Refusal(400)
       [] \E p \in Paths(t) : <<".", ".">> \in {SubSeq(p, i, i + 1) : i \in 1 .. Len(p) - 1} ->
            Refusal(403)
       [] OTHER ->
            CASE fs.path.kind = "file" -> content(fs.path)
              [] fs.path.kind = "dir" /\ fs.index.kind = "file" -> content(fs.index)
              [] fs.path.kind = "dir" /\ fs.index.kind = "none" ->
                   IF fs.path.readable THEN Listing ELSE Empty
              [] OTHER -> Refusal(404)

(* server.c:101-110 keeps its promise to a client that stays, as long as   *)
(* nothing changes and index.html is not a directory: the file, the index  *)
(* of the directory, the list of it, or the status that fits.  The process *)
(* dies only of a file that cannot be opened or does not fit on the stack. *)
Promised ==
  changes = 0 /\ peer = "open" /\ fs.index.kind # "dir" =>
    /\ pc = "done" => out = Expected(got)
    /\ pc = "dead" => ~fs[name].readable \/ fs[name].size > Stack

(* The handler comes to its end when the client says something or leaves.  *)
Returns ==
  arrived > 0 \/ peer # "open" ~> pc \in {"done", "dead"}
=============================================================================
