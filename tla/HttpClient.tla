---------------------------- MODULE HttpClient ----------------------------
(* The shared HTTP client (src/net/http_client.c): one transfer is a record op of
   what its callbacks recorded.  The transfer itself (libcurl, libuv) is outside:
   it reports chunks, then a curl code and an HTTP status. *)
EXTENDS Naturals

\* http_sockaddr_is_private, IPv4: the first two bytes of the address.
PrivateV4(a, b) ==
    \/ a \in {0, 10, 127} \/ a >= 224
    \/ a = 100 /\ b \in 64..127
    \/ a = 169 /\ b = 254
    \/ a = 172 /\ b \in 16..31
    \/ a = 192 /\ b \in {0, 168}
    \/ a = 198 /\ b \in {18, 19}

\* http_open_socket_cb: no socket to a private address unless the request allows it.
SocketRefused(address, allowPrivate) == ~allowPrivate /\ PrivateV4(address[1], address[2])

\* sc_http_client_perform, http_request_validate, http_append_header: what a request
\* is refused for before the transfer starts.
RefusedBefore(request) ==
    CASE request.url = "" \/ request.header = "line break" -> "invalid_argument"
      [] request.url # "" /\ request.header # "line break" /\ request.cancel -> "cancelled"
      [] OTHER -> "ok"

NewOp == [status |-> "ok", cancelled |-> FALSE, large |-> FALSE, size |-> 0]

\* http_write_cb: cancellation, then the size, then the callback, whose status is
\* kept on the operation.  The second part says whether the transfer goes on.
WriteChunk(op, n, cancel, MaxBytes, chunkStatus) ==
    CASE cancel -> <<[op EXCEPT !.cancelled = TRUE], FALSE>>
      [] ~cancel /\ op.size + n > MaxBytes -> <<[op EXCEPT !.large = TRUE], FALSE>>
      [] OTHER -> IF chunkStatus # "ok" THEN <<[op EXCEPT !.status = chunkStatus], FALSE>>
                  ELSE <<[op EXCEPT !.size = @ + n], TRUE>>

\* http_check_multi_info: the status a finished transfer is completed with.
CompletionStatus(op, cancel, curl, code) ==
    CASE op.status # "ok" -> op.status
      [] op.status = "ok" /\ (op.cancelled \/ cancel) -> "cancelled"
      [] OTHER -> IF op.large THEN "http"
                  ELSE IF curl = "timeout" THEN "timeout"
                  ELSE IF curl # "ok" \/ code >= 400 THEN "http" ELSE "ok"
=============================================================================
