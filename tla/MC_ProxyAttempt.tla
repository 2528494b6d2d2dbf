-------------------------- MODULE MC_ProxyAttempt --------------------------
(* The exchanges on which TLC checks the attempts of ProxyCustom.            *)
EXTENDS ProxyCustom

Plain == [proto |-> "h1", body |-> "client", framed |-> FALSE, echo |-> FALSE, messages |-> {},
          request |-> 0, tunnel |-> 0, response |-> 2, upgrade |-> FALSE, cache |-> "off",
          optin |-> FALSE, watcher |-> FALSE, api |-> FALSE, short |-> FALSE,
          chunked |-> FALSE, hold |-> FALSE, retried |-> FALSE]

(* Uploads and downloads that fill both pipes, with either request framing;   *)
(* without a body also a response the client's framing ends at its header.    *)
Duplex == {[Plain EXCEPT !.request = n, !.response = m, !.chunked = c] :
             n \in {0, 2}, m \in {0, 2}, c \in BOOLEAN}
          \cup {[Plain EXCEPT !.short = TRUE]}
          \cup {[Plain EXCEPT !.request = n, !.hold = TRUE, !.chunked = TRUE] : n \in {0, 1}}
          \cup {[Plain EXCEPT !.request = 1, !.response = 1, !.body = b] : b \in {"consumed", "kept"}}
          \cup {[Plain EXCEPT !.request = 2, !.response = 1, !.body = "kept"]}

Upgrades == {[Plain EXCEPT !.request = n, !.tunnel = 1, !.response = 1, !.upgrade = TRUE,
                           !.chunked = TRUE] : n \in {0, 1}}

(* Cacheable requests without a body, with each of the options. *)
Cached == {[Plain EXCEPT !.cache = "miss", !.optin = o, !.api = ~o] : o \in BOOLEAN}
          \cup {[Plain EXCEPT !.cache = "miss", !.optin = TRUE, !.watcher = TRUE, !.api = a,
                              !.response = 1] : a \in BOOLEAN}
          \cup {[Plain EXCEPT !.cache = "stale", !.optin = o, !.api = o, !.response = 1] :
                   o \in BOOLEAN}

Retried == {[Plain EXCEPT !.cache = "miss", !.optin = TRUE, !.watcher = w, !.retried = TRUE,
                            !.response = 1] :
              w \in BOOLEAN}

H2 == [Plain EXCEPT !.proto = "h2"]

(* To HTTP/2: also a response its Content-Length ends, and the request bodies *)
(* a filter or an earlier attempt consumed.                                   *)
Streams ==
    {[H2 EXCEPT !.request = n, !.response = m] : n \in {0, 2}, m \in {0, 2}}
    \cup {[H2 EXCEPT !.request = 1, !.framed = TRUE], [H2 EXCEPT !.request = 2, !.short = TRUE],
          [H2 EXCEPT !.request = 1, !.hold = TRUE]}
    \cup {[H2 EXCEPT !.request = 2, !.response = 1, !.body = b] :
            b \in {"consumed", "kept", "lost"}}
    \cup {[H2 EXCEPT !.request = 1, !.response = 0, !.cache = "miss", !.optin = TRUE],
          [H2 EXCEPT !.response = 1, !.cache = "stale", !.api = TRUE]}

Custom == [Plain EXCEPT !.proto = "custom"]

Customs ==
    {[Custom EXCEPT !.request = n, !.response = m] : n \in {0, 2}, m \in {0, 2}}
    \cup {[Custom EXCEPT !.request = 1, !.response = 1, !.framed = TRUE]}
    \cup {[Custom EXCEPT !.request = 2, !.response = 1, !.body = b] : b \in {"kept", "lost"}}
    \cup {[Custom EXCEPT !.request = n, !.tunnel = 1, !.response = 1, !.upgrade = TRUE] :
            n \in {0, 1}}
    \cup {[Custom EXCEPT !.request = 1, !.response = 0, !.cache = "miss", !.optin = TRUE],
          [Custom EXCEPT !.response = 1, !.cache = "stale"]}
    \cup {[Custom EXCEPT !.request = 1, !.response = 0, !.messages = {"up"}],
          [Custom EXCEPT !.response = 0, !.cache = "miss", !.optin = TRUE, !.messages = {"down"}]}

AllExchanges == Duplex \cup Upgrades \cup Cached \cup Retried \cup Streams \cup Customs

(* An upload whose response the client's framing ends at its header. *)
ShortUpload == {[Plain EXCEPT !.request = 2, !.short = TRUE]}

(* A cacheable request whose body is still being uploaded. *)
CachedUpload == {[Plain EXCEPT !.request = 1, !.response = 1, !.cache = "miss"]}

(* A retry whose request body the first attempt consumed past its buffer. *)
LostBody == {[Plain EXCEPT !.request = 2, !.response = 1, !.body = "lost", !.chunked = TRUE]}

(* An HTTP/2 origin that answers as it reads. *)
EchoOrigin == {[H2 EXCEPT !.request = 3, !.response = 3, !.echo = TRUE]}
=============================================================================
