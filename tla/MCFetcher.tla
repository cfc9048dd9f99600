------------------------------ MODULE MCFetcher ------------------------------
(***************************************************************************)
(* Constants for checking Fetcher on small instances, and checks of        *)
(* Transfers on small inputs.                                              *)
(***************************************************************************)
EXTENDS Fetcher, Transfers

CONSTANTS d1, d2, d3

Calls == {d1, d2, d3}
RcloneCalls == {d3}

-----------------------------------------------------------------------------
\* One option matters to another in nothing: each place says one, or nothing.
Says == {[NoOptions EXCEPT ![o] = v] :
            o \in {"retries", "timeout"}, v \in {"None", "blank", "0", "5", "7"}}

Handlers == {"auto", "http", "https", "ftp", "ftps", "rclone",
             "rclone-python", "typo"}

Cachelink(remote, says) == [rclone_remote |-> remote, says |-> says]

\* What the first says that says anything.
FirstOf(o, cachelink, remote, settings) ==
    IF cachelink[o] \notin Unset THEN cachelink[o]
    ELSE IF remote[o] \notin Unset THEN remote[o] ELSE settings[o]

\* A cachelink prevails over its remote and that over the settings, in listings
\* and downloads alike; a zero prevails, too, and then only a zero of retries
\* is passed to rclone.
ASSUME CachelinkPrevails ==
    \A settings, remote, says \in Says :
        LET remotes == [r \in {"r"} |-> remote]
            url == [scheme |-> "rclone", remote |-> "r"]
            listing == ListingFlags(settings, remotes, Cachelink("r", says))
        IN  /\ listing = {<<o, FirstOf(o, says, remote, settings)>> :
                            o \in {p \in Options :
                                     FirstOf(p, says, remote, settings) \notin
                                        (IF p = "retries" THEN {"None"}
                                         ELSE Falsy)}}
            /\ DownloadFlags(settings, remotes, url, says) = listing

\* What a preview or a test of a remote shows is what a cachelink of that
\* remote gets that says nothing.
ASSUME PreviewTellsTheTruth ==
    \A settings, remote \in Says :
        LET remotes == [r \in {"r"} |-> remote]
            url == [scheme |-> "other", remote |-> "r"]
            listing == ListingFlags(settings, remotes,
                                    Cachelink("r", NoOptions))
        IN  /\ PreviewFlags(settings, remotes, url, "rclone") = listing
            /\ TestFlags(settings, remotes, "r") = listing

\* A cachelink that does not name the remote of its URL is listed without the
\* options of that remote, and downloaded from with them.
ASSUME RemoteIsNamedTwice ==
    LET remotes == [r \in {"r"} |-> [NoOptions EXCEPT !["timeout"] = "5"]]
        url == [scheme |-> "rclone", remote |-> "r"]
    IN  /\ ListingFlags(NoOptions, remotes, Cachelink(NoRemote, NoOptions)) = {}
        /\ DownloadFlags(NoOptions, remotes, url, NoOptions) =
             {<<"timeout", "5">>}

\* What is listed by rclone is fetched by rclone, and nothing else is; no
\* handler makes an http URL unsupported.
ASSUME HandlersAgree ==
    \A scheme \in Schemes, handler \in Handlers :
        /\ (ListedBy(scheme, handler) = "rclone")
             <=> (FetchedBy(scheme, handler) = "rclone")
        /\ ListedBy("http", handler) # "unsupported"
=============================================================================
