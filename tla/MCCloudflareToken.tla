-------------------------- MODULE MCCloudflareToken --------------------------
EXTENDS CloudflareToken, TLC

Symmetric == Permutations(Isolates) \cup Permutations(Requests)

\* Of the histories, only used counts once writers have overlapped.
Undisturbed ==
  <<cloudflare_oauth_token, live, granted, cachedAccessToken, refreshPromise, req,
    disturbed, used, IF disturbed THEN <<>> ELSE <<asked, forgotten>>>>
=============================================================================
