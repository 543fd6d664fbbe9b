-------------------------------- MODULE Fmp --------------------------------
(***************************************************************************)
(* The client of the market data provider: what each method makes of the   *)
(* replies it gets.  A reply is [status, shape, rows]: the status is "ok", *)
(* "limited" (429), "failed" (any other one) or "unreachable" (none came), *)
(* the shape is that of the body, a JSON list, a JSON object or anything   *)
(* else, and rows are the rows found in it, at first the newest.  One call *)
(* is up to MaxRetries replies, the ones its attempts would get.           *)
(***************************************************************************)
EXTENDS Integers, Sequences, SequencesExt, Lists

CONSTANTS
    NotFound,   \* ErrSymbolNotFound
    Outage,     \* every other error, the rate limit among them
    MaxRetries  \* maxRetries, 3

ASSUME ClientRetries == MaxRetries \in Nat \ {0}

\* What one call may get, of rows of one kind.
Replies(Kind) ==
    [1..MaxRetries -> [status : {"ok", "limited", "failed", "unreachable"},
                       shape  : {"list", "object", "text"},
                       rows   : Seq(Kind)]]

\* doGet: only a 429 is tried again, any other status is passed on as it is.
Get(replies) ==
    LET settled == {i \in 1..MaxRetries : replies[i].status # "limited"}
    IN  IF settled = {} \/ replies[Min(settled)].status = "unreachable"
        THEN Outage
        ELSE replies[Min(settled)]

\* json.NewDecoder(resp.Body).Decode into a slice, whatever the status said.
Rows(replies) ==
    LET reply == Get(replies)
    IN  IF reply = Outage \/ reply.shape # "list" THEN Outage ELSE reply.rows

\* decodeHistorical also takes an object, whose historical field may be missing.
HistoricalRows(replies) ==
    LET reply == Get(replies)
    IN  IF reply = Outage \/ reply.shape \notin {"list", "object"} THEN Outage ELSE reply.rows

First(rows) == CASE rows = Outage -> Outage
                 [] rows = <<>> -> NotFound
                 [] OTHER -> rows[1]

GetQuote(replies) == First(Rows(replies))

GetPriceChange(replies) == First(Rows(replies))

Search(replies) == Rows(replies)

\* listSymbols: rows without a symbol are left out.
ListSymbols(replies) ==
    LET rows == Rows(replies)
    IN  IF rows = Outage THEN Outage ELSE At(rows, {i \in DOMAIN rows : rows[i] # ""})

GetMostActiveStocks(replies, n) ==
    LET rows == Rows(replies)
    IN  IF rows # Outage /\ 0 < n /\ n < Len(rows) THEN SubSeq(rows, 1, n) ELSE rows

MarketMovers(replies) == Rows(replies)

\* The closes come newest first and are returned oldest first.
GetHistoryClose(replies) ==
    LET rows == HistoricalRows(replies)
    IN  CASE rows = Outage -> Outage
          [] rows = <<>> -> NotFound
          [] OTHER -> Reverse(rows)
=============================================================================
