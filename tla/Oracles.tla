-------------------------------- MODULE Oracles --------------------------------
(***************************************************************************)
(* MultiOracleContract of lib.rs, which collects prices of an asset and    *)
(* answers with their median, together with PriceFeedContract, one of its  *)
(* oracles, which forwards prices of its providers.  Assets are apart from *)
(* one another, so there is one.                                           *)
(***************************************************************************)
EXTENDS Ledger, Functions

CONSTANTS
  Feed,         \* the address of PriceFeedContract
  Providers,    \* accounts that may be registered with it
  MaxPrice,     \* u64::MAX
  Prices,       \* prices that are pushed
  Honest,       \* oracles that push only fair prices
  Lowest,       \* the lowest and
  Highest,      \* the highest fair price
  Stalenesses,  \* values of max_staleness
  DefaultStaleness,   \* DEFAULT_MAX_STALENESS_SECONDS
  Deviations,   \* values of max_deviation_bps
  DefaultDeviation,   \* DEFAULT_MAX_PRICE_DEVIATION_BPS
  MaxListed,    \* bound on the length of the list of oracles
  MaxPrices     \* bound on the prices collected

ASSUME OraclesAssumption ==
  /\ Feed \notin Accounts
  /\ MaxPrice \in Nat /\ Prices \subseteq 0 .. MaxPrice /\ Lowest \in Nat /\ Highest \in Nat
  /\ Stalenesses \subseteq Nat /\ DefaultStaleness \in Stalenesses
  /\ Deviations \subseteq Nat /\ DefaultDeviation \in Deviations
  /\ \A bps \in Deviations : 0 < bps /\ bps <= 10000

VARIABLES
  oracles,      \* how often each address is in the list
  observations, \* prices pushed; an oracle pushes one in a ledger
  max_staleness,
  providers,    \* registered providers of the feed
  last_price,   \* the last price the feed forwarded, at most one
  max_deviation,\* max_deviation_bps of the feed
  elsewhere     \* history: the feed forwarded a price to another contract since its last one here

oraclesVars ==
  <<oracles, observations, max_staleness, providers, last_price, max_deviation, elsewhere>>

Sources == Accounts \cup {Feed}

OraclesInit ==
  /\ oracles = [s \in Sources |-> IF s \in Honest \cup {Feed} THEN 1 ELSE 0]
  /\ observations = {}
  /\ max_staleness = DefaultStaleness
  /\ providers = {} /\ last_price = {}
  /\ max_deviation = DefaultDeviation
  /\ elsewhere = FALSE

OracleCall == contract = "oracle" /\ UNCHANGED ledgerVars
FeedUntouched == UNCHANGED <<providers, last_price, max_deviation, elsewhere>>

-----------------------------------------------------------------------------
Listed == FoldFunction(+, 0, oracles)

\* An oracle that is on the list is added once more.
AddOracle(o) ==
  /\ OracleCall /\ Listed < MaxListed
  /\ oracles' = [oracles EXCEPT ![o] = @ + 1]
  /\ UNCHANGED <<observations, max_staleness>> /\ FeedUntouched

\* One entry goes; the prices of the oracle stay.
RemoveOracle(o) ==
  /\ OracleCall /\ oracles[o] > 0
  /\ oracles' = [oracles EXCEPT ![o] = @ - 1]
  /\ UNCHANGED <<observations, max_staleness>> /\ FeedUntouched

SetMaxStaleness(s) ==
  /\ OracleCall
  /\ max_staleness' = s
  /\ UNCHANGED <<oracles, observations>> /\ FeedUntouched

\* push_price with o as the invoker.
Push(o, price) ==
  /\ oracles[o] > 0 /\ Cardinality(observations) < MaxPrices
  /\ ~\E x \in observations : x.oracle = o /\ x.ledger = now
  /\ o \in Honest => price \in Lowest .. Highest
  /\ observations' = observations \cup {[oracle |-> o, price |-> price, ledger |-> now]}
  /\ UNCHANGED <<oracles, max_staleness>>

PushPrice(o, price) == OracleCall /\ Push(o, price) /\ FeedUntouched

Fresh == {x \in observations : now - x.ledger <= max_staleness}

\* The price at index i of a sorted list of the prices of S.
AtIndex(S, i) ==
  CHOOSE p \in {x.price : x \in S} :
    /\ Cardinality({x \in S : x.price < p}) <= i
    /\ i < Cardinality({x \in S : x.price <= p})

\* Mutant: the list is not sorted; the last price pushed may come out.
MedianUnsorted == AtIndex(Fresh, Cardinality(Fresh) - 1)

\* get_median_price, when there is a fresh price.
Median == AtIndex(Fresh, Cardinality(Fresh) \div 2)

-----------------------------------------------------------------------------
RegisterProvider(p) ==
  /\ OracleCall /\ p \notin providers
  /\ providers' = providers \cup {p}
  /\ UNCHANGED <<oracles, observations, max_staleness, last_price, max_deviation, elsewhere>>

UnregisterProvider(p) ==
  /\ OracleCall /\ p \in providers
  /\ providers' = providers \ {p}
  /\ UNCHANGED <<oracles, observations, max_staleness, last_price, max_deviation, elsewhere>>

\* Both sides of a comparison in basis points.
Within(price, last, bps) ==
  (IF price > last THEN price - last ELSE last - price) * 10000 <= last * bps

\* The checks of update_price, before it calls the oracle contract.
Accepted(p, price) ==
  /\ OracleCall /\ p \in providers /\ price \notin {0, MaxPrice}
  /\ \A last \in last_price : Within(price, last, max_deviation)
  /\ last_price' = {price}

\* The provider names this oracle contract; when it panics, the call is undone.
UpdatePrice(p, price) ==
  /\ Accepted(p, price) /\ Push(Feed, price)
  /\ elsewhere' = FALSE
  /\ UNCHANGED <<providers, max_deviation>>

\* The provider names another contract, which takes the price.
UpdatePriceElsewhere(p, price) ==
  /\ Accepted(p, price)
  /\ elsewhere' = TRUE
  /\ UNCHANGED <<oracles, observations, max_staleness, providers, max_deviation>>

SetMaxDeviation(bps) ==
  /\ OracleCall
  /\ max_deviation' = bps
  /\ UNCHANGED <<oracles, observations, max_staleness, providers, last_price, elsewhere>>

OraclesNext ==
  \/ \E o \in Sources : AddOracle(o) \/ RemoveOracle(o)
  \/ \E o \in Accounts, price \in Prices : PushPrice(o, price)
  \/ \E s \in Stalenesses : SetMaxStaleness(s)
  \/ \E bps \in Deviations : SetMaxDeviation(bps)
  \/ \E p \in Providers :
       \/ RegisterProvider(p) \/ UnregisterProvider(p)
       \/ \E price \in Prices : UpdatePrice(p, price) \/ UpdatePriceElsewhere(p, price)

OraclesTypeOK ==
  /\ oracles \in [Sources -> Nat]
  /\ observations \subseteq [oracle : Sources, price : Prices, ledger : Nat]
  /\ max_staleness \in Stalenesses /\ max_deviation \in Deviations
  /\ providers \subseteq Providers /\ last_price \subseteq Prices
  /\ elsewhere \in BOOLEAN

Fair(x) == x.price \in Lowest .. Highest

\* The median is a fair price whenever more than half of the fresh prices are
\* fair, whoever pushed the others and whether or not their oracles are still
\* listed.  (Prices are counted, not oracles: one oracle has as many as there
\* were ledgers in which it pushed.)
MedianIsFair ==
  2 * Cardinality({x \in Fresh : Fair(x)}) > Cardinality(Fresh) => Median \in Lowest .. Highest

FeedPrices == {x \in observations : x.oracle = Feed}

\* A price the feed forwards differs from the price it forwarded here before by
\* no more than the deviation allowed at that moment, unless it forwarded a
\* price to another contract in between: last_prices is shared by them all.
FeedMovesSlowly ==
  \A new \in FeedPrices' \ FeedPrices :
    ~elsewhere =>
      \A x \in FeedPrices :
        (\A y \in FeedPrices : y.ledger <= x.ledger) => Within(new.price, x.price, max_deviation)

\* No minority of prices moves the median beyond the fair ones, and no single
\* call of a provider moves the price of the feed beyond its limit.
PricesHold == [][MedianIsFair' /\ FeedMovesSlowly]_<<ledgerVars, oraclesVars>>

=============================================================================
