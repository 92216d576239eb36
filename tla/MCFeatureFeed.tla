--------------------------- MODULE MCFeatureFeed ---------------------------
EXTENDS FeatureFeed

\* In ticks: the price and the heatmap are kept for two, the funding rate for
\* longer than the first gate allows, as in configs/app.example.yaml.
MCTtl == [e \in Endpoints |->
            CASE e \in {"coin", "heatmap_future"} -> 2
              [] e = "funding_rate" -> 5
              [] OTHER -> 3]
=============================================================================
